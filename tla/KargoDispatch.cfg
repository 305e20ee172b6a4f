SPECIFICATION DispatchSpec
CONSTANTS
    MaxRequests = 1
    MaxTicks = 2
    Configs <- MCConfigs
    ServiceSets <- MCServiceSets
PROPERTIES LiftedAfterDispatch
