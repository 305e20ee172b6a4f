SPECIFICATION FairSpec
CONSTANTS
    MaxRequests = 2
    MaxTicks = 2
    Configs <- MCConfigs
    ServiceSets <- MCServiceSets
INVARIANTS TypeOK PlainRefusalIsHarmless
PROPERTIES NewerThanGrounding AdmittedOnLaterEvidence StopIsHeeded ImplementsRemoteBackend CallsReturn
