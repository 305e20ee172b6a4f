SPECIFICATION Spec
CONSTANTS
    None = None
    Contracts <- MCRegistry
    Fields <- MCFields
    Metres <- MCMetres
    Heights <- MCHeights
    Yaws <- MCYaws
    Pitches <- MCPitches
    MaxInsertions = 16
    MaxDepth = 6
    MaxExpansions = 64
    Tasks <- OneMoveLift
    Options <- DefaultOptions
    Worlds <- LateWorlds
    BackendObserve <- Observe
    BackendAcquire <- Acquire
    BackendCommand <- Outcomes
    BackendStop <- Stop
    BackendRaises <- NeverRaises
    Drifts <- Disturbed
    BackendCapabilities <- MockCapabilities
    HasReplanner = TRUE
    MaxRetries = 1
    MaxReplans = 1
    MaxObservations = 1
    Sensor <- PatientSensor
    PermanentFaults <- MainOutage
    Handlers <- MCHandlers
    Disturbances <- MCDisturbances
PROPERTIES ReplanKeepsGoals
