SPECIFICATION FairSpec
CONSTANTS
    None = None
    Contracts <- MCRegistry
    Fields <- MCFields
    Metres <- MCMetres
    Heights <- MCHeights
    Yaws <- MCYaws
    Pitches <- MCPitches
    MaxInsertions = 16
    MaxDepth = 6
    MaxExpansions = 64
    Tasks <- MCTasks
    Options <- Ablations
    Worlds <- MCWorlds
    BackendObserve <- Observe
    BackendAcquire <- Acquire
    BackendCommand <- Outcomes
    BackendStop <- Stop
    BackendRaises <- NeverRaises
    Drifts <- Disturbed
    BackendCapabilities <- MockCapabilities
    HasReplanner = TRUE
    MaxRetries = 1
    MaxReplans = 2
    MaxObservations = 2
    Sensor <- PatientSensor
    PermanentFaults <- MainOutage
    Handlers <- MCHandlers
    Disturbances <- MCDisturbances
INVARIANTS TypeOK AdmittedOnFreshEvidence StopTransmitted EveryStepAchieved BudgetsRespected
    BlockedNeverCommanded NothingAssumed SuccessIsPhysical
PROPERTIES StatedGoalsKept WorkRunsOut ImplementsClosedLoop Returns
