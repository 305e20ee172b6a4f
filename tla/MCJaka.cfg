SPECIFICATION Spec
CONSTANTS
    None = None
    Contracts <- DefaultRegistry
    Fields <- MCFields
    Metres <- MCMetres
    Heights <- MCHeights
    Yaws <- MCYaws
    Pitches <- MCPitches
    MaxInsertions = 16
    MaxDepth = 6
    MaxExpansions = 64
    Tasks <- MCTasks
    Options <- MCOptions
    Worlds <- MCWorlds
    BackendObserve <- JakaObserve
    BackendAcquire <- JakaAcquire
    BackendCommand <- JakaCommand
    BackendStop <- JakaStop
    BackendRaises <- JakaRaises
    BackendCapabilities <- JakaCapabilities
    Drifts <- JakaDrifts
    HasReplanner = TRUE
    MaxRetries = 1
    MaxReplans = 1
    MaxObservations = 1
    JakaDisturbances <- ArmUnsafe
INVARIANTS NoBlindTransport JakaSuccessIsPhysical PlannedWithinCapabilities
PROPERTIES ImplementsClosedLoop
