SPECIFICATION Spec
CONSTANTS
    None = None
    Contracts <- DefaultRegistry
    Fields <- MCFields
    Metres <- MCMetres
    Heights <- MCHeights
    Yaws <- MCYaws
    Pitches <- MCPitches
    MaxInsertions = 16
    MaxDepth = 6
    MaxExpansions = 64
    Tasks <- OneDrive
    Options <- DefaultOptions
    Worlds <- QuietWorlds
    BackendObserve <- JakaObserve
    BackendAcquire <- JakaAcquire
    BackendCommand <- JakaCommand
    BackendStop <- JakaStop
    BackendRaises <- JakaRaises
    BackendCapabilities <- JakaCapabilities
    Drifts <- JakaDrifts
    HasReplanner = TRUE
    MaxRetries = 1
    MaxReplans = 1
    MaxObservations = 1
    JakaDisturbances <- ArmUnsafe
INVARIANTS UnsupportedNeverDispatched
