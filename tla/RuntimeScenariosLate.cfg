SPECIFICATION MCSpec
CONSTANTS
    None = None
    Contracts <- ScenarioRegistry
    Fields <- ScenarioFields
    Metres <- MCMetres
    Heights <- MCHeights
    Yaws <- MCYaws
    Pitches <- MCPitches
    MaxInsertions = 16
    MaxDepth = 6
    MaxExpansions = 64
    Tasks <- MCTasks
    Options <- MCOptions
    Worlds <- MCWorlds
    BackendObserve <- SampledObserve
    BackendAcquire <- SampledAcquire
    BackendCommand <- SampledCommand
    BackendStop <- SampledStop
    BackendRaises <- SampledRaises
    BackendCapabilities <- SampledCapabilities
    Drifts <- SampledDrifts
    HasReplanner = TRUE
    MaxRetries = 2
    MaxReplans = 1
    MaxObservations = 1
    RobotSkills <- MCSkills
INVARIANTS LateSamplesHandled
