SPECIFICATION FairSpec
CONSTANTS
    MaxCalls = 2
    Behaviors = {"normal", "no_motion", "abort", "reject", "stall"}
    RefreshSucceeds = TRUE
INVARIANTS TypeOK OwnCommand NoMotionAfterCancel NothingLost
PROPERTIES NewerThanAdmitted ImplementsRemoteBackend CallsReturn EffectsShown
