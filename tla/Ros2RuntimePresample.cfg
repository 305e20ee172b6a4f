SPECIFICATION Spec
CONSTANTS
    MaxCalls = 2
    Behaviors = {"normal", "no_motion", "abort", "reject", "stall"}
    RefreshSucceeds = TRUE
PROPERTIES PublishedAfterCall
