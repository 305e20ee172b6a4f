SPECIFICATION Spec
CONSTANTS
    None = None
    Contracts <- MCRegistry
    Fields <- MCFields
    MaxInsertions = 3
    MaxDepth = 6
    MaxExpansions = 64
INVARIANTS RepairGrounds RepairKeepsTask
CHECK_DEADLOCK FALSE
