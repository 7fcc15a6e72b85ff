SPECIFICATION Spec
CONSTANTS
    Slots <- FourSlots
    Versions <- TwoVersions
    MaxLen = 2
    MaxCoding = 1
    MaxBatch = 2
    MaxCrashes = 1
INVARIANT
    ChildrenAreKept
CHECK_DEADLOCK FALSE
