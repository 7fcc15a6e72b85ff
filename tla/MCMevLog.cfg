SPECIFICATION FairSpec
CONSTANTS
    Threads = {b1, b2}
    MaxBatches = 1
    WritesMayFail = TRUE
INVARIANTS LogIsCausal PanicHasCause
PROPERTY ShutdownEnds
CHECK_DEADLOCK FALSE
