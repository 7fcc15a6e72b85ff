SPECIFICATION Spec
CONSTANTS
    Threads = {b1, b2}
    MaxBatches = 1
    WritesMayFail = FALSE
INVARIANT ReportIsReceived
CHECK_DEADLOCK FALSE
