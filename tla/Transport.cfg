SPECIFICATION Spec
CONSTANTS
    Fd = {1, 2}
    Conn = {1, 2}
    Worker = {w1, w2}
    PduLen = 2
    MaxUnits = 2
    MaxJobs = 1
    MaxCalls = 1
    NULL = NULL
SYMMETRY Threads
INVARIANTS TypeOK NoUseAfterFree FreshRead OneWriter NoLostWakeup
CHECK_DEADLOCK FALSE
