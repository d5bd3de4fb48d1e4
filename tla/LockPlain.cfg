SPECIFICATION FairSpec
CONSTANTS
    Thread = {t1, t2, t3, d}
    Demo = d
    Lock = {a, b}
    Worker = {w1, w2, w3}
    Script <- MCScript
    Leader = t1
    Prologue <- test1
    MaxJobs = 1
    NULL = NULL
INVARIANTS
    TypeOK
    ChecksPass
    JobsWakeWorkers
PROPERTIES
    AllFinish
CHECK_DEADLOCK FALSE
