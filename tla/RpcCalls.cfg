SPECIFICATION Spec
CONSTANTS
    MaxXid = 4
    MaxConns = 2
    MaxRestarts = 1
INVARIANTS TypeOK OnceWhileWaiting OkMeansDone CancelReachesAll
CHECK_DEADLOCK FALSE
