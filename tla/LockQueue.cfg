SPECIFICATION FairSpec
CONSTANTS
    Other = 4
    Client = {1}
    Thread = {1, 2, 3, 4}
    clientOf <- AllOfOne
    Lock = {1, 2}
    MaxAcquires = 4
    MaxHeld = 1
    MaxLate = 0
    LateOps = {}
    UninitRelease = {0, 2}
PROPERTY AcquireReturns
CHECK_DEADLOCK FALSE
