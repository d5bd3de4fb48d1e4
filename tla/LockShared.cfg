SPECIFICATION Spec
CONSTANTS
    Client = {1, 2}
    Thread = {t1, t2, t3}
    Other = t3
    clientOf <- TwoAndOne
    Lock = {1}
    MaxAcquires = 3
    MaxHeld = 1
    MaxLate = 1
    LateOps = {"acquire", "release"}
    UninitRelease = {0}
SYMMETRY Sharers
INVARIANT MutualExclusion
PROPERTY ImplementsService
CHECK_DEADLOCK FALSE
