SPECIFICATION FairSpec
CONSTANTS
    Other = 2
    Client = {1, 2}
    Thread = {1, 2}
    clientOf <- TwoAndOne
    Lock = {1}
    MaxAcquires = 3
    MaxHeld = 1
    MaxLate = 1
    LateOps = {"retry"}
    UninitRelease = {0}
INVARIANTS TypeOK AssertsHold HolderIsCurrent RevokeKept
PROPERTIES AcquireReturns RetrySent
CHECK_DEADLOCK FALSE
