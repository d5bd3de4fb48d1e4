SPECIFICATION FairSpec
CONSTANTS
    Node = {1, 2}
    First = 1
    MaxView = 4
    MaxRounds = 3
    MaxStarts = 1
    MaxFaults = 1
    NULL = NULL
INVARIANTS TypeOK RecoveryWillWake
PROPERTY UpcallsReachRsm
CHECK_DEADLOCK FALSE
