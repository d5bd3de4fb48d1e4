CONSTANTS
    Base = 4
    DEFAULT_RPC_SZ = 26
    t1 = t1
    t2 = t2
    Thread <- MCThread
    Call <- MCCall
    MaxXid = 2
SPECIFICATION Spec
INVARIANTS BuffersOK AnswerMatches
SYMMETRY Symmetry
