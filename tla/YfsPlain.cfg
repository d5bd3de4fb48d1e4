SPECIFICATION Spec
CONSTANTS
    Client = {c1}
    Name <- MCName
    Inum <- MCInum
    FileBit = 8
    MaxSize = 3
    MaxOps = 5
    MaxCrashes = 1
INVARIANT AnswersRight
PROPERTY EntersOne
CHECK_DEADLOCK FALSE
