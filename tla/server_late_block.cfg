SPECIFICATION Spec
CONSTANTS
    WorldSize = 3
    AuxSize = 1
    BlockSize = 2
    U32 = 8
    Limit = 2
    MayStop = FALSE
INVARIANT
    BlocksStayHere
