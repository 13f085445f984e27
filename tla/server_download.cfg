SPECIFICATION FairSpec
CONSTANTS
    WorldSize = 3
    AuxSize = 1
    BlockSize = 2
    U32 = 8
    Limit = 2
    MayStop = TRUE
INVARIANTS
    BlocksAccounted
    Window
    OriginalStaysHidden
PROPERTIES
    DownloadImplemented
    DownloadEnds
CHECK_DEADLOCK FALSE
