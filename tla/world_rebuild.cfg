SPECIFICATION Spec
CONSTANTS
    WindowSize = 2
    Mult = 3
    Offset = 3
    HashRange = 64
    MinChunk = 1
    MaxChunk = 5
    MaskRange = 4
    Byte <- MCByte
    XorTable <- MCXorTable
    Ones = 63
    Table <- MCTable
    Worlds <- MCWorlds
    LevelFiles <- MCLevelFiles
    InflateLimit = 5
    Size <- MCSize
    Aux <- MCAux
    Crc <- MCCrc
    U16 = 3
    U32 = 64
    TRANSFER_BLOCK_SIZE = 4
    MaxLength = 7
INVARIANTS
    TypeOK
    ChunksFollowContent
    ArchiveReadsBack
    CrcAsAnnounced
    BlocksAsAnnounced
    FitsIsServed
CHECK_DEADLOCK FALSE
