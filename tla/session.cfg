SPECIFICATION SessionSpec
CONSTANTS
    Blocks = 3
    BlockSize = 2
    Pieces <- MCPieces
    Needs <- MCNeeds
    Capacity = 2
    ClientPacket <- MCClientPacket
    Announcement <- MCAnnouncement
    MayFail = TRUE
INVARIANTS
    SessionTypeOK
    BlocksRight
    RequestsKept
    NoCrossWait
PROPERTIES
    WorldComplete
    RequestAnswered
    TransfersEnd
CHECK_DEADLOCK FALSE
