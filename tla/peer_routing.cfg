SPECIFICATION FairSpec
CONSTANTS
    a1 = a1
    a2 = a2
    Addr = {a1, a2}
    MaxId = 2
    QueueSize = 1
    MaxInFlight = 1
    MayFail = TRUE
INVARIANTS
    TypeOK
    LiveReachable
    NoCrossTalk
PROPERTIES
    PeerStarts
    Reconnects
    HalvesEnd
CHECK_DEADLOCK FALSE
