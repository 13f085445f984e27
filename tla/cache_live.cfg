\* Nothing fails and everything fits: every transfer ends well.
SPECIFICATION FairSpec
CONSTANTS
    a = a
    b = b
    c = c
    t1 = t1
    t2 = t2
    t3 = t3
    Key <- MCKey
    Size <- MCSize
    World <- TwoWorlds
    Task = {t1, t2, t3}
    NoTask = NoTask
    MaxSize = 4
    BatchSize = 2
    MayFail = FALSE
INVARIANTS
    NoMiss
PROPERTIES
    TransferEnds
CHECK_DEADLOCK FALSE
