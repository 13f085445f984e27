\* One failing fetch under a limit that fits everything.
SPECIFICATION FairSpec
CONSTANTS
    a = a
    b = b
    c = c
    t1 = t1
    t2 = t2
    t3 = t3
    Key <- MCKey
    Size <- MCSize
    World <- OneWorld
    Task = {t1, t2}
    NoTask = NoTask
    MaxSize = 4
    BatchSize = 2
    MayFail = TRUE
PROPERTIES
    WaitEnds
CHECK_DEADLOCK FALSE
