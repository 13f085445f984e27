\* Nothing fails, and the limit is one batch.
SPECIFICATION Spec
CONSTANTS
    a = a
    b = b
    c = c
    t1 = t1
    t2 = t2
    t3 = t3
    Key <- MCKey
    Size <- MCSize
    World <- OneWorld
    Task = {t1, t2}
    NoTask = NoTask
    MaxSize = 2
    BatchSize = 2
    MayFail = FALSE
INVARIANTS
    NoMiss
CHECK_DEADLOCK FALSE
