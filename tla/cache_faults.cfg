\* Any fetch may fail, and the limit is smaller than the chunks of a world.
SPECIFICATION Spec
CONSTANTS
    a = a
    b = b
    c = c
    t1 = t1
    t2 = t2
    t3 = t3
    Key <- MCKey
    Size <- MCSize
    World <- AllWorlds
    Task = {t1, t2, t3}
    NoTask = NoTask
    MaxSize = 3
    BatchSize = 2
    MayFail = TRUE
SYMMETRY Symmetry
INVARIANTS
    TypeOK
    SingleFlight
    NoDoubleInsert
    NeverStarved
    NoWaitCycle
    NoneMeansNothingLeft
CHECK_DEADLOCK FALSE
