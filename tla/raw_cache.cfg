SPECIFICATION Spec
CONSTANTS
    a = a
    b = b
    c = c
    d = d
    Key <- MCKey
    Size <- MCSize
    InsertList <- MCInsertList
    MaxSize = 3
INVARIANTS
    TypeOK
    TotalExact
    LoopsMeetInsertAll
