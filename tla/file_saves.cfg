SPECIFICATION FairSpec
CONSTANTS
    a = a
    b = b
    c = c
    Key <- MCKey
    Size <- MCSize
    Limits = {2, 3}
    Absent = Absent
    Torn = Torn
    Damaged = Damaged
    MayFail = TRUE
INVARIANTS
    TypeOK
    FileNeverTorn
    CleanMeansSaved
PROPERTIES
    StartRestores
    FinishedIsSaved
