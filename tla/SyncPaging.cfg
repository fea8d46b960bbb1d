SPECIFICATION FairSpec
CONSTANTS
    a = a
    b = b
    c = c
    t1 = t1
    t2 = t2
    o1 = o1
    Stores = {a, b}
    Links <- OneWay
    Entities = 2
    Keys = {t1, t2, o1}
    Kind <- MCKind
    Parent <- MCParent
    Slots = 1
    Environments <- Steady
    MaxTime = 2
INVARIANTS
    TypeOK
    NothingSkipped
    ParentsFirst
PROPERTIES
    RowsNeverRegress
    SyncEnds
CHECK_DEADLOCK FALSE
