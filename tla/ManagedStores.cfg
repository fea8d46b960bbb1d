SPECIFICATION FairSpec
CONSTANTS
    s1 = s1
    s2 = s2
    s3 = s3
    p1 = p1
    p2 = p2
    w1 = w1
    Stores <- ThreeStores
    First = s1
    Procs <- TwoCalls
    Writes <- OneWrite
    Environments <- AllKinds
    MaxSwitches = 3
    MaxRestarts = 1
INVARIANTS
    TypeOK
    Partitioned
    GateMatchesRecords
    NoWriteLost
PROPERTIES
    SwitchTakesEffect
    EveryCallReturns
CHECK_DEADLOCK FALSE
