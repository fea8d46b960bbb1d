SPECIFICATION FairSpec
CONSTANTS
    c1 = c1
    c2 = c2
    c3 = c3
    p1 = p1
    Calls <- MCCalls
    Providers <- MCProviders
INVARIANTS
    TypeOK
    MutualExclusion
    NoLostWaiter
    NoLockLeaked
PROPERTIES
    EveryCallEnds
    ImplementsLine
CHECK_DEADLOCK FALSE
