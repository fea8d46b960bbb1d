SPECIFICATION Spec
CONSTANTS
    c1 = c1
    c2 = c2
    c3 = c3
    p1 = p1
    Calls <- MCCalls
    Providers <- MCProviders
SYMMETRY CallSymmetry
INVARIANTS
    SyncBlocksOthers
CHECK_DEADLOCK FALSE
