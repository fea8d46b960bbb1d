SPECIFICATION Spec
CONSTANTS
    s1 = s1
    s2 = s2
    s3 = s3
    p1 = p1
    p2 = p2
    w1 = w1
    Stores <- ThreeStores
    First = s1
    Procs <- TwoCalls
    Writes <- OneWrite
    Environments <- FailingRequests
    MaxSwitches = 2
    MaxRestarts = 1
INVARIANTS
    ConflictsResolved
CHECK_DEADLOCK FALSE
