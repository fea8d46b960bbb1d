SPECIFICATION Spec
CONSTANTS
    t1 = t1
    t2 = t2
    c1 = c1
    Txs <- TwoTxs
    Funds <- OneCoin
    ProofLimit = 0
    GiveUpLimit = 0
    MaxRebroadcast = 0
    MergeLimit = 0
    Environments <- CompetingOrCalm
INVARIANTS
    FailedOutputsDead
    ReservationsSound
    NoCoinForgotten
    NoDoubleAllocation
    BroadcastInputHeld
PROPERTIES
    StaleInputsStayDead
CHECK_DEADLOCK FALSE
