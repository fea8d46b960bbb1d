SPECIFICATION Spec
CONSTANTS
    t1 = t1
    t2 = t2
    c1 = c1
    Txs <- OneTx
    Funds <- OneCoin
    ProofLimit = 0
    GiveUpLimit = 0
    MaxRebroadcast = 0
    MergeLimit = 0
    Environments <- OnlyQuiet
PROPERTIES
    LateResultKeepsProgress
CHECK_DEADLOCK FALSE
