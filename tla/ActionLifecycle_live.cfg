SPECIFICATION FairSpec
CONSTANTS
    t1 = t1
    t2 = t2
    c1 = c1
    Txs <- OneTx
    Funds <- OneCoin
    ProofLimit = 1
    GiveUpLimit = 0
    MaxRebroadcast = 1
    MergeLimit = 1
    Environments <- Adverse
INVARIANTS
    TypeOK
    ProofSettled
PROPERTIES
    MinedCompletes
CHECK_DEADLOCK FALSE
