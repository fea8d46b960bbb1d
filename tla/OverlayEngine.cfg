SPECIFICATION FairSpec
CONSTANTS
  t1 = t1
  t2 = t2
  txA = txA
  txB = txB
  txC = txC
  a = a
  b1 = b1
  b2 = b2
  sA = sA
  sB = sB
  sA2 = sA2
  sC = sC
  wA = wA
  wA2 = wA2
  Topics <- TwoTopics
  Txs <- AllTxs
  Outs <- AllOuts
  Maker <- Makers
  Ins <- Spends
  Subs <- AllSubs
  TxOf <- SubTx
  TopicsOf <- SubTopics
  Workloads <- AnyWorkload
  Historical = {sA, wA}
  Evictable = {txA, txB}
  Strictness = {TRUE, FALSE}
  MaxFaults = 1
  MaxWaiting = 1
  NoRow = NoRow
  Idle = Idle
INVARIANTS TypeOK HistoryKept ReferencesExact NoResurrection LookupAgrees DupesComplete
PROPERTY EverySubmissionEnds
CHECK_DEADLOCK FALSE
