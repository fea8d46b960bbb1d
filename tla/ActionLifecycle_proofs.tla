----------------------- MODULE ActionLifecycle_proofs ------------------------
(***************************************************************************)
(* Proofs about the life of an action, for any number of actions and coins *)
(* and whatever the environment does: every call and every Monitor task is *)
(* first described by what it makes of the store.                          *)
(***************************************************************************)
EXTENDS ActionLifecycle, TLAPS

LEMMA NoneApart == None \notin Txs /\ None \notin Funds
BY DistinctNames DEF Coins

LEMMA CoinKinds == \A c \in Coins : (c \in Funds /\ c \notin Txs) \/ (c \in Txs /\ c \notin Funds)
BY DistinctNames DEF Coins

-----------------------------------------------------------------------------
(***************************************************************************)
(* Requests.                                                               *)
(***************************************************************************)
LEMMA NoReqType == NoReq \in Reqs
BY LimitsAreNaturals DEF NoReq, Reqs, ReqStatus, None

LEMMA SetStatusFields ==
  ASSUME NEW r \in Reqs, NEW s \in ReqStatus
  PROVE  /\ SetStatus(r, s) \in Reqs
         /\ SetStatus(r, s).status = s
         /\ SetStatus(r, s).proven = r.proven
         /\ SetStatus(r, s).attempts = r.attempts
         /\ SetStatus(r, s).rebroadcasts = r.rebroadcasts
         /\ SetStatus(r, s).notified = r.notified
         /\ SetStatus(r, s).wasBroadcast <=> r.wasBroadcast \/ s \in {"unmined", "completed"}
BY DEF SetStatus, Reqs

LEMMA AttemptedFields ==
  ASSUME NEW r \in Reqs
  PROVE  /\ Attempted(r) \in Reqs
         /\ Attempted(r).status = r.status
         /\ Attempted(r).proven = r.proven
         /\ Attempted(r).wasBroadcast = r.wasBroadcast
BY LimitsAreNaturals DEF Attempted, Reqs

LEMMA MergeFailedFields ==
  ASSUME NEW d, NEW t, NEW r \in Reqs, NEW q \in MergeFailed(d, t, r)
  PROVE  /\ q \in Reqs /\ q.status \in {r.status, "invalid"}
         /\ q.proven = r.proven
         /\ q.wasBroadcast <=> r.wasBroadcast
<1>1. PICK a : a = Attempted(r)
  OBVIOUS
<1>2. a \in Reqs /\ a.status = r.status /\ a.proven = r.proven /\ a.wasBroadcast = r.wasBroadcast
  BY <1>1, AttemptedFields
<1>3. "invalid" \in ReqStatus
  BY DEF ReqStatus
<1>4. q = a \/ q = SetStatus(a, "invalid")
  BY <1>1 DEF MergeFailed
<1>5. CASE q = a
  BY <1>2, <1>5
<1>6. CASE q = SetStatus(a, "invalid")
  BY <1>2, <1>3, <1>6, SetStatusFields
<1> QED BY <1>4, <1>5, <1>6

LEMMA TimedOutFields ==
  ASSUME NEW r \in Reqs
  PROVE  /\ TimedOut(r) \in Reqs
         /\ TimedOut(r).status \in {"invalid", "unsent"}
         /\ TimedOut(r).proven = r.proven
         /\ TimedOut(r).wasBroadcast <=> r.wasBroadcast
         /\ MaxRebroadcast = 0 /\ r.wasBroadcast => TimedOut(r).status = "unsent"
<1>1. {"invalid", "unsent"} \subseteq ReqStatus
  BY DEF ReqStatus
<1>2. /\ SetStatus(r, "invalid") \in Reqs /\ SetStatus(r, "unsent") \in Reqs
      /\ SetStatus(r, "invalid").status = "invalid" /\ SetStatus(r, "unsent").status = "unsent"
      /\ SetStatus(r, "invalid").proven = r.proven /\ SetStatus(r, "unsent").proven = r.proven
      /\ SetStatus(r, "unsent").rebroadcasts = r.rebroadcasts
      /\ SetStatus(r, "invalid").wasBroadcast <=> r.wasBroadcast
      /\ SetStatus(r, "unsent").wasBroadcast <=> r.wasBroadcast
  BY <1>1, SetStatusFields
<1>3. r.rebroadcasts \in 0..MaxRebroadcast /\ MaxRebroadcast \in Nat /\ ProofLimit \in Nat
  BY LimitsAreNaturals DEF Reqs
<1>4. CASE ~r.wasBroadcast \/ (MaxRebroadcast > 0 /\ r.rebroadcasts >= MaxRebroadcast)
  <2>1. TimedOut(r) = [SetStatus(r, "invalid") EXCEPT !.notified = FALSE]
    BY <1>4 DEF TimedOut
  <2>2. ~(MaxRebroadcast = 0 /\ r.wasBroadcast)
    BY <1>3, <1>4
  <2>3. /\ TimedOut(r) \in Reqs
        /\ TimedOut(r).status = "invalid"
        /\ TimedOut(r).proven = r.proven
        /\ TimedOut(r).wasBroadcast <=> r.wasBroadcast
    BY <2>1, <1>2 DEF Reqs
  <2> QED BY <2>2, <2>3
<1>5. CASE ~(~r.wasBroadcast \/ (MaxRebroadcast > 0 /\ r.rebroadcasts >= MaxRebroadcast))
  <2>1. TimedOut(r) = [SetStatus(r, "unsent") EXCEPT !.notified = FALSE, !.attempts = 0,
             !.rebroadcasts = IF MaxRebroadcast > 0 THEN @ + 1 ELSE @]
    BY <1>5 DEF TimedOut
  <2>2. (IF MaxRebroadcast > 0 THEN r.rebroadcasts + 1 ELSE r.rebroadcasts) \in 0..MaxRebroadcast
    BY <1>3, <1>5
  <2>3. 0 \in 0..(ProofLimit + 1)
    BY <1>3
  <2>4. PICK n \in 0..MaxRebroadcast :
            TimedOut(r) = [SetStatus(r, "unsent") EXCEPT !.notified = FALSE, !.attempts = 0,
                              !.rebroadcasts = n]
    BY <2>1, <2>2, <1>2 DEF Reqs
  <2> QED BY <2>3, <2>4, <1>2 DEF Reqs
<1> QED BY <1>4, <1>5

\* The status of a request that has the result of a posting.
StatusAfter(result) ==
    CASE result = "success" -> "unmined"
      [] result = "doubleSpend" -> "doubleSpend"
      [] result = "invalidTx" -> "invalid"
      [] result = "serviceError" -> "sending"

LEMMA ReqAfterFields ==
  ASSUME NEW r \in Reqs, NEW result \in Results
  PROVE  /\ ReqAfter(r, result) \in Reqs
         /\ ReqAfter(r, result).status = StatusAfter(result)
         /\ ReqAfter(r, result).proven = r.proven
         /\ ReqAfter(r, result).wasBroadcast <=> r.wasBroadcast \/ result = "success"
<1>1. {"unmined", "doubleSpend", "invalid", "sending"} \subseteq ReqStatus
  BY DEF ReqStatus
<1>2. \A q \in Reqs, s \in {"unmined", "doubleSpend", "invalid", "sending"} :
         /\ SetStatus(q, s) \in Reqs /\ SetStatus(q, s).status = s
         /\ SetStatus(q, s).proven = q.proven
         /\ SetStatus(q, s).wasBroadcast <=> q.wasBroadcast \/ s = "unmined"
  BY <1>1, SetStatusFields
<1>3. Attempted(r) \in Reqs /\ Attempted(r).proven = r.proven
      /\ Attempted(r).wasBroadcast = r.wasBroadcast
  BY AttemptedFields
<1>4. CASE result = "success"
  BY <1>2, <1>4 DEF ReqAfter, StatusAfter
<1>5. CASE result = "doubleSpend"
  BY <1>2, <1>5 DEF ReqAfter, StatusAfter
<1>6. CASE result = "invalidTx"
  BY <1>2, <1>6 DEF ReqAfter, StatusAfter
<1>7. CASE result = "serviceError"
  BY <1>2, <1>3, <1>7 DEF ReqAfter, StatusAfter
<1> QED BY <1>4, <1>5, <1>6, <1>7 DEF Results

-----------------------------------------------------------------------------
(***************************************************************************)
(* What the storage primitives make of a store.                            *)
(***************************************************************************)
LEMMA StoreFields ==
  ASSUME NEW d \in Stores
  PROVE  /\ d.tx \in [Txs -> TxStatus] /\ d.req \in [Txs -> Reqs]
         /\ d.linked \in [Txs -> BOOLEAN]
         /\ d.spendable \in [Coins -> BOOLEAN]
         /\ d.spentBy \in [Coins -> Txs \cup {None}]
BY DEF Stores

\* The parts of a store that a call leaves alone.
SameCoins(d, e) == e.spendable = d.spendable /\ e.spentBy = d.spentBy
SameTxs(d, e) == e.tx = d.tx /\ e.linked = d.linked

\* Only the request of t is written.
ReqOnly(d, e, t, r) ==
    /\ e \in Stores /\ SameCoins(d, e) /\ SameTxs(d, e)
    /\ e.req = [d.req EXCEPT ![t] = r]

LEMMA WriteReqFields ==
  ASSUME NEW d \in Stores, NEW t \in Txs, NEW r \in Reqs
  PROVE  \E q \in Reqs : /\ ReqOnly(d, WriteReq(d, t, r), t, q)
                         /\ q.status = r.status /\ q.wasBroadcast = r.wasBroadcast
                         /\ q.proven <=> r.proven \/ d.req[t].proven
<1>1. PICK q : q = [r EXCEPT !.proven = @ \/ d.req[t].proven]
  OBVIOUS
<1>2. q \in Reqs /\ q.status = r.status /\ q.wasBroadcast = r.wasBroadcast
      /\ (q.proven <=> r.proven \/ d.req[t].proven)
  BY <1>1, StoreFields DEF Reqs
<1>3. WriteReq(d, t, r) = [d EXCEPT !.req[t] = q]
  BY <1>1 DEF WriteReq
<1>4. ReqOnly(d, WriteReq(d, t, r), t, q)
  BY <1>2, <1>3 DEF Stores, ReqOnly, SameCoins, SameTxs
<1> QED BY <1>2, <1>4

\* Only the status of transaction t is written.
TxOnly(d, e, t, s) ==
    /\ e \in Stores /\ SameCoins(d, e) /\ e.req = d.req /\ e.linked = d.linked
    /\ e.tx = [d.tx EXCEPT ![t] = s]

\* Transaction t is failed: its inputs are free, its outputs are dead, and an
\* input that is no UTXO may have been set aside.
Failed(d, e, t) ==
    /\ e \in Stores /\ e.linked = d.linked
    /\ e.tx = [d.tx EXCEPT ![t] = "failed"]
    /\ MayUpdate(d, t, "failed")
    /\ \A c \in Coins :
         /\ e.spentBy[c] = IF c = t \/ d.spentBy[c] = t THEN None ELSE d.spentBy[c]
         /\ e.spendable[c] => c # t /\ (d.spendable[c] \/ d.spentBy[c] = t)
         /\ c # t /\ (d.spendable[c] \/ d.spentBy[c] = t) =>
               e.spendable[c] \/ (c = input[t] /\ NotUtxo(c))

LEMMA TxOnlyFields ==
  ASSUME NEW d \in Stores, NEW t \in Txs, NEW s \in TxStatus
  PROVE  TxOnly(d, [d EXCEPT !.tx[t] = s], t, s)
BY DEF TxOnly, Stores, SameCoins

LEMMA FailedFields ==
  ASSUME NEW d \in Stores, NEW t \in Txs, MayUpdate(d, t, "failed")
  PROVE  LET e == UpdateTransactionStatus(d, t, "failed")
         IN Failed(d, e, t) /\ e.req = d.req
<1>1. PICK f : f = [d EXCEPT !.tx[t] = "failed"]
  OBVIOUS
<1>2. TxOnly(d, f, t, "failed")
  BY <1>1, TxOnlyFields DEF TxStatus
<1>3. PICK g : g = FreeInputs(f, t)
  OBVIOUS
<1>4. /\ g \in Stores /\ g.tx = f.tx /\ g.req = f.req /\ g.linked = f.linked
      /\ g.spendable = [c \in Coins |-> f.spendable[c] \/ f.spentBy[c] = t]
      /\ g.spentBy = [c \in Coins |-> IF f.spentBy[c] = t THEN None ELSE f.spentBy[c]]
  BY <1>2, <1>3 DEF FreeInputs, Stores, TxOnly
<1>5. PICK h : h = KillOutputs(g, t)
  OBVIOUS
<1>6. t \in Coins
  BY DEF Coins
<1>7. /\ h \in Stores /\ h.tx = g.tx /\ h.req = g.req /\ h.linked = g.linked
      /\ h.spendable = [g.spendable EXCEPT ![t] = FALSE]
      /\ h.spentBy = [g.spentBy EXCEPT ![t] = None]
  BY <1>4, <1>5, <1>6 DEF KillOutputs, Stores
<1>8. UpdateTransactionStatus(d, t, "failed") = h
  BY <1>1, <1>3, <1>5 DEF UpdateTransactionStatus
<1>9. /\ f.spendable = d.spendable /\ f.spentBy = d.spentBy /\ f.linked = d.linked
      /\ f.req = d.req /\ f.tx = [d.tx EXCEPT ![t] = "failed"]
  BY <1>2 DEF TxOnly, SameCoins
<1>10. ASSUME NEW c \in Coins
       PROVE  /\ h.spentBy[c] = IF c = t \/ d.spentBy[c] = t THEN None ELSE d.spentBy[c]
              /\ h.spendable[c] <=> c # t /\ (d.spendable[c] \/ d.spentBy[c] = t)
  <2>1. CASE c = t
    BY <2>1, <1>4, <1>7, <1>6
  <2>2. CASE c # t
    <3>1. h.spentBy[c] = g.spentBy[c] /\ h.spendable[c] = g.spendable[c]
      BY <2>2, <1>4, <1>7
    <3>2. g.spentBy[c] = (IF d.spentBy[c] = t THEN None ELSE d.spentBy[c])
      BY <1>4, <1>9
    <3>3. g.spendable[c] <=> d.spendable[c] \/ d.spentBy[c] = t
      BY <1>4, <1>9
    <3> QED BY <3>1, <3>2, <3>3, <2>2
  <2> QED BY <2>1, <2>2
<1>11. Failed(d, h, t) /\ h.req = d.req
  BY <1>10, <1>9, <1>7, <1>4 DEF Failed
<1> QED BY <1>8, <1>11

LEMMA UpdateFields ==
  ASSUME NEW d \in Stores, NEW t \in Txs, NEW s \in TxStatus
  PROVE  LET e == UpdateTransactionStatus(d, t, s)
         IN \/ ~MayUpdate(d, t, s) /\ e = d
            \/ MayUpdate(d, t, s) /\ s # "failed" /\ TxOnly(d, e, t, s)
            \/ s = "failed" /\ Failed(d, e, t) /\ e.req = d.req
<1>1. CASE ~MayUpdate(d, t, s)
  BY <1>1 DEF UpdateTransactionStatus
<1>2. CASE MayUpdate(d, t, s) /\ s = "failed"
  BY <1>2, FailedFields
<1>3. CASE MayUpdate(d, t, s) /\ s # "failed"
  BY <1>3, TxOnlyFields DEF UpdateTransactionStatus
<1> QED BY <1>1, <1>2, <1>3

(***************************************************************************)
(* What a posting leaves: the request alone, when the transaction may not  *)
(* be updated, or both rows.                                               *)
(***************************************************************************)
Posted(d, e, t, q, result) ==
    /\ q \in Reqs /\ e \in Stores
    /\ e.req = [d.req EXCEPT ![t] = q] /\ e.linked = d.linked
    /\ \/ ~MayUpdate(d, t, TxAfter(result)) /\ SameTxs(d, e) /\ SameCoins(d, e)
       \/ /\ result \in {"success", "serviceError"}
          /\ \E s \in {"unproven", "sending"} :
                MayUpdate(d, t, s) /\ e.tx = [d.tx EXCEPT ![t] = s]
          /\ SameCoins(d, e)
       \/ result \in {"doubleSpend", "invalidTx"} /\ Failed(d, e, t)

\* The request that is written: r with the result.
Answered(d, t, r, q, result) ==
    /\ q.proven <=> r.proven \/ d.req[t].proven
    /\ q.wasBroadcast <=> r.wasBroadcast \/ result = "success"
    /\ q.status = StatusAfter(result)

LEMMA ApplyFields ==
  ASSUME NEW d \in Stores, NEW t \in Txs, NEW result \in Results, NEW answered
  PROVE  \E q \in Reqs : /\ Posted(d, ApplyResult(d, t, result, answered), t, q, result)
                         /\ q.proven = d.req[t].proven
                         /\ q.status = StatusAfter(result)
                         /\ q.wasBroadcast <=> d.req[t].wasBroadcast \/ result = "success"
<1> DEFINE r == d.req[t]
           s == TxAfter(result)
<1>1. r \in Reqs
  BY StoreFields
<1>2. PICK f : f = WriteReq(d, t, ReqAfter(r, result))
  OBVIOUS
<1>3. PICK q \in Reqs : /\ ReqOnly(d, f, t, q)
                        /\ q.status = StatusAfter(result)
                        /\ q.proven = r.proven
                        /\ q.wasBroadcast <=> r.wasBroadcast \/ result = "success"
  <2>1. PICK p : p = ReqAfter(r, result)
    OBVIOUS
  <2>2. /\ p \in Reqs /\ p.status = StatusAfter(result) /\ p.proven = r.proven
        /\ p.wasBroadcast <=> r.wasBroadcast \/ result = "success"
    BY <2>1, <1>1, ReqAfterFields
  <2>3. PICK q \in Reqs : /\ ReqOnly(d, f, t, q)
                          /\ q.status = p.status /\ q.wasBroadcast = p.wasBroadcast
                          /\ q.proven <=> p.proven \/ d.req[t].proven
    BY <1>2, <2>1, <2>2, WriteReqFields
  <2>4. q.proven \in BOOLEAN /\ r.proven \in BOOLEAN
    BY <1>1 DEF Reqs
  <2> QED BY <2>2, <2>3, <2>4
<1>4. /\ f \in Stores /\ f.req = [d.req EXCEPT ![t] = q] /\ f.linked = d.linked
      /\ f.tx = d.tx /\ f.spendable = d.spendable /\ f.spentBy = d.spentBy
  BY <1>3 DEF ReqOnly, SameCoins, SameTxs
<1>5. s \in {"unproven", "sending", "failed"} /\ s \in TxStatus
      /\ (s = "failed" <=> result \in {"doubleSpend", "invalidTx"})
  BY DEF TxAfter, TxStatus, Results
<1>6. \A x \in {"unproven", "sending", "failed"} : MayUpdate(f, t, x) <=> MayUpdate(d, t, x)
  BY <1>4 DEF MayUpdate
<1>7. PICK g : g = UpdateTransactionStatus(f, t, s)
  OBVIOUS
<1> DEFINE e == ApplyResult(d, t, result, answered)
<1>8. e = IF s = "failed" /\ MayUpdate(f, t, s) /\ answered /\ NotUtxo(input[t])
          THEN [g EXCEPT !.spendable[input[t]] = FALSE] ELSE g
  BY <1>2, <1>7 DEF ApplyResult
<1>9. \/ ~MayUpdate(f, t, s) /\ g = f
      \/ MayUpdate(f, t, s) /\ s # "failed" /\ TxOnly(f, g, t, s)
      \/ s = "failed" /\ Failed(f, g, t) /\ g.req = f.req
  BY <1>4, <1>5, <1>7, UpdateFields
<1> HIDE DEF s, e, r
<1>10. CASE ~MayUpdate(f, t, s) /\ g = f
  <2>1. e = f
    BY <1>8, <1>10
  <2>2. ~MayUpdate(d, t, TxAfter(result))
    BY <1>5, <1>6, <1>10 DEF s
  <2>3. Posted(d, f, t, q, result)
    BY <1>4, <2>2 DEF Posted, SameTxs, SameCoins
  <2> QED BY <2>1, <2>3, <1>3 DEF e, r
<1>11. CASE MayUpdate(f, t, s) /\ s # "failed" /\ TxOnly(f, g, t, s)
  <2>1. e = g
    BY <1>8, <1>11
  <2>2. Posted(d, g, t, q, result)
    BY <1>4, <1>5, <1>6, <1>11 DEF Posted, SameCoins, TxOnly, Results
  <2> QED BY <2>1, <2>2, <1>3 DEF e, r
<1>12. CASE s = "failed" /\ Failed(f, g, t) /\ g.req = f.req
  <2>1. MayUpdate(d, t, "failed")
    BY <1>12, <1>6 DEF Failed
  <2>2. g \in Stores /\ g.linked = d.linked /\ g.tx = [d.tx EXCEPT ![t] = "failed"]
        /\ g.req = [d.req EXCEPT ![t] = q]
    BY <1>12, <1>4 DEF Failed
  <2>3. \A c \in Coins :
         /\ g.spentBy[c] = IF c = t \/ d.spentBy[c] = t THEN None ELSE d.spentBy[c]
         /\ g.spendable[c] => c # t /\ (d.spendable[c] \/ d.spentBy[c] = t)
         /\ c # t /\ (d.spendable[c] \/ d.spentBy[c] = t) =>
               g.spendable[c] \/ (c = input[t] /\ NotUtxo(c))
    BY <1>12, <1>4 DEF Failed
  <2>4. CASE e = g
    <3>1. Failed(d, e, t)
      BY <2>1, <2>2, <2>3, <2>4 DEF Failed
    <3> QED BY <3>1, <2>2, <2>4, <1>3, <1>5, <1>12 DEF Posted, e, r
  <2>5. CASE e = [g EXCEPT !.spendable[input[t]] = FALSE] /\ NotUtxo(input[t])
    <3>1. /\ e \in Stores /\ e.linked = g.linked /\ e.tx = g.tx /\ e.req = g.req
          /\ e.spentBy = g.spentBy
          /\ e.spendable = [g.spendable EXCEPT ![input[t]] = FALSE]
      BY <2>2, <2>5 DEF Stores
    <3>2. ASSUME NEW c \in Coins
          PROVE  e.spendable[c] <=> g.spendable[c] /\ c # input[t]
      BY <3>1, <2>2 DEF Stores
    <3>3. Failed(d, e, t)
      BY <2>1, <2>2, <2>3, <2>5, <3>1, <3>2 DEF Failed
    <3> QED BY <3>1, <3>3, <2>2, <1>3, <1>5, <1>12 DEF Posted, e, r
  <2> QED BY <2>4, <2>5, <1>8
<1> QED BY <1>9, <1>10, <1>11, <1>12

LEMMA AttemptFields ==
  ASSUME NEW d \in Stores, NEW t \in Txs, NEW r \in Reqs, NEW result \in Results, NEW answered,
         AppliesResult(r)
  PROVE  \E q \in Reqs : /\ Posted(d, AttemptToPost(d, t, r, result, answered), t, q, result)
                         /\ Answered(d, t, r, q, result)
<1> DEFINE e == AttemptToPost(d, t, r, result, answered)
<1>1. PICK f : f = WriteReq(d, t, r)
  OBVIOUS
<1>2. PICK p \in Reqs : /\ ReqOnly(d, f, t, p)
                        /\ p.status = r.status /\ p.wasBroadcast = r.wasBroadcast
                        /\ p.proven <=> r.proven \/ d.req[t].proven
  BY <1>1, WriteReqFields
<1>3. /\ f \in Stores /\ f.req = [d.req EXCEPT ![t] = p] /\ f.linked = d.linked
      /\ f.tx = d.tx /\ f.spendable = d.spendable /\ f.spentBy = d.spentBy /\ f.req[t] = p
  BY <1>2, StoreFields DEF ReqOnly, SameCoins, SameTxs
<1>4. e = IF AppliesResult(p) THEN ApplyResult(f, t, result, answered) ELSE f
  BY <1>1, <1>3 DEF AttemptToPost
<1>5. AppliesResult(p) <=> AppliesResult(r)
  BY <1>2 DEF AppliesResult
<1> HIDE DEF e
<1>6. QED
  <2>1. e = ApplyResult(f, t, result, answered)
    BY <1>4, <1>5
  <2>2. PICK q \in Reqs : /\ Posted(f, e, t, q, result)
                          /\ q.proven = f.req[t].proven
                          /\ q.status = StatusAfter(result)
                          /\ q.wasBroadcast <=> f.req[t].wasBroadcast \/ result = "success"
    BY <1>3, <2>1, ApplyFields
  <2>3. Answered(d, t, r, q, result)
    BY <2>2, <1>2, <1>3 DEF Answered
  <2>4. e \in Stores /\ e.req = [d.req EXCEPT ![t] = q] /\ e.linked = d.linked
    BY <2>2, <1>3 DEF Posted
  <2>5. \A s \in TxStatus : MayUpdate(f, t, s) <=> MayUpdate(d, t, s)
    BY <1>3 DEF MayUpdate
  <2>8. TxAfter(result) \in TxStatus
    BY DEF TxAfter, TxStatus, Results
  <2>6. ASSUME Failed(f, e, t) PROVE Failed(d, e, t)
    BY <2>5, <2>6, <1>3 DEF Failed, TxStatus
  <2>7. Posted(d, e, t, q, result)
    BY <2>2, <2>4, <2>5, <2>6, <2>8, <1>3 DEF Posted, SameTxs, SameCoins, TxStatus
  <2> QED BY <2>3, <2>7 DEF e

(***************************************************************************)
(* What the recoveries leave.                                              *)
(***************************************************************************)
Restored(d, e, S, verdict) ==
    /\ e \in Stores /\ e.req = d.req /\ e.linked = d.linked
    /\ \A t \in Txs : e.tx[t] = IF t \in S THEN "unproven" ELSE d.tx[t]
    /\ \A c \in Coins :
         \/ /\ ~e.spendable[c]
            /\ e.spentBy[c] \in S /\ input[e.spentBy[c]] = c
         \/ /\ \A t \in S : input[t] # c
            /\ e.spentBy[c] = d.spentBy[c]
            /\ c \in S /\ verdict[c] # "unknown" => (e.spendable[c] <=> verdict[c] = "unspent")
            /\ ~(c \in S /\ verdict[c] # "unknown") => e.spendable[c] = d.spendable[c]

LEMMA RestoreFields ==
  ASSUME NEW d \in Stores, NEW S \in SUBSET Txs, NEW verdict
  PROVE  Restored(d, RestoreForProof(d, S, verdict), S, verdict)
<1>1. PICK x : x = [t \in Txs |-> IF t \in S THEN "unproven" ELSE d.tx[t]]
  OBVIOUS
<1>2. PICK y : y = [c \in Coins |->
            /\ Spenders(S, c) = {}
            /\ IF c \in S /\ verdict[c] # "unknown" THEN verdict[c] = "unspent"
               ELSE d.spendable[c]]
  OBVIOUS
<1>3. PICK z : z = [c \in Coins |-> IF Spenders(S, c) = {} THEN d.spentBy[c]
                                    ELSE CHOOSE t \in Spenders(S, c) : TRUE]
  OBVIOUS
<1>4. PICK e : e = RestoreForProof(d, S, verdict)
  OBVIOUS
<1>5. e = [d EXCEPT !.tx = x, !.spendable = y, !.spentBy = z]
  BY <1>1, <1>2, <1>3, <1>4 DEF RestoreForProof
<1>6. x \in [Txs -> TxStatus]
  BY <1>1, StoreFields DEF TxStatus
<1>7. \A c \in Coins : IF Spenders(S, c) = {} THEN z[c] = d.spentBy[c]
                       ELSE z[c] \in Spenders(S, c)
  BY <1>3
<1>8. z \in [Coins -> Txs \cup {None}]
  <2>1. \A c \in Coins : Spenders(S, c) \subseteq Txs
    BY DEF Spenders
  <2>2. \A c \in Coins : z[c] \in Txs \cup {None}
    BY <2>1, <1>7, StoreFields
  <2> QED BY <2>2, <1>3
<1>9. y \in [Coins -> BOOLEAN]
  <2>1. \A c \in Coins : y[c] \in BOOLEAN
    BY <1>2, StoreFields
  <2> QED BY <2>1, <1>2
<1>10. /\ e \in Stores /\ e.req = d.req /\ e.linked = d.linked
       /\ e.tx = x /\ e.spendable = y /\ e.spentBy = z
  BY <1>5, <1>6, <1>8, <1>9 DEF Stores
<1>11. ASSUME NEW c \in Coins
       PROVE  \/ /\ ~e.spendable[c]
                 /\ e.spentBy[c] \in S /\ input[e.spentBy[c]] = c
              \/ /\ \A t \in S : input[t] # c
                 /\ e.spentBy[c] = d.spentBy[c]
                 /\ c \in S /\ verdict[c] # "unknown" => (e.spendable[c] <=> verdict[c] = "unspent")
                 /\ ~(c \in S /\ verdict[c] # "unknown") => e.spendable[c] = d.spendable[c]
  <2>1. CASE Spenders(S, c) = {}
    <3>1. \A t \in S : input[t] # c
      BY <2>1 DEF Spenders
    <3>2. e.spentBy[c] = d.spentBy[c]
      BY <2>1, <1>7, <1>10
    <3>3. y[c] <=> IF c \in S /\ verdict[c] # "unknown" THEN verdict[c] = "unspent"
                   ELSE d.spendable[c]
      BY <2>1, <1>2
    <3>4. y[c] \in BOOLEAN /\ d.spendable[c] \in BOOLEAN
      BY <1>9, StoreFields
    <3> QED BY <3>1, <3>2, <3>3, <3>4, <1>10
  <2>2. CASE Spenders(S, c) # {}
    <3>1. ~e.spendable[c]
      BY <2>2, <1>2, <1>10
    <3>2. e.spentBy[c] \in Spenders(S, c)
      BY <2>2, <1>7, <1>10
    <3> QED BY <3>1, <3>2 DEF Spenders
  <2> QED BY <2>1, <2>2
<1> QED BY <1>1, <1>4, <1>10, <1>11 DEF Restored

\* The proven transactions S are completed, the failed ones of them restored.
Reconciled(d, e, S, verdict) ==
    /\ e \in Stores
    /\ \A t \in Txs :
         /\ e.tx[t] = IF t \in S THEN "completed" ELSE d.tx[t]
         /\ e.linked[t] <=> t \in S \/ d.linked[t]
         /\ \E n \in BOOLEAN : e.req[t] = [d.req[t] EXCEPT !.notified = n]
         /\ t \notin S => e.req[t] = d.req[t]
    /\ \E f : /\ Restored(d, f, {t \in S : d.tx[t] = "failed"}, verdict)
              /\ SameCoins(f, e)

LEMMA ReconcileFields ==
  ASSUME NEW d \in Stores, NEW S \in SUBSET Txs, NEW verdict
  PROVE  Reconciled(d, Reconcile(d, S, verdict), S, verdict)
<1> DEFINE F == {t \in S : d.tx[t] = "failed"}
<1>1. PICK f : f = RestoreForProof(d, F, verdict)
  OBVIOUS
<1>2. Restored(d, f, F, verdict)
  BY <1>1, RestoreFields
<1>3. f \in Stores /\ f.linked = d.linked
      /\ \A t \in Txs : f.tx[t] = IF t \in F THEN "unproven" ELSE d.tx[t]
  BY <1>2 DEF Restored
<1>4. PICK x : x = [t \in Txs |-> IF t \in S THEN "completed" ELSE f.tx[t]]
  OBVIOUS
<1>5. PICK l : l = [t \in Txs |-> t \in S \/ d.linked[t]]
  OBVIOUS
<1>6. PICK q : q = [t \in Txs |-> [d.req[t] EXCEPT !.notified = @ \/ t \in S]]
  OBVIOUS
<1>7. PICK e : e = Reconcile(d, S, verdict)
  OBVIOUS
<1>8. e = [f EXCEPT !.tx = x, !.linked = l, !.req = q]
  BY <1>1, <1>4, <1>5, <1>6, <1>7 DEF Reconcile
<1>9. x \in [Txs -> TxStatus] /\ l \in [Txs -> BOOLEAN]
  BY <1>3, <1>4, <1>5, StoreFields DEF TxStatus
<1>10. \A t \in Txs : \E n \in BOOLEAN : q[t] = [d.req[t] EXCEPT !.notified = n]
  <2> TAKE t \in Txs
  <2>1. d.req[t] \in Reqs
    BY StoreFields
  <2>2. q[t] = [d.req[t] EXCEPT !.notified = (d.req[t].notified \/ t \in S)]
    BY <1>6, <2>1 DEF Reqs
  <2>3. (d.req[t].notified \/ t \in S) \in BOOLEAN
    OBVIOUS
  <2> QED BY <2>2, <2>3
<1>11. \A t \in Txs : q[t] \in Reqs
  <2> TAKE t \in Txs
  <2>1. d.req[t] \in Reqs
    BY StoreFields
  <2>2. PICK n \in BOOLEAN : q[t] = [d.req[t] EXCEPT !.notified = n]
    BY <1>10
  <2> QED BY <2>1, <2>2 DEF Reqs
<1>12. q \in [Txs -> Reqs]
  BY <1>6, <1>11
<1>13. /\ e \in Stores /\ e.tx = x /\ e.linked = l /\ e.req = q
       /\ e.spendable = f.spendable /\ e.spentBy = f.spentBy
  BY <1>3, <1>8, <1>9, <1>12 DEF Stores
<1>14. \A t \in Txs : /\ e.tx[t] = IF t \in S THEN "completed" ELSE d.tx[t]
                      /\ e.linked[t] <=> t \in S \/ d.linked[t]
  <2> TAKE t \in Txs
  <2>1. e.tx[t] = IF t \in S THEN "completed" ELSE d.tx[t]
    BY <1>3, <1>4, <1>13
  <2>2. e.linked[t] <=> t \in S \/ d.linked[t]
    BY <1>5, <1>13
  <2> QED BY <2>1, <2>2
<1>15. SameCoins(f, e)
  BY <1>13 DEF SameCoins
<1>16. \A t \in Txs : t \notin S => q[t] = d.req[t]
  <2> SUFFICES ASSUME NEW t \in Txs, t \notin S PROVE q[t] = d.req[t]
    OBVIOUS
  <2>1. d.req[t] \in Reqs
    BY StoreFields
  <2>2. (d.req[t].notified \/ t \in S) = d.req[t].notified
    BY <2>1 DEF Reqs
  <2>3. q[t] = [d.req[t] EXCEPT !.notified = d.req[t].notified]
    BY <1>6, <2>1, <2>2 DEF Reqs
  <2> QED BY <2>1, <2>3 DEF Reqs
<1> QED BY <1>2, <1>7, <1>10, <1>13, <1>14, <1>15, <1>16 DEF Reconciled

(***************************************************************************)
(* The four updates of reviewStatus.                                       *)
(***************************************************************************)
LEMMA FailInvalidFields ==
  ASSUME NEW d \in Stores
  PROVE  LET e == FailInvalid(d)
         IN /\ e \in Stores /\ e.req = d.req /\ e.linked = d.linked /\ SameCoins(d, e)
            /\ \A t \in Txs : e.tx[t] = IF d.req[t].status = "invalid" THEN "failed" ELSE d.tx[t]
<1>1. PICK x : x = [t \in Txs |-> IF d.req[t].status = "invalid" THEN "failed" ELSE d.tx[t]]
  OBVIOUS
<1>2. x \in [Txs -> TxStatus]
  BY <1>1, StoreFields DEF TxStatus
<1>3. PICK e : e = [d EXCEPT !.tx = x]
  OBVIOUS
<1>4. /\ e \in Stores /\ e.req = d.req /\ e.linked = d.linked /\ SameCoins(d, e) /\ e.tx = x
  BY <1>2, <1>3 DEF Stores, SameCoins
<1>5. FailInvalid(d) = e
  BY <1>1, <1>3 DEF FailInvalid
<1> QED BY <1>1, <1>4, <1>5

\* Coin c is held by a dead transaction, and is not the output of a failed one.
ToFree(d, c) ==
    d.spentBy[c] # None /\ Dead(d, d.spentBy[c]) /\ (c \in Txs => d.tx[c] # "failed")

LEMMA FreeDeadFields ==
  ASSUME NEW d \in Stores
  PROVE  LET e == FreeDeadInputs(d)
         IN /\ e \in Stores /\ e.tx = d.tx /\ e.req = d.req /\ e.linked = d.linked
            /\ \A c \in Coins :
                 /\ ToFree(d, c) => e.spendable[c] /\ e.spentBy[c] = None
                 /\ ~ToFree(d, c) => /\ e.spendable[c] <=> d.spendable[c]
                                     /\ e.spentBy[c] = d.spentBy[c]
<1> DEFINE freed == {c \in Coins : ToFree(d, c)}
<1>1. PICK y : y = [c \in Coins |-> d.spendable[c] \/ c \in freed]
  OBVIOUS
<1>2. PICK z : z = [c \in Coins |-> IF c \in freed THEN None ELSE d.spentBy[c]]
  OBVIOUS
<1>3. PICK e : e = [d EXCEPT !.spendable = y, !.spentBy = z]
  OBVIOUS
<1>4. FreeDeadInputs(d) = e
  BY <1>1, <1>2, <1>3 DEF FreeDeadInputs, ToFree
<1>5. y \in [Coins -> BOOLEAN] /\ z \in [Coins -> Txs \cup {None}]
  BY <1>1, <1>2, StoreFields
<1>6. /\ e \in Stores /\ e.tx = d.tx /\ e.req = d.req /\ e.linked = d.linked
      /\ e.spendable = y /\ e.spentBy = z
  BY <1>3, <1>5 DEF Stores
<1>7. ASSUME NEW c \in Coins
      PROVE  /\ ToFree(d, c) => e.spendable[c] /\ e.spentBy[c] = None
             /\ ~ToFree(d, c) => /\ e.spendable[c] <=> d.spendable[c]
                                 /\ e.spentBy[c] = d.spentBy[c]
  BY <1>1, <1>2, <1>6
<1> QED BY <1>4, <1>6, <1>7

LEMMA KillDeadFields ==
  ASSUME NEW d \in Stores
  PROVE  LET e == KillDeadOutputs(d)
         IN /\ e \in Stores /\ e.tx = d.tx /\ e.req = d.req /\ e.linked = d.linked
            /\ \A c \in Coins :
                 /\ c \in Txs /\ Dead(d, c) => ~e.spendable[c] /\ e.spentBy[c] = None
                 /\ ~(c \in Txs /\ Dead(d, c)) => /\ e.spendable[c] <=> d.spendable[c]
                                                  /\ e.spentBy[c] = d.spentBy[c]
<1> DEFINE dead == {t \in Txs : Dead(d, t)}
<1>1. PICK y : y = [c \in Coins |-> d.spendable[c] /\ c \notin dead]
  OBVIOUS
<1>2. PICK z : z = [c \in Coins |-> IF c \in dead THEN None ELSE d.spentBy[c]]
  OBVIOUS
<1>3. PICK e : e = [d EXCEPT !.spendable = y, !.spentBy = z]
  OBVIOUS
<1>4. KillDeadOutputs(d) = e
  BY <1>1, <1>2, <1>3 DEF KillDeadOutputs
<1>5. y \in [Coins -> BOOLEAN] /\ z \in [Coins -> Txs \cup {None}]
  BY <1>1, <1>2, StoreFields
<1>6. /\ e \in Stores /\ e.tx = d.tx /\ e.req = d.req /\ e.linked = d.linked
      /\ e.spendable = y /\ e.spentBy = z
  BY <1>3, <1>5 DEF Stores
<1>7. ASSUME NEW c \in Coins
      PROVE  /\ c \in Txs /\ Dead(d, c) => ~e.spendable[c] /\ e.spentBy[c] = None
             /\ ~(c \in Txs /\ Dead(d, c)) => /\ e.spendable[c] <=> d.spendable[c]
                                              /\ e.spentBy[c] = d.spentBy[c]
  BY <1>1, <1>2, <1>6
<1> QED BY <1>4, <1>6, <1>7

LEMMA CompleteFields ==
  ASSUME NEW d \in Stores
  PROVE  LET e == CompleteProven(d)
         IN /\ e \in Stores /\ e.req = d.req /\ SameCoins(d, e)
            /\ \A t \in Txs :
                 /\ e.tx[t] = IF d.req[t].proven /\ ~d.linked[t] THEN "completed" ELSE d.tx[t]
                 /\ e.linked[t] <=> d.linked[t] \/ d.req[t].proven
<1> DEFINE found == {t \in Txs : d.req[t].proven /\ ~d.linked[t]}
<1>1. PICK x : x = [t \in Txs |-> IF t \in found THEN "completed" ELSE d.tx[t]]
  OBVIOUS
<1>2. PICK l : l = [t \in Txs |-> d.linked[t] \/ t \in found]
  OBVIOUS
<1>3. PICK e : e = [d EXCEPT !.tx = x, !.linked = l]
  OBVIOUS
<1>4. CompleteProven(d) = e
  BY <1>1, <1>2, <1>3 DEF CompleteProven
<1>5. x \in [Txs -> TxStatus] /\ l \in [Txs -> BOOLEAN]
  BY <1>1, <1>2, StoreFields DEF TxStatus
<1>6. /\ e \in Stores /\ e.req = d.req /\ SameCoins(d, e) /\ e.tx = x /\ e.linked = l
  BY <1>3, <1>5 DEF Stores, SameCoins
<1>7. ASSUME NEW t \in Txs
      PROVE  /\ e.tx[t] = IF d.req[t].proven /\ ~d.linked[t] THEN "completed" ELSE d.tx[t]
             /\ e.linked[t] <=> d.linked[t] \/ d.req[t].proven
  <2>1. e.tx[t] = IF d.req[t].proven /\ ~d.linked[t] THEN "completed" ELSE d.tx[t]
    BY <1>1, <1>6
  <2>2. e.linked[t] <=> d.linked[t] \/ d.req[t].proven
    BY <1>2, <1>6
  <2> QED BY <2>1, <2>2
<1> QED BY <1>4, <1>6, <1>7

\* Transaction t is failed, or its request says that it is; and no request can
\* bring it back.
Fell(d, t) == d.req[t].status = "invalid" \/ d.tx[t] = "failed"
Buried(d, t) == Fell(d, t) /\ d.req[t].status \in {None, "invalid", "doubleSpend"}

Reviewed(d, e) ==
    /\ e \in Stores /\ e.req = d.req
    /\ \A t \in Txs :
         /\ e.tx[t] = IF d.req[t].proven /\ ~d.linked[t] THEN "completed"
                      ELSE IF d.req[t].status = "invalid" THEN "failed" ELSE d.tx[t]
         /\ e.linked[t] <=> d.linked[t] \/ d.req[t].proven
    /\ \A c \in Coins :
         \/ c \in Txs /\ Buried(d, c) /\ ~e.spendable[c] /\ e.spentBy[c] = None
         \/ /\ ~(c \in Txs /\ Fell(d, c)) /\ d.spentBy[c] \in Txs /\ Buried(d, d.spentBy[c])
            /\ e.spendable[c] /\ e.spentBy[c] = None
         \/ /\ ~(c \in Txs /\ Buried(d, c))
            /\ d.spentBy[c] \in Txs /\ Buried(d, d.spentBy[c]) => c \in Txs /\ Fell(d, c)
            /\ e.spendable[c] <=> d.spendable[c]
            /\ e.spentBy[c] = d.spentBy[c]

LEMMA ReviewFields ==
  ASSUME NEW d \in Stores
  PROVE  Reviewed(d, CompleteProven(KillDeadOutputs(FreeDeadInputs(FailInvalid(d)))))
<1>1. PICK f : f = FailInvalid(d)
  OBVIOUS
<1>2. /\ f \in Stores /\ f.req = d.req /\ f.linked = d.linked /\ SameCoins(d, f)
      /\ \A t \in Txs : f.tx[t] = IF d.req[t].status = "invalid" THEN "failed" ELSE d.tx[t]
  BY <1>1, FailInvalidFields
<1>3. PICK g : g = FreeDeadInputs(f)
  OBVIOUS
<1>4. /\ g \in Stores /\ g.tx = f.tx /\ g.req = f.req /\ g.linked = f.linked
      /\ \A c \in Coins :
           /\ ToFree(f, c) => g.spendable[c] /\ g.spentBy[c] = None
           /\ ~ToFree(f, c) => /\ g.spendable[c] <=> f.spendable[c]
                               /\ g.spentBy[c] = f.spentBy[c]
  BY <1>2, <1>3, FreeDeadFields
<1>5. PICK h : h = KillDeadOutputs(g)
  OBVIOUS
<1>6. /\ h \in Stores /\ h.tx = g.tx /\ h.req = g.req /\ h.linked = g.linked
      /\ \A c \in Coins :
           /\ c \in Txs /\ Dead(g, c) => ~h.spendable[c] /\ h.spentBy[c] = None
           /\ ~(c \in Txs /\ Dead(g, c)) => /\ h.spendable[c] <=> g.spendable[c]
                                            /\ h.spentBy[c] = g.spentBy[c]
  BY <1>4, <1>5, KillDeadFields
<1>7. PICK e : e = CompleteProven(h)
  OBVIOUS
<1>8. /\ e \in Stores /\ e.req = h.req /\ SameCoins(h, e)
      /\ \A t \in Txs :
           /\ e.tx[t] = IF h.req[t].proven /\ ~h.linked[t] THEN "completed" ELSE h.tx[t]
           /\ e.linked[t] <=> h.linked[t] \/ h.req[t].proven
  BY <1>6, <1>7, CompleteFields
<1>9. \A t \in Txs : /\ f.tx[t] = "failed" <=> Fell(d, t)
                     /\ Dead(f, t) <=> Buried(d, t)
                     /\ Dead(g, t) <=> Buried(d, t)
  BY <1>2, <1>4 DEF Fell, Buried, Dead
<1>10. \A c \in Coins : d.spentBy[c] \in Txs \cup {None}
  BY StoreFields
<1>11. \A c \in Coins : ToFree(f, c) <=> /\ d.spentBy[c] \in Txs /\ Buried(d, d.spentBy[c])
                                         /\ ~(c \in Txs /\ Fell(d, c))
  BY <1>2, <1>9, <1>10, NoneApart DEF ToFree, SameCoins
<1>12. ASSUME NEW c \in Coins
       PROVE  \/ c \in Txs /\ Buried(d, c) /\ ~e.spendable[c] /\ e.spentBy[c] = None
              \/ /\ ~(c \in Txs /\ Fell(d, c)) /\ d.spentBy[c] \in Txs /\ Buried(d, d.spentBy[c])
                 /\ e.spendable[c] /\ e.spentBy[c] = None
              \/ /\ ~(c \in Txs /\ Buried(d, c))
                 /\ d.spentBy[c] \in Txs /\ Buried(d, d.spentBy[c]) => c \in Txs /\ Fell(d, c)
                 /\ e.spendable[c] <=> d.spendable[c]
                 /\ e.spentBy[c] = d.spentBy[c]
  <2>1. e.spendable = h.spendable /\ e.spentBy = h.spentBy
        /\ f.spendable = d.spendable /\ f.spentBy = d.spentBy
    BY <1>2, <1>8 DEF SameCoins
  <2>2. CASE c \in Txs /\ Buried(d, c)
    BY <2>1, <2>2, <1>6, <1>9
  <2>3. CASE ~(c \in Txs /\ Buried(d, c)) /\ ToFree(f, c)
    BY <2>1, <2>3, <1>4, <1>6, <1>9, <1>11
  <2>4. CASE ~(c \in Txs /\ Buried(d, c)) /\ ~ToFree(f, c)
    BY <2>1, <2>4, <1>4, <1>6, <1>9, <1>11
  <2> QED BY <2>2, <2>3, <2>4
<1>13. \A t \in Txs :
         /\ e.tx[t] = IF d.req[t].proven /\ ~d.linked[t] THEN "completed"
                      ELSE IF d.req[t].status = "invalid" THEN "failed" ELSE d.tx[t]
         /\ e.linked[t] <=> d.linked[t] \/ d.req[t].proven
  BY <1>2, <1>4, <1>6, <1>8
<1> QED BY <1>1, <1>3, <1>5, <1>7, <1>8, <1>12, <1>13, <1>2, <1>4, <1>6 DEF Reviewed

-----------------------------------------------------------------------------
(***************************************************************************)
(* The inductive invariant.  It is said of a store d, so that it can be    *)
(* followed through the writes that make up one step.                      *)
(***************************************************************************)
Early == {None, "unsigned", "unprocessed"}
Gone == {"failed", "unfail"}

\* A coin that nobody holds and nobody has spent is offered; one that is held
\* is not, and its holder consumes it; the output of an action that has failed
\* is held only by an action that is mined, which took it when it was restored.
CoinOK(d, c) ==
    /\ c \in Funds /\ d.spentBy[c] = None /\ ~SpentOnNet(c) => d.spendable[c]
    /\ d.spentBy[c] \in Txs => ~d.spendable[c] /\ input[d.spentBy[c]] = c
    /\ c \in Txs /\ d.tx[c] \in Gone /\ d.spentBy[c] \in Txs => net[d.spentBy[c]] = "mined"

\* Transaction t has status x, request q, and is linked to its proof or not.
\* When no task is interrupted a proof is stored in both rows at once.
RowOK(t, x, q, linked) ==
    /\ x = None => input[t] = None /\ q.status = None
    /\ x # None => input[t] \in Coins
    /\ x \in Early => /\ \A u \in Txs : input[u] # t
                      /\ q.status \in {None, "unsent", "unprocessed", "invalid"} /\ ~q.proven
                      /\ q.status = "invalid" => Merges
    /\ q.status \in {"doubleSpend", "unfail"} => x \in Gone
    /\ linked => q.proven
    /\ x = "completed" => linked
    /\ q.proven => q.status \in {"completed", "invalid"} /\ net[t] = "mined"
    /\ q.proven /\ "task" \notin Crashes => linked /\ x = "completed" /\ q.status = "completed"
    /\ q.status = "completed" => q.proven

CoinInv(d) == \A c \in Coins : CoinOK(d, c)
RowInv(d) == \A t \in Txs : RowOK(t, d.tx[t], d.req[t], d.linked[t])

\* An action on the Monitor's page is begun and has no proof, and one on the
\* page of TaskUnFail is not taken up by anybody else.
OnPage(d, m, t) ==
    /\ d.tx[t] # None /\ ~d.req[t].proven
    /\ ~m.page[t].proven /\ m.page[t].status \in Wanted(m.task)
    /\ m.task \in {"CheckForProofs", "CheckNoSends"} => d.tx[t] \notin Early
    /\ d.tx[t] \in Early => m.page[t].status = "unsent"
    /\ m.task = "UnFail" => d.tx[t] \in Gone /\ d.req[t].status \in {"unfail", "invalid"}

PageInv(d, m) ==
    /\ m.proof # None => /\ m.proof \in DOMAIN m.page /\ net[m.proof] = "mined"
                         /\ m.task \in {"CheckForProofs", "CheckNoSends"}
    /\ \A t \in DOMAIN m.page : OnPage(d, m, t)

ActionInv == TypeOK /\ CoinInv(db) /\ RowInv(db) /\ PageInv(db, monitor)

-----------------------------------------------------------------------------
(***************************************************************************)
(* The coins, through each kind of write.                                  *)
(***************************************************************************)
LEMMA CoinsSame ==
  ASSUME NEW d \in Stores, NEW e \in Stores, CoinInv(d), SameCoins(d, e),
         \A t \in Txs : e.tx[t] \in Gone => d.tx[t] \in Gone
  PROVE  CoinInv(e)
BY DEF CoinInv, CoinOK, SameCoins

LEMMA CoinsFailed ==
  ASSUME NEW d \in Stores, NEW e \in Stores, NEW t \in Txs, CoinInv(d), Failed(d, e, t)
  PROVE  CoinInv(e)
<1> SUFFICES ASSUME NEW c \in Coins PROVE CoinOK(e, c)
  BY DEF CoinInv
<1>1. CoinOK(d, c)
  BY DEF CoinInv
<1>2. /\ e.spentBy[c] = IF c = t \/ d.spentBy[c] = t THEN None ELSE d.spentBy[c]
      /\ e.spendable[c] => c # t /\ (d.spendable[c] \/ d.spentBy[c] = t)
      /\ c # t /\ (d.spendable[c] \/ d.spentBy[c] = t) =>
            e.spendable[c] \/ (c = input[t] /\ NotUtxo(c))
  BY DEF Failed
<1>3. d.spentBy[c] \in Txs \cup {None}
  BY StoreFields
<1>4. ASSUME c \in Funds, e.spentBy[c] = None, ~SpentOnNet(c) PROVE e.spendable[c]
  <2>1. c # t /\ ~NotUtxo(c)
    BY <1>4, CoinKinds DEF NotUtxo
  <2>2. d.spentBy[c] = None \/ d.spentBy[c] = t
    BY <1>2, <1>4, <2>1
  <2>3. d.spendable[c] \/ d.spentBy[c] = t
    BY <1>1, <1>4, <2>2 DEF CoinOK
  <2> QED BY <1>2, <2>1, <2>3
<1>5. ASSUME e.spentBy[c] \in Txs PROVE ~e.spendable[c] /\ input[e.spentBy[c]] = c
  <2>1. c # t /\ d.spentBy[c] # t /\ e.spentBy[c] = d.spentBy[c]
    BY <1>2, <1>5, NoneApart
  <2>2. ~d.spendable[c] /\ input[d.spentBy[c]] = c
    BY <1>1, <1>5, <2>1 DEF CoinOK
  <2> QED BY <1>2, <2>1, <2>2
<1>6. ASSUME c \in Txs, e.tx[c] \in Gone, e.spentBy[c] \in Txs PROVE net[e.spentBy[c]] = "mined"
  <2>1. c # t /\ e.spentBy[c] = d.spentBy[c]
    BY <1>2, <1>6, NoneApart
  <2>2. e.tx = [d.tx EXCEPT ![t] = "failed"]
    BY DEF Failed
  <2>3. e.tx[c] = d.tx[c]
    BY <1>6, <2>1, <2>2, StoreFields
  <2> QED BY <1>1, <1>6, <2>1, <2>3 DEF CoinOK
<1> QED BY <1>4, <1>5, <1>6 DEF CoinOK

LEMMA CoinsRestored ==
  ASSUME NEW d \in Stores, NEW e \in Stores, NEW S \in SUBSET Txs, NEW verdict,
         CoinInv(d), Restored(d, e, S, verdict),
         \A t \in S : d.tx[t] \in Gone /\ net[t] = "mined" /\ verdict[t] \in Verdicts(t)
  PROVE  CoinInv(e)
<1> SUFFICES ASSUME NEW c \in Coins PROVE CoinOK(e, c)
  BY DEF CoinInv
<1>1. CoinOK(d, c)
  BY DEF CoinInv
<1>2. c \in Txs /\ e.tx[c] \in Gone => d.tx[c] \in Gone
  BY DEF Restored, Gone
<1>3. CASE ~e.spendable[c] /\ e.spentBy[c] \in S /\ input[e.spentBy[c]] = c
  BY <1>3, NoneApart DEF CoinOK
<1>4. CASE /\ e.spentBy[c] = d.spentBy[c]
           /\ c \in S /\ verdict[c] # "unknown" => (e.spendable[c] <=> verdict[c] = "unspent")
           /\ ~(c \in S /\ verdict[c] # "unknown") => e.spendable[c] = d.spendable[c]
  <2>1. CASE ~(c \in S /\ verdict[c] # "unknown")
    BY <2>1, <1>1, <1>2, <1>4 DEF CoinOK
  <2>2. CASE c \in S /\ verdict[c] # "unknown"
    <3>1. c \notin Funds
      BY <2>2, DistinctNames
    <3>2. ASSUME d.spentBy[c] \in Txs PROVE ~e.spendable[c]
      <4>1. net[d.spentBy[c]] = "mined" /\ input[d.spentBy[c]] = c
        BY <2>2, <3>2, <1>1 DEF CoinOK
      <4>2. NotUtxo(c)
        BY <3>2, <4>1 DEF NotUtxo, SpentOnNet, Known
      <4>3. verdict[c] # "unspent"
        BY <2>2, <4>2 DEF Verdicts
      <4> QED BY <2>2, <1>4, <4>3
    <3> QED BY <3>1, <3>2, <1>1, <1>2, <1>4 DEF CoinOK
  <2> QED BY <2>1, <2>2
<1> QED BY <1>3, <1>4 DEF Restored

LEMMA CoinsReconciled ==
  ASSUME NEW d \in Stores, NEW e \in Stores, NEW S \in SUBSET Txs, NEW verdict,
         CoinInv(d), Reconciled(d, e, S, verdict),
         \A t \in S : net[t] = "mined" /\ verdict[t] \in Verdicts(t)
  PROVE  CoinInv(e)
<1> DEFINE F == {t \in S : d.tx[t] = "failed"}
<1>1. PICK f : Restored(d, f, F, verdict) /\ SameCoins(f, e)
  BY DEF Reconciled
<1>2. f \in Stores
  BY <1>1 DEF Restored
<1>3. CoinInv(f)
  BY <1>1, <1>2, CoinsRestored DEF Gone
<1>4. \A t \in Txs : e.tx[t] \in Gone => f.tx[t] \in Gone
  BY <1>1 DEF Reconciled, Restored, Gone
<1> QED BY <1>1, <1>2, <1>3, <1>4, CoinsSame

LEMMA CoinsReviewed ==
  ASSUME NEW d \in Stores, NEW e \in Stores, CoinInv(d), Reviewed(d, e)
  PROVE  CoinInv(e)
<1> SUFFICES ASSUME NEW c \in Coins PROVE CoinOK(e, c)
  BY DEF CoinInv
<1>1. CoinOK(d, c)
  BY DEF CoinInv
<1>2. CASE c \in Txs /\ ~e.spendable[c] /\ e.spentBy[c] = None
  BY <1>2, NoneApart, CoinKinds DEF CoinOK
<1>3. CASE e.spendable[c] /\ e.spentBy[c] = None
  BY <1>3, NoneApart DEF CoinOK
<1>4. CASE /\ ~(c \in Txs /\ Buried(d, c))
           /\ e.spendable[c] <=> d.spendable[c]
           /\ e.spentBy[c] = d.spentBy[c]
  <2>1. c \in Txs /\ e.tx[c] \in Gone => d.tx[c] \in Gone
    BY <1>4 DEF Reviewed, Buried, Fell, Gone
  <2> QED BY <2>1, <1>1, <1>4 DEF CoinOK
<1> QED BY <1>2, <1>3, <1>4 DEF Reviewed

-----------------------------------------------------------------------------
(***************************************************************************)
(* Steps that leave the inputs alone; the network forgets nothing.         *)
(***************************************************************************)
NetTypes == {"absent", "mempool", "mined"}

World ==
    /\ input' = input /\ env' = env
    /\ shared' \subseteq Txs
    /\ rivals \subseteq rivals' /\ rivals' \subseteq Funds
    /\ net' \in [Txs -> NetTypes]
    /\ \A t \in Txs : /\ net[t] # "absent" => net'[t] # "absent"
                      /\ net[t] = "mined" => net'[t] = "mined"

LEMMA SameWorld ==
  ASSUME TypeOK, UNCHANGED <<input, network>>, shared' \subseteq Txs
  PROVE  World
BY DEF World, TypeOK, network, NetTypes

LEMMA AcceptedWorld ==
  ASSUME TypeOK, NEW t \in Txs, net' = net \/ net' = Accepted(t),
         UNCHANGED <<input, rivals, env>>, shared' \subseteq Txs
  PROVE  World
<1>1. net \in [Txs -> NetTypes]
  BY DEF TypeOK, NetTypes
<1>2. CASE net' = net
  BY <1>1, <1>2 DEF World, TypeOK
<1>3. CASE net' = Accepted(t)
  <2>1. \A u \in Txs : net'[u] = IF u \in Lineage(t) /\ net[u] = "absent" THEN "mempool" ELSE net[u]
    BY <1>3 DEF Accepted, Known
  <2>2. net' \in [Txs -> NetTypes]
    BY <1>1, <1>3 DEF Accepted, NetTypes
  <2> QED BY <2>1, <2>2 DEF World, TypeOK
<1> QED BY <1>2, <1>3

LEMMA PostingNet ==
  ASSUME NEW t \in Txs, NEW result, Posting(t, result)
  PROVE  net' = net \/ net' = Accepted(t)
BY DEF Posting

LEMMA CoinsNext ==
  ASSUME NEW d, CoinInv(d), World
  PROVE  CoinInv(d)'
<1> SUFFICES ASSUME NEW c \in Coins PROVE CoinOK(d, c)'
  BY DEF CoinInv
<1>1. CoinOK(d, c)
  BY DEF CoinInv
<1>2. SpentOnNet(c) => SpentOnNet(c)'
  BY DEF World, SpentOnNet, Known
<1>3. input' = input
  BY DEF World
<1>4. \A t \in Txs : net[t] = "mined" => net'[t] = "mined"
  BY DEF World
<1> QED BY <1>1, <1>2, <1>3, <1>4 DEF CoinOK

LEMMA RowNext ==
  ASSUME NEW t \in Txs, NEW x, NEW q, NEW linked, RowOK(t, x, q, linked), World
  PROVE  RowOK(t, x, q, linked)'
<1>1. input' = input /\ env' = env
  BY DEF World
<1>2. net[t] = "mined" => net'[t] = "mined"
  BY DEF World
<1> QED BY <1>1, <1>2 DEF RowOK, Crashes, Merges

LEMMA RowsNext ==
  ASSUME NEW d, RowInv(d), World
  PROVE  RowInv(d)'
BY RowNext DEF RowInv

LEMMA PageNext ==
  ASSUME NEW d, NEW m, PageInv(d, m), World, m.proof \in Txs \cup {None}
  PROVE  PageInv(d, m)'
BY DEF PageInv, World

\* Only the rows of t are written.
RowsBut(d, e, t) ==
    \A u \in Txs : u # t => e.tx[u] = d.tx[u] /\ e.req[u] = d.req[u] /\ e.linked[u] = d.linked[u]

LEMMA RowsStep ==
  ASSUME NEW d, NEW e, NEW t \in Txs, RowInv(d), RowsBut(d, e, t),
         RowOK(t, e.tx[t], e.req[t], e.linked[t])
  PROVE  RowInv(e)
BY DEF RowInv, RowsBut

LEMMA MonitorFields ==
  ASSUME TypeOK
  PROVE  /\ monitor.task \in Tasks \cup {None} /\ monitor.proof \in Txs \cup {None}
         /\ DOMAIN monitor.page \subseteq Txs
         /\ monitor.page \in [DOMAIN monitor.page -> Reqs]
         /\ \A t \in DOMAIN monitor.page : monitor.page[t] \in Reqs
<1>1. monitor \in [task : Tasks \cup {None}, page : Pages, proof : Txs \cup {None}]
  BY DEF TypeOK
<1>2. monitor.page \in Pages
  BY <1>1
<1>3. PICK S \in SUBSET Txs : monitor.page \in [S -> Reqs]
  BY <1>2 DEF Pages
<1>4. DOMAIN monitor.page = S
  BY <1>3
<1> QED BY <1>1, <1>3, <1>4

LEMMA WaitingInv ==
  ASSUME NEW d
  PROVE  /\ PageInv(d, Waiting)
         /\ Waiting \in [task : Tasks \cup {None}, page : Pages, proof : Txs \cup {None}]
<1>1. Waiting.proof = None /\ Waiting.task = None /\ Waiting.page = [t \in {} |-> NoReq]
  BY DEF Waiting
<1>2. DOMAIN Waiting.page = {}
  BY <1>1
<1>3. [t \in {} |-> NoReq] \in [{} -> Reqs]
  OBVIOUS
<1>4. Waiting.page \in Pages
  BY <1>1, <1>3 DEF Pages
<1>5. PageInv(d, Waiting)
  BY <1>1, <1>2 DEF PageInv
<1> QED BY <1>4, <1>5 DEF Waiting

\* Page m is what is left of the page in hand when t is done.
Done(m, t) ==
    \/ m = Waiting
    \/ /\ m \in [task : Tasks \cup {None}, page : Pages, proof : Txs \cup {None}]
       /\ m.task = monitor.task /\ m.proof = None
       /\ DOMAIN m.page = DOMAIN monitor.page \ {t}
       /\ \A u \in DOMAIN m.page : m.page[u] = monitor.page[u]

LEMMA NextOfPageDone ==
  ASSUME TypeOK, NEW t \in Txs
  PROVE  Done(NextOfPage(t), t)
<1> DEFINE R == DOMAIN monitor.page \ {t}
<1>1. PICK rest : rest = Restrict(monitor.page, R)
  OBVIOUS
<1>2. rest = [u \in R |-> monitor.page[u]]
  BY <1>1 DEF Restrict
<1>3. R \in SUBSET Txs /\ \A u \in R : monitor.page[u] \in Reqs
  BY MonitorFields
<1>4. rest \in [R -> Reqs]
  BY <1>2, <1>3
<1>5. rest \in Pages
  BY <1>3, <1>4 DEF Pages
<1>6. NextOfPage(t) = IF DOMAIN rest = {} THEN Waiting
                      ELSE [monitor EXCEPT !.page = rest, !.proof = None]
  BY <1>1 DEF NextOfPage
<1>7. CASE DOMAIN rest = {}
  BY <1>6, <1>7 DEF Done
<1>8. CASE DOMAIN rest # {}
  <2>1. monitor \in [task : Tasks \cup {None}, page : Pages, proof : Txs \cup {None}]
    BY DEF TypeOK
  <2>2. PICK m : m = [monitor EXCEPT !.page = rest, !.proof = None]
    OBVIOUS
  <2>3. /\ m \in [task : Tasks \cup {None}, page : Pages, proof : Txs \cup {None}]
        /\ m.task = monitor.task /\ m.proof = None /\ m.page = rest
    BY <2>1, <2>2, <1>5
  <2>4. DOMAIN m.page = R /\ \A u \in DOMAIN m.page : m.page[u] = monitor.page[u]
    BY <2>3, <1>2
  <2> QED BY <2>2, <2>3, <2>4, <1>6, <1>8 DEF Done
<1> QED BY <1>7, <1>8

LEMMA DoneInv ==
  ASSUME TypeOK, PageInv(db, monitor), NEW e, NEW m, NEW t \in Txs, RowsBut(db, e, t), Done(m, t)
  PROVE  /\ PageInv(e, m)
         /\ m \in [task : Tasks \cup {None}, page : Pages, proof : Txs \cup {None}]
<1>1. CASE m = Waiting
  BY <1>1, WaitingInv
<1>2. CASE m # Waiting
  <2>1. /\ m \in [task : Tasks \cup {None}, page : Pages, proof : Txs \cup {None}]
        /\ m.task = monitor.task /\ m.proof = None
        /\ DOMAIN m.page = DOMAIN monitor.page \ {t}
        /\ \A u \in DOMAIN m.page : m.page[u] = monitor.page[u]
    BY <1>2 DEF Done
  <2>2. ASSUME NEW u \in DOMAIN m.page PROVE OnPage(e, m, u)
    <3>1. u \in Txs /\ u # t /\ u \in DOMAIN monitor.page
      BY <2>1, MonitorFields
    <3>2. OnPage(db, monitor, u)
      BY <3>1 DEF PageInv
    <3>3. e.tx[u] = db.tx[u] /\ e.req[u] = db.req[u] /\ m.page[u] = monitor.page[u]
      BY <3>1, <2>1 DEF RowsBut
    <3> QED BY <3>2, <3>3, <2>1 DEF OnPage
  <2> QED BY <2>1, <2>2 DEF PageInv
<1> QED BY <1>1, <1>2

(***************************************************************************)
(* A call, or a step of a task, that writes the rows of one action.        *)
(***************************************************************************)
LEMMA CallStep ==
  ASSUME ActionInv, World, NEW t \in Txs, NEW e \in Stores, db' = e, monitor' = monitor,
         RowsBut(db, e, t), RowOK(t, e.tx[t], e.req[t], e.linked[t]), CoinInv(e),
         t \in DOMAIN monitor.page => OnPage(e, monitor, t)
  PROVE  ActionInv'
<1>1. CoinInv(e)'
  BY CoinsNext
<1>2. RowInv(e)'
  BY RowsStep, RowsNext DEF ActionInv
<1>3. PageInv(e, monitor)
  <2>1. ASSUME NEW u \in DOMAIN monitor.page PROVE OnPage(e, monitor, u)
    <3>1. CASE u = t
      BY <3>1
    <3>2. CASE u # t
      BY <3>2, MonitorFields DEF ActionInv, PageInv, RowsBut, OnPage
    <3> QED BY <3>1, <3>2
  <2> QED BY <2>1 DEF ActionInv, PageInv
<1>4. PICK m : m = monitor
  OBVIOUS
<1>5. PageInv(e, m) /\ m.proof \in Txs \cup {None}
  BY <1>3, <1>4, MonitorFields DEF ActionInv
<1>6. PageInv(e, m)'
  BY <1>5, PageNext
<1>7. TypeOK'
  BY DEF ActionInv, TypeOK, World, NetTypes, Tasks
<1> QED BY <1>1, <1>2, <1>4, <1>6, <1>7 DEF ActionInv

LEMMA TaskStepInv ==
  ASSUME ActionInv, World, NEW t \in Txs, NEW e \in Stores, db' = e, NEW m, monitor' = m, Done(m, t),
         RowsBut(db, e, t), RowOK(t, e.tx[t], e.req[t], e.linked[t]), CoinInv(e)
  PROVE  ActionInv'
<1>1. CoinInv(e)'
  BY CoinsNext
<1>2. RowInv(e)'
  BY RowsStep, RowsNext DEF ActionInv
<1>3. /\ PageInv(e, m)
      /\ m \in [task : Tasks \cup {None}, page : Pages, proof : Txs \cup {None}]
  BY DoneInv DEF ActionInv
<1>4. PageInv(e, m)'
  BY <1>3, PageNext
<1>5. TypeOK'
  BY <1>3 DEF ActionInv, TypeOK, World, NetTypes, Tasks
<1> QED BY <1>1, <1>2, <1>4, <1>5 DEF ActionInv

-----------------------------------------------------------------------------
(***************************************************************************)
(* Posting and scheduling.                                                 *)
(***************************************************************************)
Sendable == {"unsent", "sending", "nosend", "unprocessed"}

\* Action t may be sent from the store d, as request r says.
Ready(d, t, r) ==
    /\ d \in Stores /\ r \in Reqs
    /\ RowOK(t, d.tx[t], d.req[t], d.linked[t]) /\ CoinInv(d)
    /\ d.tx[t] # None /\ ~d.req[t].proven
    /\ ~r.proven /\ r.status \in Sendable
    /\ d.tx[t] \in Early => r.status \in {"unsent", "unprocessed"}

\* What sending makes of the store.
Sent(d, e, t) ==
    /\ e \in Stores /\ RowsBut(d, e, t) /\ CoinInv(e)
    /\ RowOK(t, e.tx[t], e.req[t], e.linked[t])
    /\ e.tx[t] # None /\ ~e.req[t].proven
    /\ d.tx[t] \notin Early => e.tx[t] \notin Early

LEMMA AttemptSent ==
  ASSUME NEW d, NEW t \in Txs, NEW r, Ready(d, t, r), NEW result \in Results, NEW answered
  PROVE  Sent(d, AttemptToPost(d, t, r, result, answered), t)
<1>1. d \in Stores /\ r \in Reqs /\ AppliesResult(r)
  BY DEF Ready, AppliesResult, Sendable
<1>2. PICK e : e = AttemptToPost(d, t, r, result, answered)
  OBVIOUS
<1>3. PICK q \in Reqs : Posted(d, e, t, q, result) /\ Answered(d, t, r, q, result)
  BY <1>1, <1>2, AttemptFields
<1>4. e \in Stores /\ e.req = [d.req EXCEPT ![t] = q] /\ e.linked = d.linked
  BY <1>3 DEF Posted
<1>5. e.req[t] = q /\ \A u \in Txs : u # t => e.req[u] = d.req[u]
  BY <1>1, <1>4, StoreFields
<1>6. ~q.proven /\ q.status = StatusAfter(result)
  BY <1>3 DEF Answered, Ready
<1>7. /\ q.status \in {"unmined", "doubleSpend", "invalid", "sending"}
      /\ q.status = "doubleSpend" => result = "doubleSpend"
  BY <1>6 DEF StatusAfter, Results
<1>8. RowOK(t, d.tx[t], d.req[t], d.linked[t]) /\ CoinInv(d) /\ d.tx[t] # None /\ ~d.req[t].proven
  BY DEF Ready
<1>9. ~d.linked[t] /\ d.tx[t] # "completed" /\ input[t] \in Coins
  BY <1>8 DEF RowOK
<1>10. CASE ~MayUpdate(d, t, TxAfter(result)) /\ SameTxs(d, e) /\ SameCoins(d, e)
  <2>1. d.tx[t] = "failed"
    BY <1>9, <1>10 DEF MayUpdate
  <2>2. e.tx = d.tx
    BY <1>10 DEF SameTxs
  <2>3. CoinInv(e)
    BY <1>1, <1>4, <1>8, <1>10, <2>2, CoinsSame
  <2>4. RowOK(t, e.tx[t], q, e.linked[t])
    BY <2>1, <2>2, <1>4, <1>6, <1>7, <1>9 DEF RowOK, Early, Gone, None
  <2> QED BY <2>2, <2>3, <2>4, <1>2, <1>4, <1>5, <1>6, <1>8 DEF Sent, RowsBut
<1>11. ASSUME NEW s \in {"unproven", "sending"}, result \in {"success", "serviceError"},
              e.tx = [d.tx EXCEPT ![t] = s], SameCoins(d, e)
       PROVE  Sent(d, e, t)
  <2>1. e.tx[t] = s /\ \A u \in Txs : u # t => e.tx[u] = d.tx[u]
    BY <1>1, <1>11, StoreFields
  <2>2. CoinInv(e)
    BY <1>1, <1>4, <1>8, <1>11, <2>1, CoinsSame DEF Gone
  <2>3. RowOK(t, s, q, e.linked[t])
    BY <1>4, <1>6, <1>7, <1>9, <1>11 DEF RowOK, Early, Gone, None
  <2> QED BY <2>1, <2>2, <2>3, <1>4, <1>5, <1>6 DEF Sent, RowsBut, None, Early
<1>12. CASE Failed(d, e, t)
  <2>1. e.tx = [d.tx EXCEPT ![t] = "failed"]
    BY <1>12 DEF Failed
  <2>2. e.tx[t] = "failed" /\ \A u \in Txs : u # t => e.tx[u] = d.tx[u]
    BY <1>1, <2>1, StoreFields
  <2>3. CoinInv(e)
    BY <1>1, <1>4, <1>8, <1>12, CoinsFailed
  <2>4. RowOK(t, "failed", q, e.linked[t])
    BY <1>4, <1>6, <1>7, <1>9 DEF RowOK, Early, Gone, None
  <2> QED BY <1>2, <2>2, <2>3, <2>4, <1>4, <1>5, <1>6 DEF Sent, RowsBut, None, Early
<1>13. Sent(d, e, t)
  BY <1>3, <1>2, <1>10, <1>11, <1>12 DEF Posted
<1> QED BY <1>2, <1>13

LEMMA MergeFailedSent ==
  ASSUME NEW d, NEW t \in Txs, NEW r, Ready(d, t, r), Merges, NEW p \in MergeFailed(d, t, r)
  PROVE  Sent(d, WriteReq(d, t, p), t) /\ SameCoins(d, WriteReq(d, t, p))
<1>1. /\ d \in Stores /\ r \in Reqs /\ ~r.proven /\ r.status \in Sendable
      /\ d.tx[t] \in Early => r.status \in {"unsent", "unprocessed"}
      /\ RowOK(t, d.tx[t], d.req[t], d.linked[t]) /\ CoinInv(d)
      /\ d.tx[t] # None /\ ~d.req[t].proven
  BY DEF Ready
<1>2. p \in Reqs /\ p.status \in {r.status, "invalid"} /\ ~p.proven
  BY <1>1, MergeFailedFields
<1>3. PICK e : e = WriteReq(d, t, p)
  OBVIOUS
<1>4. PICK q \in Reqs : ReqOnly(d, e, t, q) /\ q.status = p.status /\ ~q.proven
  BY <1>1, <1>2, <1>3, WriteReqFields
<1>5. /\ e \in Stores /\ e.tx = d.tx /\ e.linked = d.linked /\ SameCoins(d, e)
      /\ e.req = [d.req EXCEPT ![t] = q]
  BY <1>4 DEF ReqOnly, SameTxs
<1>6. e.req[t] = q /\ \A u \in Txs : u # t => e.req[u] = d.req[u]
  BY <1>1, <1>5, StoreFields
<1>7. CoinInv(e)
  BY <1>1, <1>5, CoinsSame
<1>8. RowOK(t, d.tx[t], q, d.linked[t])
  BY <1>1, <1>2, <1>4 DEF RowOK, Sendable, Gone, None
<1> QED BY <1>1, <1>3, <1>4, <1>5, <1>6, <1>7, <1>8 DEF Sent, RowsBut

LEMMA ScheduledSent ==
  ASSUME NEW d, NEW t \in Txs, Ready(d, t, d.req[t])
  PROVE  Sent(d, Scheduled(d, t), t)
<1>1. d \in Stores /\ d.req[t] \in Reqs
  BY DEF Ready
<1>2. PICK q : q = [d.req[t] EXCEPT !.status = "unsent"]
  OBVIOUS
<1>3. q \in Reqs /\ q.status = "unsent" /\ q.proven = d.req[t].proven
  BY <1>1, <1>2 DEF Reqs, ReqStatus
<1>4. PICK e : e = [d EXCEPT !.req[t] = q, !.tx[t] = "sending"]
  OBVIOUS
<1>5. /\ e \in Stores /\ e.req = [d.req EXCEPT ![t] = q] /\ e.tx = [d.tx EXCEPT ![t] = "sending"]
      /\ e.linked = d.linked /\ SameCoins(d, e)
  BY <1>1, <1>3, <1>4 DEF Stores, SameCoins, TxStatus
<1>6. Scheduled(d, t) = e
  BY <1>1, <1>2, <1>4 DEF Scheduled, Stores
<1>7. /\ e.req[t] = q /\ e.tx[t] = "sending"
      /\ \A u \in Txs : u # t => e.req[u] = d.req[u] /\ e.tx[u] = d.tx[u]
  BY <1>1, <1>5, StoreFields
<1>8. RowOK(t, d.tx[t], d.req[t], d.linked[t]) /\ CoinInv(d) /\ d.tx[t] # None /\ ~d.req[t].proven
  BY DEF Ready
<1>9. CoinInv(e)
  BY <1>1, <1>5, <1>7, <1>8, CoinsSame DEF Gone
<1>10. RowOK(t, "sending", q, d.linked[t])
  BY <1>3, <1>8 DEF RowOK, Early, Gone, None
<1> QED BY <1>3, <1>5, <1>6, <1>7, <1>8, <1>9, <1>10 DEF Sent, RowsBut, None, Early

LEMMA ShareSent ==
  ASSUME TypeOK, NEW d, NEW t \in Txs, NEW delayed, Ready(d, t, d.req[t]), Share(d, t, delayed),
         UNCHANGED <<input, rivals, env>>
  PROVE  World /\ Sent(d, db', t)
<1>1. Sent(d, d, t)
  BY DEF Sent, Ready, RowsBut
<1>2. shared' \subseteq Txs
  BY DEF Share, TypeOK
<1>3. net' = net \/ net' = Accepted(t)
  BY PostingNet DEF Share
<1>4. World
  BY <1>2, <1>3, AcceptedWorld
<1>5. Sent(d, db', t)
  BY <1>1, ScheduledSent, AttemptSent, MergeFailedSent DEF Share
<1> QED BY <1>4, <1>5

-----------------------------------------------------------------------------
(***************************************************************************)
(* The calls.                                                              *)
(***************************************************************************)
LEMMA StepContext ==
  ASSUME ActionInv, NEW t \in Txs
  PROVE  /\ TypeOK /\ db \in Stores /\ CoinInv(db)
         /\ RowOK(t, db.tx[t], db.req[t], db.linked[t])
         /\ t \in DOMAIN monitor.page => OnPage(db, monitor, t)
         /\ db.req[t] \in Reqs /\ db.tx[t] \in TxStatus
BY StoreFields DEF ActionInv, TypeOK, RowInv, PageInv

LEMMA CommittedReady ==
  ASSUME ActionInv, NEW t \in Txs, NEW mode \in Modes, db.tx[t] \in {"unsigned", "unprocessed"}
  PROVE  LET d == Committed(t, mode)
         IN /\ Sent(d, d, t) /\ RowsBut(db, d, t)
            /\ ReadyToSend(d, t) => Ready(d, t, d.req[t])
<1> DEFINE x == IF mode = "noSend" THEN "nosend" ELSE "unprocessed"
           s == CASE mode = "noSend" -> "nosend"
                  [] mode = "delayed" -> "unsent"
                  [] mode = "immediate" -> "unprocessed"
<1>1. /\ db \in Stores /\ CoinInv(db) /\ RowOK(t, db.tx[t], db.req[t], db.linked[t])
      /\ db.req[t] \in Reqs
  BY StepContext
<1>2. x \in TxStatus /\ s \in ReqStatus /\ s \in Sendable
      /\ (x \in Early => s \in {"unsent", "unprocessed"}) /\ x \in {"nosend", "unprocessed"}
  BY DEF TxStatus, ReqStatus, Sendable, Modes, Early, None
<1> HIDE DEF x, s
<1>3. PICK q : q = [db.req[t] EXCEPT !.status = IF @ = None THEN s ELSE @]
  OBVIOUS
<1>4. /\ db.req[t].status \in {None, "unsent", "unprocessed", "invalid"} /\ ~db.req[t].proven
      /\ db.req[t].status = "invalid" => Merges
      /\ ~db.linked[t] /\ input[t] \in Coins /\ \A u \in Txs : input[u] # t
  BY <1>1 DEF RowOK, Early, None
<1>5. q \in Reqs /\ q.proven = db.req[t].proven /\ q.status \in Sendable \cup {"invalid"}
      /\ (q.status = "invalid" => Merges)
      /\ (x \in Early => q.status \in {"unsent", "unprocessed", "invalid"})
  BY <1>1, <1>2, <1>3, <1>4 DEF Reqs, Sendable
<1>6. PICK d : d = [db EXCEPT !.tx[t] = x, !.spendable[t] = TRUE, !.req[t] = q]
  OBVIOUS
<1>7. Committed(t, mode) = d
  BY <1>1, <1>3, <1>6 DEF Committed, x, s, Stores
<1>8. t \in Coins
  BY DEF Coins
<1>9. /\ d \in Stores /\ d.tx = [db.tx EXCEPT ![t] = x] /\ d.req = [db.req EXCEPT ![t] = q]
      /\ d.linked = db.linked /\ d.spentBy = db.spentBy
      /\ d.spendable = [db.spendable EXCEPT ![t] = TRUE]
  BY <1>1, <1>2, <1>5, <1>6, <1>8 DEF Stores
<1>10. /\ d.tx[t] = x /\ d.req[t] = q
       /\ \A u \in Txs : u # t => d.tx[u] = db.tx[u] /\ d.req[u] = db.req[u]
       /\ d.spendable[t]
       /\ \A c \in Coins : c # t => d.spendable[c] = db.spendable[c]
  BY <1>1, <1>8, <1>9, StoreFields
<1>11. ASSUME NEW c \in Coins PROVE CoinOK(d, c)
  <2>1. CoinOK(db, c)
    BY <1>1 DEF CoinInv
  <2>2. CASE c = t
    <3>1. db.spentBy[t] \notin Txs
      BY <2>1, <2>2, <1>4 DEF CoinOK
    <3> QED BY <2>2, <3>1, <1>9, <1>10, CoinKinds DEF CoinOK
  <2>3. CASE c # t
    BY <2>1, <2>3, <1>9, <1>10 DEF CoinOK
  <2> QED BY <2>2, <2>3
<1>12. RowOK(t, x, q, d.linked[t])
  BY <1>2, <1>4, <1>5, <1>9 DEF RowOK, None, Sendable
<1>13. Sent(d, d, t)
  BY <1>2, <1>4, <1>5, <1>9, <1>10, <1>11, <1>12 DEF Sent, RowsBut, CoinInv, None
<1>14. ASSUME ReadyToSend(d, t) PROVE Ready(d, t, d.req[t])
  <2>1. q.status \in Sendable /\ q.status # "invalid"
    BY <1>10, <1>14 DEF ReadyToSend, Sendable
  <2> QED BY <2>1, <1>5, <1>10, <1>13 DEF Ready, Sent
<1> QED BY <1>7, <1>9, <1>10, <1>13, <1>14 DEF RowsBut

LEMMA ProcessActionInv ==
  ASSUME ActionInv, NEW t \in Txs, NEW mode \in Modes, ProcessAction(t, mode)
  PROVE  ActionInv'
<1>1. db.tx[t] \in {"unsigned", "unprocessed"}
  BY DEF ProcessAction
<1>2. PICK d : d = Committed(t, mode)
  OBVIOUS
<1>3. Sent(d, d, t) /\ RowsBut(db, d, t) /\ (ReadyToSend(d, t) => Ready(d, t, d.req[t]))
  BY <1>1, <1>2, CommittedReady
<1>4. TypeOK
  BY DEF ActionInv
<1>5. World /\ Sent(d, db', t)
  <2>1. CASE mode # "noSend" /\ ReadyToSend(d, t)
    BY <2>1, <1>2, <1>3, <1>4, ShareSent DEF ProcessAction
  <2>2. CASE ~(mode # "noSend" /\ ReadyToSend(d, t))
    <3>1. db' = d /\ UNCHANGED <<input, network>> /\ shared' \subseteq Txs
      BY <2>2, <1>2, <1>4 DEF ProcessAction, network, TypeOK
    <3>2. World
      BY <3>1, <1>4, SameWorld
    <3> QED BY <3>1, <3>2, <1>3
  <2> QED BY <2>1, <2>2
<1>6. PICK e : e = db'
  OBVIOUS
<1>7. /\ e \in Stores /\ RowsBut(db, e, t) /\ CoinInv(e)
      /\ RowOK(t, e.tx[t], e.req[t], e.linked[t])
      /\ e.tx[t] # None /\ ~e.req[t].proven
  BY <1>3, <1>5, <1>6 DEF Sent, RowsBut
<1>8. monitor' = monitor
  BY DEF ProcessAction
<1>9. ASSUME t \in DOMAIN monitor.page PROVE OnPage(e, monitor, t)
  <2>1. OnPage(db, monitor, t)
    BY <1>9, StepContext
  <2>2. /\ monitor.task \notin {"CheckForProofs", "CheckNoSends", "UnFail"}
        /\ monitor.page[t].status = "unsent"
    BY <2>1, <1>1 DEF OnPage, Early, Gone
  <2> QED BY <2>1, <2>2, <1>7 DEF OnPage
<1> QED BY <1>5, <1>6, <1>7, <1>8, <1>9, CallStep

LEMMA SendWithInv ==
  ASSUME ActionInv, NEW t \in Txs, NEW delayed \in BOOLEAN, SendWith(t, delayed)
  PROVE  ActionInv'
<1>1. /\ TypeOK /\ db \in Stores /\ CoinInv(db) /\ RowOK(t, db.tx[t], db.req[t], db.linked[t])
      /\ t \in DOMAIN monitor.page => OnPage(db, monitor, t)
      /\ db.req[t] \in Reqs
  BY StepContext
<1>2. db.req[t].status \in Sendable /\ ~db.req[t].proven
  BY DEF SendWith, ReadyToSend, Sendable
<1>3. db.tx[t] # None
  BY <1>1, <1>2 DEF RowOK, Sendable, None
<1>4. Ready(db, t, db.req[t])
  BY <1>1, <1>2, <1>3 DEF Ready, RowOK, Sendable, None
<1>5. World /\ Sent(db, db', t)
  BY <1>1, <1>4, ShareSent DEF SendWith
<1>6. PICK e : e = db'
  OBVIOUS
<1>7. /\ e \in Stores /\ RowsBut(db, e, t) /\ CoinInv(e)
      /\ RowOK(t, e.tx[t], e.req[t], e.linked[t])
      /\ e.tx[t] # None /\ ~e.req[t].proven
  BY <1>5, <1>6 DEF Sent
<1>8. db.tx[t] \notin Early => e.tx[t] \notin Early
  BY <1>5, <1>6 DEF Sent
<1>9. ASSUME t \in DOMAIN monitor.page PROVE OnPage(e, monitor, t)
  <2>1. OnPage(db, monitor, t)
    BY <1>9, <1>1
  <2>2. monitor.task # "UnFail"
    BY <2>1, <1>2 DEF OnPage, Sendable
  <2> QED BY <2>1, <2>2, <1>7, <1>8 DEF OnPage
<1> QED BY <1>5, <1>6, <1>7, <1>9, CallStep DEF SendWith

LEMMA CreateActionInv ==
  ASSUME ActionInv, NEW t \in Txs, NEW c \in Coins, CreateAction(t, c)
  PROVE  ActionInv'
<1>1. /\ TypeOK /\ db \in Stores /\ CoinInv(db) /\ RowOK(t, db.tx[t], db.req[t], db.linked[t])
      /\ t \in DOMAIN monitor.page => OnPage(db, monitor, t)
      /\ RowInv(db) /\ PageInv(db, monitor)
  BY StepContext DEF ActionInv
<1>2. /\ db.tx[t] = None /\ db.spendable[c] /\ db.spentBy[c] = None
      /\ c \in Txs => db.tx[c] \notin Early
      /\ input' = [input EXCEPT ![t] = c]
      /\ UNCHANGED <<shared, net, rivals, env, monitor>>
  BY DEF CreateAction, Fundable, Early, None, network
<1>3. /\ input[t] = None /\ db.req[t].status = None /\ ~db.req[t].proven
      /\ (\A u \in Txs : input[u] # t) /\ ~db.linked[t]
  BY <1>1, <1>2 DEF RowOK, Early
<1>4. c # t
  BY <1>2 DEF Early
<1>5. t \in Coins
  BY DEF Coins
<1>6. PICK e : e = db'
  OBVIOUS
<1>7. e = [db EXCEPT !.tx[t] = "unsigned", !.spendable[c] = FALSE, !.spendable[t] = TRUE,
                     !.spentBy[c] = t]
  BY <1>1, <1>4, <1>5, <1>6 DEF CreateAction, Claim, Stores
<1>8. /\ e \in Stores /\ e.req = db.req /\ e.linked = db.linked
      /\ e.tx = [db.tx EXCEPT ![t] = "unsigned"]
      /\ e.spentBy = [db.spentBy EXCEPT ![c] = t]
      /\ e.spendable = [db.spendable EXCEPT ![c] = FALSE, ![t] = TRUE]
  BY <1>1, <1>5, <1>7 DEF Stores, TxStatus
<1>9. /\ e.tx[t] = "unsigned" /\ \A u \in Txs : u # t => e.tx[u] = db.tx[u]
      /\ e.spentBy[c] = t /\ ~e.spendable[c]
      /\ \A k \in Coins : k # c => e.spentBy[k] = db.spentBy[k]
      /\ \A k \in Coins : k # c /\ k # t => e.spendable[k] = db.spendable[k]
  BY <1>1, <1>4, <1>5, <1>8, StoreFields
<1>10. input \in [Txs -> Coins \cup {None}]
  BY <1>1 DEF TypeOK
<1>11. input'[t] = c /\ \A u \in Txs : u # t => input'[u] = input[u]
  BY <1>2, <1>10
<1>12. \A k \in Coins : SpentOnNet(k) => SpentOnNet(k)'
  <2> SUFFICES ASSUME NEW k \in Coins, SpentOnNet(k) PROVE SpentOnNet(k)'
    OBVIOUS
  <2>1. CASE k \in rivals
    BY <2>1, <1>2 DEF SpentOnNet
  <2>2. ASSUME NEW u \in Txs, Known(u), input[u] = k PROVE SpentOnNet(k)'
    <3>1. u # t
      BY <2>2, <1>3, NoneApart DEF Coins
    <3> QED BY <2>2, <3>1, <1>2, <1>11 DEF SpentOnNet, Known
  <2> QED BY <2>1, <2>2 DEF SpentOnNet
<1>13. ASSUME NEW k \in Coins PROVE CoinOK(e, k)'
  <2>1. CoinOK(db, k)
    BY <1>1 DEF CoinInv
  <2>2. CASE k = c
    <3>1. c \in Txs => e.tx[c] \notin Gone \/ db.spentBy[c] = None
      BY <1>2
    <3>2. c \in Txs => e.tx[c] = db.tx[c]
      BY <1>4, <1>9
    <3>3. c \in Txs => db.tx[c] \notin Gone
      BY DEF CreateAction, Fundable, Gone
    <3> QED BY <2>2, <3>2, <3>3, <1>9, <1>11, NoneApart DEF CoinOK
  <2>3. CASE k = t
    <3>1. db.spentBy[t] \notin Txs
      BY <2>1, <2>3, <1>3 DEF CoinOK
    <3>2. e.spentBy[t] = db.spentBy[t]
      BY <1>4, <1>5, <1>9
    <3> QED BY <2>3, <3>1, <3>2, CoinKinds DEF CoinOK
  <2>4. CASE k # c /\ k # t
    <3>1. e.spentBy[k] = db.spentBy[k] /\ e.spendable[k] = db.spendable[k]
          /\ (k \in Txs => e.tx[k] = db.tx[k])
      BY <2>4, <1>9
    <3>2. db.spentBy[k] \in Txs => input[db.spentBy[k]] = k /\ db.spentBy[k] # t
      BY <2>1, <1>3, NoneApart DEF CoinOK, Coins
    <3>3. db.spentBy[k] \in Txs => input'[db.spentBy[k]] = k
      BY <3>2, <1>11
    <3>4. net' = net /\ (SpentOnNet(k) => SpentOnNet(k)')
      BY <1>2, <1>12
    <3> QED BY <2>1, <3>1, <3>3, <3>4 DEF CoinOK
  <2> QED BY <2>2, <2>3, <2>4
<1>14. ASSUME NEW u \in Txs PROVE RowOK(u, e.tx[u], e.req[u], e.linked[u])'
  <2>1. e.req[u] = db.req[u] /\ e.linked[u] = db.linked[u]
    BY <1>8
  <2>2. RowOK(u, db.tx[u], db.req[u], db.linked[u])
    BY <1>1 DEF RowInv
  <2>3. net' = net /\ env' = env
    BY <1>2
  <2>4. CASE u = t
    <3>1. \A v \in Txs : input'[v] # t
      BY <1>3, <1>4, <1>11
    <3> QED BY <2>1, <2>4, <3>1, <1>3, <1>9, <1>11 DEF RowOK, Early, Gone, None
  <2>5. CASE u # t
    <3>1. e.tx[u] = db.tx[u] /\ input'[u] = input[u]
      BY <2>5, <1>9, <1>11
    <3>2. db.tx[u] \in Early => \A v \in Txs : input'[v] # u
      <4>1. db.tx[u] \in Early => u # c
        BY <1>2
      <4> QED BY <4>1, <2>2, <1>11 DEF RowOK
    <3> QED BY <2>1, <2>2, <2>3, <3>1, <3>2 DEF RowOK, Crashes, Merges
  <2> QED BY <2>4, <2>5
<1>15. PageInv(e, monitor)
  <2>1. ASSUME NEW u \in DOMAIN monitor.page PROVE OnPage(e, monitor, u)
    <3>1. OnPage(db, monitor, u) /\ u \in Txs
      BY <1>1, MonitorFields DEF PageInv
    <3>2. u # t
      BY <3>1, <1>2 DEF OnPage
    <3> QED BY <3>1, <3>2, <1>8, <1>9 DEF OnPage
  <2> QED BY <2>1, <1>1 DEF PageInv
<1>16. PageInv(db, monitor)'
  BY <1>2, <1>6, <1>15 DEF PageInv
<1>17. TypeOK'
  BY <1>1, <1>2, <1>6, <1>8 DEF TypeOK, Tasks
<1> QED BY <1>6, <1>13, <1>14, <1>16, <1>17 DEF ActionInv, CoinInv, RowInv

LEMMA AbortActionInv ==
  ASSUME ActionInv, NEW t \in Txs, AbortAction(t)
  PROVE  ActionInv'
<1>1. /\ TypeOK /\ db \in Stores /\ CoinInv(db) /\ RowOK(t, db.tx[t], db.req[t], db.linked[t])
      /\ t \in DOMAIN monitor.page => OnPage(db, monitor, t)
      /\ db.req[t] \in Reqs
  BY StepContext
<1>2. db.tx[t] \in {"unsigned", "unprocessed", "nosend", "unfail"} /\ UNCHANGED <<input, shared, network, monitor>>
  BY DEF AbortAction
<1>3. World
  BY <1>1, <1>2, SameWorld DEF TypeOK
<1>4. PICK f : f = UpdateTransactionStatus(db, t, "failed")
  OBVIOUS
<1>5. \/ ~MayUpdate(db, t, "failed") /\ f = db
      \/ Failed(db, f, t) /\ f.req = db.req
  BY <1>1, <1>4, UpdateFields DEF TxStatus
<1>6. PICK q : q = SetStatus(db.req[t], "invalid")
  OBVIOUS
<1>7. q \in Reqs /\ q.status = "invalid" /\ q.proven = db.req[t].proven
  BY <1>1, <1>6, SetStatusFields DEF ReqStatus
<1>8. db' = IF db.req[t].status = None THEN f ELSE WriteReq(f, t, q)
  BY <1>4, <1>6 DEF AbortAction
<1>9. CASE ~db.linked[t]
  <2>1. Failed(db, f, t) /\ f.req = db.req
    BY <1>2, <1>5, <1>9 DEF MayUpdate
  <2>2. f \in Stores /\ f.linked = db.linked /\ f.tx = [db.tx EXCEPT ![t] = "failed"]
    BY <2>1 DEF Failed
  <2>3. f.tx[t] = "failed" /\ \A u \in Txs : u # t => f.tx[u] = db.tx[u]
    BY <2>2, <1>1, StoreFields
  <2>4. CoinInv(f)
    BY <1>1, <2>1, <2>2, CoinsFailed
  <2>5. net[t] = "mined" \/ ~db.req[t].proven
    BY <1>1 DEF RowOK
  <2>6. CASE db.req[t].status = None
    <3>1. db' = f
      BY <2>6, <1>8
    <3>2. ~db.req[t].proven
      BY <2>6, <1>1 DEF RowOK, None
    <3>3. RowOK(t, "failed", db.req[t], db.linked[t])
      BY <1>1, <1>2, <1>9, <2>6, <3>2 DEF RowOK, Early, Gone, None
    <3>4. t \in DOMAIN monitor.page => OnPage(f, monitor, t)
      <4>1. ASSUME t \in DOMAIN monitor.page PROVE OnPage(f, monitor, t)
        <5>1. OnPage(db, monitor, t)
          BY <4>1, <1>1
        <5> QED BY <5>1, <2>1, <2>3, <2>6 DEF OnPage, Early, Gone, None
      <4> QED BY <4>1
    <3> QED BY <1>3, <3>1, <3>3, <3>4, <2>1, <2>2, <2>3, <2>4, CallStep, <1>2 DEF RowsBut
  <2>7. CASE db.req[t].status # None
    <3>1. PICK e : e = WriteReq(f, t, q)
      OBVIOUS
    <3>2. PICK p \in Reqs : /\ ReqOnly(f, e, t, p) /\ p.status = q.status
                            /\ p.proven <=> q.proven \/ f.req[t].proven
      BY <2>2, <3>1, <1>7, WriteReqFields
    <3>3. /\ e \in Stores /\ e.tx = f.tx /\ e.linked = f.linked /\ SameCoins(f, e)
          /\ e.req = [f.req EXCEPT ![t] = p]
      BY <3>2 DEF ReqOnly, SameTxs
    <3>4. e.req[t] = p /\ \A u \in Txs : u # t => e.req[u] = db.req[u]
      BY <3>3, <2>1, <2>2, <1>1, StoreFields
    <3>5. p.status = "invalid" /\ (p.proven <=> db.req[t].proven)
      BY <3>2, <2>1, <1>7
    <3>6. CoinInv(e)
      BY <2>2, <2>4, <3>3, CoinsSame
    <3>7. RowOK(t, "failed", p, db.linked[t])
      BY <1>1, <1>2, <1>9, <2>5, <3>5 DEF RowOK, Early, Gone, None
    <3>8. t \in DOMAIN monitor.page => OnPage(e, monitor, t)
      <4>1. ASSUME t \in DOMAIN monitor.page PROVE OnPage(e, monitor, t)
        <5>1. OnPage(db, monitor, t)
          BY <4>1, <1>1
        <5> QED BY <5>1, <2>3, <3>3, <3>4, <3>5 DEF OnPage, Early, Gone, None
      <4> QED BY <4>1
    <3>9. db' = e
      BY <2>7, <3>1, <1>8
    <3>10. RowsBut(db, e, t) /\ RowOK(t, e.tx[t], e.req[t], e.linked[t])
      BY <2>2, <2>3, <3>3, <3>4, <3>7 DEF RowsBut
    <3> QED BY <1>2, <1>3, <3>3, <3>6, <3>8, <3>9, <3>10, CallStep
  <2> QED BY <2>6, <2>7
<1>10. CASE db.linked[t]
  <2>1. db.req[t].proven /\ net[t] = "mined" /\ db.req[t].status # None
    BY <1>1, <1>10 DEF RowOK, None
  <2>2. f = db
    BY <1>5, <1>10 DEF Failed, MayUpdate
  <2>3. PICK e : e = WriteReq(db, t, q)
    OBVIOUS
  <2>4. PICK p \in Reqs : /\ ReqOnly(db, e, t, p) /\ p.status = q.status
                          /\ p.proven <=> q.proven \/ db.req[t].proven
    BY <2>3, <1>1, <1>7, WriteReqFields
  <2>5. /\ e \in Stores /\ e.tx = db.tx /\ e.linked = db.linked /\ SameCoins(db, e)
        /\ e.req = [db.req EXCEPT ![t] = p]
    BY <2>4 DEF ReqOnly, SameTxs
  <2>6. e.req[t] = p /\ \A u \in Txs : u # t => e.req[u] = db.req[u]
    BY <2>5, <1>1, StoreFields
  <2>7. CoinInv(e)
    BY <1>1, <2>5, CoinsSame
  <2>8. RowOK(t, db.tx[t], p, db.linked[t])
    BY <1>1, <1>2, <1>7, <1>10, <2>1, <2>4 DEF RowOK, Early, Gone, None
  <2>9. t \notin DOMAIN monitor.page
    BY <1>1, <2>1 DEF OnPage
  <2>10. db' = e
    BY <2>1, <2>2, <2>3, <1>8
  <2>11. RowsBut(db, e, t) /\ RowOK(t, e.tx[t], e.req[t], e.linked[t])
    BY <2>5, <2>6, <2>8 DEF RowsBut
  <2> QED BY <1>2, <1>3, <2>5, <2>7, <2>9, <2>10, <2>11, CallStep
<1> QED BY <1>9, <1>10

LEMMA RequestUnfailInv ==
  ASSUME ActionInv, NEW t \in Txs, RequestUnfail(t)
  PROVE  ActionInv'
<1>1. /\ TypeOK /\ db \in Stores /\ CoinInv(db) /\ RowOK(t, db.tx[t], db.req[t], db.linked[t])
      /\ t \in DOMAIN monitor.page => OnPage(db, monitor, t)
  BY StepContext
<1>2. db.tx[t] = "failed" /\ UNCHANGED <<input, shared, network, monitor>>
  BY DEF RequestUnfail
<1>3. World
  BY <1>1, <1>2, SameWorld DEF TypeOK
<1>4. PICK e : e = db'
  OBVIOUS
<1>5. TxOnly(db, e, t, "unfail")
  BY <1>1, <1>4, TxOnlyFields DEF RequestUnfail, TxStatus
<1>6. /\ e \in Stores /\ SameCoins(db, e) /\ e.req = db.req /\ e.linked = db.linked
      /\ e.tx[t] = "unfail" /\ \A u \in Txs : u # t => e.tx[u] = db.tx[u]
  BY <1>1, <1>5, StoreFields DEF TxOnly
<1>7. CoinInv(e)
  BY <1>1, <1>2, <1>6, CoinsSame DEF Gone
<1>8. RowOK(t, "unfail", db.req[t], db.linked[t])
  BY <1>1, <1>2 DEF RowOK, Early, Gone, None
<1>9. t \in DOMAIN monitor.page => OnPage(e, monitor, t)
  BY <1>1, <1>6 DEF OnPage, Early, Gone, None
<1> QED BY <1>2, <1>3, <1>4, <1>6, <1>7, <1>8, <1>9, CallStep DEF RowsBut

-----------------------------------------------------------------------------
(***************************************************************************)
(* The tasks.                                                              *)
(***************************************************************************)
LEMMA ReadPageInv ==
  ASSUME ActionInv, NEW task \in TaskNames, ReadPage(task)
  PROVE  ActionInv'
<1> DEFINE found == {t \in Txs : db.req[t].status \in Wanted(task)}
<1>1. TypeOK /\ db \in Stores /\ RowInv(db) /\ CoinInv(db)
  BY DEF ActionInv, TypeOK
<1>2. task \in Tasks /\ UNCHANGED <<db, input, shared, network>>
  BY DEF ReadPage
<1>3. World
  BY <1>1, <1>2, SameWorld DEF TypeOK
<1>4. PICK page \in SUBSET found :
        monitor' = [task |-> task, page |-> [t \in page |-> db.req[t]], proof |-> None]
  BY DEF ReadPage
<1>5. PICK m : m = [task |-> task, page |-> [t \in page |-> db.req[t]], proof |-> None]
  OBVIOUS
<1>6. m.task = task /\ m.proof = None /\ DOMAIN m.page = page
      /\ \A t \in page : m.page[t] = db.req[t]
  BY <1>5
<1>7. m \in [task : Tasks \cup {None}, page : Pages, proof : Txs \cup {None}]
  <2>1. page \in SUBSET Txs /\ \A t \in page : db.req[t] \in Reqs
    BY <1>1, StoreFields
  <2>2. [t \in page |-> db.req[t]] \in [page -> Reqs]
    BY <2>1
  <2>3. [t \in page |-> db.req[t]] \in Pages
    BY <2>1, <2>2 DEF Pages
  <2> QED BY <2>3, <1>2, <1>5
<1>8. ASSUME NEW t \in page PROVE OnPage(db, m, t)
  <2>1. t \in Txs /\ db.req[t].status \in Wanted(task)
    OBVIOUS
  <2>2. RowOK(t, db.tx[t], db.req[t], db.linked[t])
    BY <1>1, <2>1 DEF RowInv
  <2>3. /\ db.req[t].status \in {"unsent", "sending", "unmined", "nosend", "unfail"}
        /\ task \in {"CheckForProofs", "CheckNoSends"} =>
              db.req[t].status \in {"unmined", "sending", "nosend"}
        /\ task = "UnFail" => db.req[t].status = "unfail"
    BY <2>1 DEF Wanted, TaskNames
  <2>4. ~db.req[t].proven /\ db.tx[t] # None
    BY <2>2, <2>3 DEF RowOK, None
  <2>5. task \in {"CheckForProofs", "CheckNoSends"} => db.tx[t] \notin Early
    BY <2>2, <2>3 DEF RowOK, None
  <2>6. task = "UnFail" => db.tx[t] \in Gone
    BY <2>2, <2>3 DEF RowOK
  <2>7. db.tx[t] \in Early => db.req[t].status = "unsent"
    BY <2>2, <2>3 DEF RowOK, None
  <2> QED BY <2>1, <2>3, <2>4, <2>5, <2>6, <2>7, <1>6 DEF OnPage
<1>9. PageInv(db, m)
  BY <1>6, <1>8 DEF PageInv
<1>10. PICK d : d = db
  OBVIOUS
<1>11. PageInv(d, m)' /\ CoinInv(d)' /\ RowInv(d)'
  BY <1>1, <1>3, <1>6, <1>9, <1>10, PageNext, CoinsNext, RowsNext
<1>12. TypeOK'
  BY <1>1, <1>2, <1>3, <1>4, <1>5, <1>7 DEF TypeOK, World, NetTypes, Tasks
<1> QED BY <1>2, <1>4, <1>5, <1>10, <1>11, <1>12 DEF ActionInv

\* What is known of the request in hand.
LEMMA InHandFacts ==
  ASSUME ActionInv, NEW t \in Txs, t \in DOMAIN monitor.page
  PROVE  /\ OnPage(db, monitor, t) /\ monitor.page[t] \in Reqs
         /\ db.tx[t] # None /\ ~db.req[t].proven /\ ~monitor.page[t].proven
         /\ ~db.linked[t] /\ db.tx[t] # "completed" /\ input[t] \in Coins
         /\ db.req[t].status # "completed"
<1>1. RowOK(t, db.tx[t], db.req[t], db.linked[t]) /\ OnPage(db, monitor, t) /\ TypeOK
  BY StepContext
<1>2. monitor.page[t] \in Reqs
  BY <1>1, MonitorFields
<1> QED BY <1>1, <1>2 DEF RowOK, OnPage

LEMMA PageReady ==
  ASSUME ActionInv, NEW t \in DOMAIN monitor.page, monitor.task = "SendWaiting"
  PROVE  t \in Txs /\ Ready(db, t, monitor.page[t])
<1>1. t \in Txs
  BY MonitorFields DEF ActionInv
<1>2. db \in Stores /\ CoinInv(db) /\ RowOK(t, db.tx[t], db.req[t], db.linked[t])
  BY <1>1, StepContext
<1>3. OnPage(db, monitor, t) /\ monitor.page[t] \in Reqs /\ db.tx[t] # None
  BY <1>1, InHandFacts
<1>4. /\ ~db.req[t].proven /\ ~monitor.page[t].proven /\ monitor.page[t].status \in Sendable
      /\ db.tx[t] \in Early => monitor.page[t].status = "unsent"
  BY <1>3 DEF OnPage, Wanted, Sendable
<1> QED BY <1>1, <1>2, <1>3, <1>4 DEF Ready

LEMMA SendWaitingInv ==
  ASSUME ActionInv, NEW t \in Txs, SendWaiting(t)
  PROVE  ActionInv'
<1>1. TypeOK
  BY StepContext
<1>2. t \in DOMAIN monitor.page /\ monitor.task = "SendWaiting"
  BY DEF SendWaiting, InHand
<1>3. PICK result \in Results, answered \in Answers :
          /\ Posting(t, result)
          /\ db' = AttemptToPost(db, t, monitor.page[t], result, answered)
          /\ monitor' = IF PostThrows(db, t, monitor.page[t], result) THEN Waiting
                        ELSE NextOfPage(t)
  BY DEF SendWaiting
<1>4. World
  BY <1>1, <1>3, PostingNet, AcceptedWorld DEF SendWaiting, TypeOK
<1>5. Ready(db, t, monitor.page[t])
  BY <1>2, PageReady
<1>6. PICK e : e = db'
  OBVIOUS
<1>7. Sent(db, e, t)
  BY <1>3, <1>5, <1>6, AttemptSent
<1>8. e \in Stores /\ RowsBut(db, e, t) /\ CoinInv(e) /\ RowOK(t, e.tx[t], e.req[t], e.linked[t])
  BY <1>7 DEF Sent
<1>9. PICK m : m = monitor'
  OBVIOUS
<1>10. Done(m, t)
  BY <1>1, <1>3, <1>9, NextOfPageDone DEF Done
<1> QED BY <1>4, <1>6, <1>8, <1>9, <1>10, TaskStepInv

LEMMA MergeFailsInv ==
  ASSUME ActionInv, NEW t \in Txs, MergeFails(t)
  PROVE  ActionInv'
<1>1. TypeOK
  BY StepContext
<1>2. /\ t \in DOMAIN monitor.page /\ monitor.task = "SendWaiting" /\ Merges
      /\ monitor' = Waiting /\ UNCHANGED <<input, shared, network>>
  BY DEF MergeFails, InHand
<1>3. PICK p \in MergeFailed(db, t, monitor.page[t]) : db' = WriteReq(db, t, p)
  BY DEF MergeFails
<1>4. World
  BY <1>1, <1>2, SameWorld DEF TypeOK
<1>5. Ready(db, t, monitor.page[t])
  BY <1>2, PageReady
<1>6. PICK e : e = db'
  OBVIOUS
<1>7. Sent(db, e, t)
  BY <1>2, <1>3, <1>5, <1>6, MergeFailedSent
<1>8. e \in Stores /\ RowsBut(db, e, t) /\ CoinInv(e) /\ RowOK(t, e.tx[t], e.req[t], e.linked[t])
  BY <1>7 DEF Sent
<1>9. PICK m : m = Waiting
  OBVIOUS
<1>10. Done(m, t)
  BY <1>9 DEF Done
<1> QED BY <1>2, <1>4, <1>6, <1>8, <1>9, <1>10, TaskStepInv

LEMMA ReqWritten ==
  ASSUME ActionInv, NEW t \in Txs, t \in DOMAIN monitor.page, db.tx[t] \notin Early,
         NEW r \in Reqs, ~r.proven, r.status \in {"unmined", "sending", "nosend", "invalid", "unsent"}
  PROVE  LET e == WriteReq(db, t, r)
         IN /\ e \in Stores /\ RowsBut(db, e, t) /\ CoinInv(e)
            /\ RowOK(t, e.tx[t], e.req[t], e.linked[t])
            /\ e.tx[t] = db.tx[t] /\ ~e.req[t].proven /\ e.req[t].status = r.status
            /\ e.req[t].wasBroadcast = r.wasBroadcast /\ SameCoins(db, e)
<1>1. /\ db \in Stores /\ CoinInv(db) /\ RowOK(t, db.tx[t], db.req[t], db.linked[t])
  BY StepContext
<1>2. ~db.req[t].proven
  BY InHandFacts
<1>3. PICK e : e = WriteReq(db, t, r)
  OBVIOUS
<1>4. PICK q \in Reqs : /\ ReqOnly(db, e, t, q)
                        /\ q.status = r.status /\ q.wasBroadcast = r.wasBroadcast
                        /\ q.proven <=> r.proven \/ db.req[t].proven
  BY <1>1, <1>3, WriteReqFields
<1>5. /\ e \in Stores /\ e.tx = db.tx /\ e.linked = db.linked /\ SameCoins(db, e)
      /\ e.req = [db.req EXCEPT ![t] = q]
  BY <1>4 DEF ReqOnly, SameTxs
<1>6. e.req[t] = q /\ \A u \in Txs : u # t => e.req[u] = db.req[u]
  BY <1>5, <1>1, StoreFields
<1>7. CoinInv(e)
  BY <1>1, <1>5, CoinsSame
<1>8. RowOK(t, db.tx[t], q, db.linked[t])
  BY <1>1, <1>2, <1>4 DEF RowOK, Early, Gone, None
<1> QED BY <1>2, <1>3, <1>4, <1>5, <1>6, <1>7, <1>8 DEF RowsBut

LEMMA CheckedFacts ==
  ASSUME ActionInv, NEW t \in Txs, CheckingProof(t)
  PROVE  /\ t \in DOMAIN monitor.page /\ monitor.proof = None /\ db.tx[t] \notin Early
         /\ \A r \in Checked(monitor.page[t]) \cup GivenUp(monitor.page[t])
                        \cup {TimedOut(monitor.page[t])} :
               r \in Reqs /\ ~r.proven /\ r.status \in {"unmined", "sending", "nosend", "invalid", "unsent"}
<1>1. t \in DOMAIN monitor.page /\ monitor.task \in {"CheckForProofs", "CheckNoSends"}
      /\ monitor.proof = None
  BY DEF CheckingProof, InHand
<1>2. PICK p : p = monitor.page[t]
  OBVIOUS
<1>3. /\ OnPage(db, monitor, t) /\ p \in Reqs /\ ~p.proven
  BY <1>1, <1>2, InHandFacts
<1>4. db.tx[t] \notin Early /\ p.status \in {"unmined", "sending", "nosend"}
  BY <1>1, <1>2, <1>3 DEF OnPage, Wanted
<1>5. /\ Attempted(p) \in Reqs /\ Attempted(p).status = p.status /\ Attempted(p).proven = p.proven
  BY <1>3, AttemptedFields
<1>6. /\ TimedOut(p) \in Reqs /\ TimedOut(p).status \in {"invalid", "unsent"}
      /\ TimedOut(p).proven = p.proven
  BY <1>3, TimedOutFields
<1>7. ASSUME NEW r \in Checked(p) \cup GivenUp(p) \cup {TimedOut(p)}
      PROVE  r = p \/ r = Attempted(p) \/ r = TimedOut(p)
  BY DEF Checked, GivenUp
<1>8. ASSUME NEW r \in Checked(p) \cup GivenUp(p) \cup {TimedOut(p)}
      PROVE  r \in Reqs /\ ~r.proven /\ r.status \in {"unmined", "sending", "nosend", "invalid", "unsent"}
  <2>1. CASE r = p
    BY <2>1, <1>3, <1>4
  <2>2. CASE r = Attempted(p)
    BY <2>2, <1>3, <1>4, <1>5
  <2>3. CASE r = TimedOut(p)
    BY <2>3, <1>3, <1>6
  <2> QED BY <1>7, <2>1, <2>2, <2>3
<1> QED BY <1>1, <1>2, <1>4, <1>8

LEMMA ProofStepInv ==
  ASSUME ActionInv, NEW t \in Txs, SettleWithoutProof(t) \/ ProofMissing(t) \/ ProofTooNew(t)
  PROVE  ActionInv'
<1>1. /\ TypeOK /\ db \in Stores /\ CoinInv(db) /\ RowOK(t, db.tx[t], db.req[t], db.linked[t])
  BY StepContext
<1>2. /\ CheckingProof(t) /\ monitor' = NextOfPage(t) /\ UNCHANGED <<input, shared, network>>
  BY DEF SettleWithoutProof, ProofMissing, ProofTooNew, AsksProof
<1>3. World
  BY <1>1, <1>2, SameWorld DEF TypeOK
<1>4. PICK m : m = NextOfPage(t)
  OBVIOUS
<1>5. Done(m, t) /\ monitor' = m
  BY <1>1, <1>2, <1>4, NextOfPageDone
<1>6. ASSUME NEW r \in Checked(monitor.page[t]) \cup GivenUp(monitor.page[t])
                         \cup {TimedOut(monitor.page[t])},
             db' = WriteReq(db, t, r)
      PROVE  ActionInv'
  <2>1. /\ t \in DOMAIN monitor.page /\ db.tx[t] \notin Early
        /\ r \in Reqs /\ ~r.proven /\ r.status \in {"unmined", "sending", "nosend", "invalid", "unsent"}
    BY <1>2, CheckedFacts
  <2>2. PICK e : e = WriteReq(db, t, r)
    OBVIOUS
  <2>3. e \in Stores /\ RowsBut(db, e, t) /\ CoinInv(e) /\ RowOK(t, e.tx[t], e.req[t], e.linked[t])
    BY <2>1, <2>2, ReqWritten
  <2> QED BY <1>3, <1>5, <1>6, <2>2, <2>3, TaskStepInv
<1>7. CASE SettleWithoutProof(t)
  <2>1. ~monitor.page[t].proven
    BY <1>2, CheckedFacts, InHandFacts
  <2>2. db' = WriteReq(db, t, TimedOut(monitor.page[t]))
    BY <1>7, <2>1 DEF SettleWithoutProof
  <2> QED BY <2>2, <1>6
<1>8. CASE ProofMissing(t)
  BY <1>6, <1>8 DEF ProofMissing
<1>9. CASE ProofTooNew(t)
  <2>1. PICK e : e = db
    OBVIOUS
  <2>2. db' = e /\ RowsBut(db, e, t) /\ e \in Stores /\ CoinInv(e)
        /\ RowOK(t, e.tx[t], e.req[t], e.linked[t])
    BY <1>1, <1>9, <2>1 DEF ProofTooNew, RowsBut
  <2> QED BY <1>3, <1>5, <2>2, TaskStepInv
<1> QED BY <1>7, <1>8, <1>9

LEMMA ProofFoundInv ==
  ASSUME ActionInv, NEW t \in Txs, ProofFound(t)
  PROVE  ActionInv'
<1>1. /\ TypeOK /\ CoinInv(db) /\ RowInv(db) /\ PageInv(db, monitor)
  BY DEF ActionInv
<1>2. CheckingProof(t) /\ net[t] = "mined" /\ UNCHANGED <<input, shared, network>>
      /\ monitor' = [monitor EXCEPT !.proof = t]
  BY DEF ProofFound, AsksProof
<1>3. World
  BY <1>1, <1>2, SameWorld DEF TypeOK
<1>4. PICK r \in Checked(monitor.page[t]) : db' = WriteReq(db, t, r)
  BY DEF ProofFound
<1>5. /\ t \in DOMAIN monitor.page /\ db.tx[t] \notin Early
      /\ r \in Reqs /\ ~r.proven /\ r.status \in {"unmined", "sending", "nosend", "invalid", "unsent"}
  BY <1>2, CheckedFacts
<1>6. PICK e : e = WriteReq(db, t, r)
  OBVIOUS
<1>7. /\ e \in Stores /\ RowsBut(db, e, t) /\ CoinInv(e) /\ RowOK(t, e.tx[t], e.req[t], e.linked[t])
      /\ e.tx[t] = db.tx[t] /\ ~e.req[t].proven
  BY <1>5, <1>6, ReqWritten
<1>8. PICK m : m = [monitor EXCEPT !.proof = t]
  OBVIOUS
<1>9. /\ m \in [task : Tasks \cup {None}, page : Pages, proof : Txs \cup {None}]
      /\ m.task = monitor.task /\ m.page = monitor.page /\ m.proof = t
  BY <1>1, <1>8 DEF TypeOK
<1>10. ASSUME NEW u \in DOMAIN m.page PROVE OnPage(e, m, u)
  <2>1. u \in Txs /\ OnPage(db, monitor, u)
    BY <1>1, <1>9, MonitorFields DEF PageInv
  <2>2. monitor.task # "UnFail"
    BY <1>2 DEF CheckingProof, InHand
  <2>3. CASE u = t
    BY <2>1, <2>2, <2>3, <1>5, <1>7, <1>9 DEF OnPage
  <2>4. CASE u # t
    BY <2>1, <2>4, <1>7, <1>9 DEF OnPage, RowsBut
  <2> QED BY <2>3, <2>4
<1>11. PageInv(e, m)
  BY <1>2, <1>5, <1>9, <1>10 DEF PageInv, CheckingProof, InHand
<1>12. PageInv(e, m)' /\ CoinInv(e)' /\ RowInv(e)'
  BY <1>1, <1>3, <1>7, <1>9, <1>11, PageNext, CoinsNext, RowsNext, RowsStep
<1>13. TypeOK'
  BY <1>1, <1>2, <1>3, <1>4, <1>6, <1>7, <1>8, <1>9 DEF TypeOK, World, NetTypes, Tasks
<1> QED BY <1>2, <1>4, <1>6, <1>8, <1>12, <1>13 DEF ActionInv

LEMMA ApplyProofInv ==
  ASSUME ActionInv, NEW t \in Txs, ApplyProof(t)
  PROVE  ActionInv'
<1>1. /\ TypeOK /\ db \in Stores /\ CoinInv(db) /\ RowOK(t, db.tx[t], db.req[t], db.linked[t])
      /\ db.req[t] \in Reqs /\ PageInv(db, monitor)
  BY StepContext DEF ActionInv
<1>2. monitor.proof = t /\ UNCHANGED <<input, shared, network>>
  BY DEF ApplyProof
<1>3. World
  BY <1>1, <1>2, SameWorld DEF TypeOK
<1>4. t \in DOMAIN monitor.page /\ net[t] = "mined"
  BY <1>1, <1>2, NoneApart DEF PageInv
<1>5. /\ db.tx[t] # None /\ ~db.req[t].proven /\ ~db.linked[t] /\ db.tx[t] # "completed"
      /\ input[t] \in Coins /\ OnPage(db, monitor, t)
  BY <1>4, InHandFacts
<1>6. PICK p : p = SetStatus(db.req[t], "completed")
  OBVIOUS
<1>7. p \in Reqs /\ p.status = "completed"
  BY <1>1, <1>6, SetStatusFields DEF ReqStatus
<1>8. PICK r : r = [p EXCEPT !.proven = TRUE]
  OBVIOUS
<1>9. r \in Reqs /\ r.status = "completed" /\ r.proven
  BY <1>7, <1>8 DEF Reqs
<1>10. PICK f : f = WriteReq(db, t, r)
  OBVIOUS
<1>11. PICK q \in Reqs : ReqOnly(db, f, t, q) /\ q.status = "completed" /\ q.proven
  BY <1>1, <1>9, <1>10, WriteReqFields
<1>12. /\ f \in Stores /\ f.tx = db.tx /\ f.linked = db.linked /\ SameCoins(db, f)
       /\ f.req = [db.req EXCEPT ![t] = q]
  BY <1>11 DEF ReqOnly, SameTxs
<1>13. f.req[t] = q /\ \A u \in Txs : u # t => f.req[u] = db.req[u]
  BY <1>12, <1>1, StoreFields
<1>14. CoinInv(f)
  BY <1>1, <1>12, CoinsSame
<1>15. \/ \E v \in VerdictsOn({t}) : db' = Reconcile(f, {t}, v) /\ monitor' = NextOfPage(t)
       \/ "task" \in Crashes /\ db' = f /\ monitor' = Waiting
  BY <1>6, <1>8, <1>10 DEF ApplyProof
<1>16. ASSUME NEW v \in VerdictsOn({t}), db' = Reconcile(f, {t}, v), monitor' = NextOfPage(t)
       PROVE  ActionInv'
  <2>1. PICK e : e = Reconcile(f, {t}, v)
    OBVIOUS
  <2>2. Reconciled(f, e, {t}, v)
    BY <1>12, <2>1, ReconcileFields
  <2>3. /\ e \in Stores /\ e.tx[t] = "completed" /\ e.linked[t]
        /\ \A u \in Txs : u # t => e.tx[u] = db.tx[u] /\ (e.linked[u] <=> db.linked[u])
                                   /\ e.req[u] = db.req[u]
    BY <2>2, <1>12, <1>13 DEF Reconciled
  <2>4. PICK n \in BOOLEAN : e.req[t] = [q EXCEPT !.notified = n]
    BY <2>2, <1>13 DEF Reconciled
  <2>5. e.req[t].status = "completed" /\ e.req[t].proven
    BY <2>4, <1>11 DEF Reqs
  <2>6. RowsBut(db, e, t)
    <3>1. \A u \in Txs : e.linked[u] \in BOOLEAN /\ db.linked[u] \in BOOLEAN
      BY <2>3, <1>1, StoreFields
    <3> QED BY <3>1, <2>3 DEF RowsBut
  <2>7. \A u \in {t} : net[u] = "mined" /\ v[u] \in Verdicts(u)
    BY <1>4 DEF VerdictsOn
  <2>8. CoinInv(e)
    BY <1>12, <1>14, <2>2, <2>3, <2>7, CoinsReconciled
  <2>9. RowOK(t, e.tx[t], e.req[t], e.linked[t])
    BY <2>3, <2>5, <1>4, <1>5 DEF RowOK, Early, None
  <2>10. PICK m : m = NextOfPage(t)
    OBVIOUS
  <2>11. Done(m, t)
    BY <1>1, <2>10, NextOfPageDone
  <2> QED BY <1>3, <1>16, <2>1, <2>3, <2>6, <2>8, <2>9, <2>10, <2>11, TaskStepInv
<1>17. ASSUME "task" \in Crashes, db' = f, monitor' = Waiting
       PROVE  ActionInv'
  <2>1. RowsBut(db, f, t)
    BY <1>12, <1>13 DEF RowsBut
  <2>2. db.tx[t] \notin Early
    <3>1. monitor.task \in {"CheckForProofs", "CheckNoSends"}
      BY <1>1, <1>2, NoneApart DEF PageInv
    <3> QED BY <3>1, <1>5 DEF OnPage
  <2>3. RowOK(t, f.tx[t], f.req[t], f.linked[t])
    BY <1>4, <1>5, <1>11, <1>12, <1>13, <1>17, <2>2 DEF RowOK, Early, None
  <2>4. Done(Waiting, t)
    BY DEF Done
  <2> QED BY <1>3, <1>12, <1>14, <1>17, <2>1, <2>3, <2>4, TaskStepInv
<1> QED BY <1>15, <1>16, <1>17

LEMMA UnFailInv ==
  ASSUME ActionInv, NEW t \in Txs, UnFail(t)
  PROVE  ActionInv'
<1>1. /\ TypeOK /\ db \in Stores /\ CoinInv(db) /\ RowOK(t, db.tx[t], db.req[t], db.linked[t])
      /\ db.req[t] \in Reqs
  BY StepContext
<1>2. /\ t \in DOMAIN monitor.page /\ monitor.task = "UnFail" /\ monitor' = NextOfPage(t)
      /\ UNCHANGED <<input, shared, network>>
  BY DEF UnFail, InHand
<1>3. World
  BY <1>1, <1>2, SameWorld DEF TypeOK
<1>4. PICK m : m = NextOfPage(t)
  OBVIOUS
<1>5. Done(m, t)
  BY <1>1, <1>4, NextOfPageDone
<1>6. /\ OnPage(db, monitor, t) /\ monitor.page[t] \in Reqs
      /\ ~db.req[t].proven /\ ~monitor.page[t].proven /\ ~db.linked[t] /\ input[t] \in Coins
  BY <1>2, InHandFacts
<1>7. db.tx[t] \in Gone
  BY <1>2, <1>6 DEF OnPage
<1>8. ASSUME NEW v \in VerdictsOn({t}), net[t] = "mined",
             db' = [RestoreForProof(db, {t}, v) EXCEPT
                       !.req[t] = [SetStatus(db.req[t], "unmined") EXCEPT !.attempts = 0]]
      PROVE  ActionInv'
  <2>1. PICK f : f = RestoreForProof(db, {t}, v)
    OBVIOUS
  <2>2. Restored(db, f, {t}, v)
    BY <1>1, <2>1, RestoreFields
  <2>3. f \in Stores /\ f.req = db.req /\ f.linked = db.linked /\ f.tx[t] = "unproven"
        /\ \A u \in Txs : u # t => f.tx[u] = db.tx[u]
    BY <2>2 DEF Restored
  <2>4. \A u \in {t} : db.tx[u] \in Gone /\ net[u] = "mined" /\ v[u] \in Verdicts(u)
    BY <1>7, <1>8 DEF VerdictsOn
  <2>5. CoinInv(f)
    BY <1>1, <2>2, <2>3, <2>4, CoinsRestored
  <2>6. PICK p : p = SetStatus(db.req[t], "unmined")
    OBVIOUS
  <2>7. p \in Reqs /\ p.status = "unmined" /\ p.proven = db.req[t].proven
    BY <1>1, <2>6, SetStatusFields DEF ReqStatus
  <2>8. PICK q : q = [p EXCEPT !.attempts = 0]
    OBVIOUS
  <2>9. q \in Reqs /\ q.status = "unmined" /\ ~q.proven
    BY <1>6, <2>7, <2>8, LimitsAreNaturals DEF Reqs
  <2>10. PICK e : e = [f EXCEPT !.req[t] = q]
    OBVIOUS
  <2>11. /\ e \in Stores /\ e.tx = f.tx /\ e.linked = f.linked /\ SameCoins(f, e)
         /\ e.req = [f.req EXCEPT ![t] = q]
    BY <2>3, <2>9, <2>10 DEF Stores, SameCoins
  <2>12. e.req[t] = q /\ \A u \in Txs : u # t => e.req[u] = db.req[u]
    BY <1>1, <2>3, <2>11, StoreFields
  <2>13. CoinInv(e)
    BY <2>3, <2>5, <2>11, CoinsSame
  <2>14. RowOK(t, "unproven", q, db.linked[t])
    BY <1>6, <2>9 DEF RowOK, Early, Gone, None
  <2>15. RowsBut(db, e, t) /\ RowOK(t, e.tx[t], e.req[t], e.linked[t])
    BY <2>3, <2>11, <2>12, <2>14 DEF RowsBut
  <2>16. db' = e
    BY <1>8, <2>1, <2>6, <2>8, <2>10
  <2> QED BY <1>2, <1>3, <1>4, <1>5, <2>11, <2>13, <2>15, <2>16, TaskStepInv
<1>9. ASSUME db' = WriteReq(db, t, SetStatus(monitor.page[t], "invalid"))
      PROVE  ActionInv'
  <2>1. PICK r : r = SetStatus(monitor.page[t], "invalid")
    OBVIOUS
  <2>2. r \in Reqs /\ ~r.proven /\ r.status = "invalid"
    BY <1>6, <2>1, SetStatusFields DEF ReqStatus
  <2>3. db.tx[t] \notin Early
    BY <1>7 DEF Early, Gone, None
  <2>4. PICK e : e = WriteReq(db, t, r)
    OBVIOUS
  <2>5. e \in Stores /\ RowsBut(db, e, t) /\ CoinInv(e) /\ RowOK(t, e.tx[t], e.req[t], e.linked[t])
    BY <1>2, <2>2, <2>3, <2>4, ReqWritten
  <2> QED BY <1>2, <1>3, <1>4, <1>5, <1>9, <2>1, <2>4, <2>5, TaskStepInv
<1> QED BY <1>8, <1>9 DEF UnFail

LEMMA ReviewDoubleSpendInv ==
  ASSUME ActionInv, NEW t \in Txs, ReviewDoubleSpend(t)
  PROVE  ActionInv'
<1>1. /\ TypeOK /\ db \in Stores /\ CoinInv(db) /\ RowOK(t, db.tx[t], db.req[t], db.linked[t])
      /\ db.req[t] \in Reqs
  BY StepContext
<1>2. /\ monitor = Waiting /\ db.req[t].status = "doubleSpend"
      /\ db' = [db EXCEPT !.req[t].status = "unfail"]
      /\ UNCHANGED <<input, shared, network, monitor>>
  BY DEF ReviewDoubleSpend
<1>3. World
  BY <1>1, <1>2, SameWorld DEF TypeOK
<1>4. PICK q : q = [db.req[t] EXCEPT !.status = "unfail"]
  OBVIOUS
<1>5. q \in Reqs /\ q.status = "unfail" /\ q.proven = db.req[t].proven
  BY <1>1, <1>4 DEF Reqs, ReqStatus
<1>6. PICK e : e = [db EXCEPT !.req[t] = q]
  OBVIOUS
<1>7. /\ e \in Stores /\ e.tx = db.tx /\ e.linked = db.linked /\ SameCoins(db, e)
      /\ e.req = [db.req EXCEPT ![t] = q]
  BY <1>1, <1>5, <1>6 DEF Stores, SameCoins
<1>8. e.req[t] = q /\ \A u \in Txs : u # t => e.req[u] = db.req[u]
  BY <1>1, <1>7, StoreFields
<1>9. db' = e
  BY <1>1, <1>2, <1>4, <1>6 DEF Stores
<1>10. CoinInv(e)
  BY <1>1, <1>7, CoinsSame
<1>11. RowOK(t, db.tx[t], q, db.linked[t])
  BY <1>1, <1>2, <1>5 DEF RowOK, Early, Gone, None
<1>12. t \notin DOMAIN monitor.page
  BY <1>2 DEF Waiting
<1> QED BY <1>2, <1>3, <1>7, <1>8, <1>9, <1>10, <1>11, <1>12, CallStep DEF RowsBut

LEMMA FailAbandonedInv ==
  ASSUME ActionInv, NEW t \in Txs, FailAbandoned(t)
  PROVE  ActionInv'
<1>1. /\ TypeOK /\ db \in Stores /\ CoinInv(db) /\ RowOK(t, db.tx[t], db.req[t], db.linked[t])
      /\ db.req[t] \in Reqs
  BY StepContext
<1>2. /\ monitor = Waiting /\ db.tx[t] \in {"unprocessed", "unsigned"}
      /\ db' = UpdateTransactionStatus(db, t, "failed")
      /\ UNCHANGED <<input, shared, network, monitor>>
  BY DEF FailAbandoned
<1>3. World
  BY <1>1, <1>2, SameWorld DEF TypeOK
<1>4. /\ db.req[t].status \in {None, "unsent", "unprocessed", "invalid"}
      /\ ~db.req[t].proven /\ ~db.linked[t] /\ input[t] \in Coins
  BY <1>1, <1>2 DEF RowOK, Early, None
<1>5. PICK e : e = db'
  OBVIOUS
<1>6. Failed(db, e, t) /\ e.req = db.req
  BY <1>1, <1>2, <1>4, <1>5, UpdateFields DEF MayUpdate, TxStatus
<1>7. e \in Stores /\ e.linked = db.linked /\ e.tx = [db.tx EXCEPT ![t] = "failed"]
  BY <1>6 DEF Failed
<1>8. e.tx[t] = "failed" /\ \A u \in Txs : u # t => e.tx[u] = db.tx[u]
  BY <1>7, <1>1, StoreFields
<1>9. CoinInv(e)
  BY <1>1, <1>6, <1>7, CoinsFailed
<1>10. RowOK(t, "failed", db.req[t], db.linked[t])
  BY <1>4 DEF RowOK, Early, Gone, None
<1>11. t \notin DOMAIN monitor.page
  BY <1>2 DEF Waiting
<1> QED BY <1>2, <1>3, <1>5, <1>6, <1>7, <1>8, <1>9, <1>10, <1>11, CallStep DEF RowsBut

LEMMA ReviewStatusInv ==
  ASSUME ActionInv, ReviewStatus
  PROVE  ActionInv'
<1>1. TypeOK /\ db \in Stores /\ CoinInv(db) /\ RowInv(db)
  BY DEF ActionInv, TypeOK
<1>2. monitor = Waiting /\ UNCHANGED <<input, shared, network, monitor>>
  BY DEF ReviewStatus
<1>3. World
  BY <1>1, <1>2, SameWorld DEF TypeOK
<1>4. PICK S : S = Unnotified
  OBVIOUS
<1>5. S \in SUBSET Txs /\ \A t \in S : db.req[t].status = "completed" /\ db.req[t].proven
  BY <1>4 DEF Unnotified
<1>6. PICK v \in VerdictsOn(S) :
        db' = CompleteProven(KillDeadOutputs(FreeDeadInputs(FailInvalid(Reconcile(db, S, v)))))
  BY <1>4 DEF ReviewStatus
<1>7. PICK d : d = Reconcile(db, S, v)
  OBVIOUS
<1>8. Reconciled(db, d, S, v)
  BY <1>1, <1>5, <1>7, ReconcileFields
<1>9. d \in Stores
  BY <1>8 DEF Reconciled
<1>10. PICK e : e = db'
  OBVIOUS
<1>11. Reviewed(d, e)
  BY <1>6, <1>7, <1>9, <1>10, ReviewFields
<1>12. e \in Stores /\ e.req = d.req
  BY <1>11 DEF Reviewed
<1>13. \A t \in S : net[t] = "mined" /\ v[t] \in Verdicts(t)
  BY <1>1, <1>5, <1>6 DEF RowInv, RowOK, VerdictsOn
<1>14. CoinInv(d)
  BY <1>1, <1>5, <1>8, <1>9, <1>13, CoinsReconciled
<1>15. CoinInv(e)
  BY <1>9, <1>11, <1>12, <1>14, CoinsReviewed
<1>16. ASSUME NEW t \in Txs PROVE RowOK(t, e.tx[t], e.req[t], e.linked[t])
  <2>1. RowOK(t, db.tx[t], db.req[t], db.linked[t])
    BY <1>1 DEF RowInv
  <2>2. PICK n \in BOOLEAN : d.req[t] = [db.req[t] EXCEPT !.notified = n]
    BY <1>8 DEF Reconciled
  <2>3. db.req[t] \in Reqs
    BY <1>1, StoreFields
  <2>4. e.req[t].status = db.req[t].status /\ e.req[t].proven = db.req[t].proven
    BY <2>2, <2>3, <1>12 DEF Reqs
  <2>5. d.req[t].status = db.req[t].status /\ d.req[t].proven = db.req[t].proven
    BY <2>4, <1>12
  <2>6. d.tx[t] = (IF t \in S THEN "completed" ELSE db.tx[t])
        /\ (d.linked[t] <=> t \in S \/ db.linked[t])
    BY <1>8 DEF Reconciled
  <2>7. /\ e.tx[t] = IF db.req[t].proven /\ ~d.linked[t] THEN "completed"
                     ELSE IF db.req[t].status = "invalid" THEN "failed" ELSE d.tx[t]
        /\ e.linked[t] <=> d.linked[t] \/ db.req[t].proven
    BY <1>11, <2>5 DEF Reviewed
  <2>8. CASE t \in S
    <3>1. e.tx[t] = "completed" /\ e.linked[t] /\ db.req[t].status = "completed" /\ db.req[t].proven
      BY <2>8, <2>6, <2>7, <1>5
    <3> QED BY <3>1, <2>1, <2>4 DEF RowOK, Early, Gone, None
  <2>9. CASE t \notin S /\ db.req[t].proven /\ ~db.linked[t]
    <3>1. e.tx[t] = "completed" /\ e.linked[t]
      BY <2>9, <2>6, <2>7
    <3> QED BY <3>1, <2>1, <2>4, <2>9 DEF RowOK, Early, Gone, None
  <2>10. CASE t \notin S /\ ~(db.req[t].proven /\ ~db.linked[t])
    <3>1. e.tx[t] = (IF db.req[t].status = "invalid" THEN "failed" ELSE db.tx[t])
          /\ (e.linked[t] <=> db.linked[t])
      BY <2>10, <2>1, <2>6, <2>7 DEF RowOK
    <3>2. CASE db.req[t].status = "invalid"
      BY <3>1, <3>2, <2>1, <2>4, <2>10 DEF RowOK, Early, Gone, None
    <3>3. CASE db.req[t].status # "invalid"
      BY <3>1, <3>3, <2>1, <2>4, <2>10 DEF RowOK, Early, Gone, None
    <3> QED BY <3>2, <3>3
  <2> QED BY <2>8, <2>9, <2>10
<1>17. RowInv(e)
  BY <1>16 DEF RowInv
<1>18. PageInv(e, Waiting)
  BY WaitingInv
<1>19. Waiting.proof = None
  BY DEF Waiting
<1>20. PICK m : m = Waiting
  OBVIOUS
<1>21. PageInv(e, m)' /\ CoinInv(e)' /\ RowInv(e)'
  BY <1>3, <1>15, <1>17, <1>18, <1>19, <1>20, PageNext, CoinsNext, RowsNext
<1>22. TypeOK'
  BY <1>1, <1>2, <1>3, <1>10, <1>12 DEF TypeOK, World, NetTypes, Tasks
<1> QED BY <1>2, <1>10, <1>20, <1>21, <1>22 DEF ActionInv

-----------------------------------------------------------------------------
(***************************************************************************)
(* The network, and the stop of a task.                                    *)
(***************************************************************************)
LEMMA OutsideInv ==
  ASSUME ActionInv, World, db' = db, monitor' = monitor \/ monitor' = Waiting
  PROVE  ActionInv'
<1>1. PICK e, m : e = db /\ m = monitor'
  OBVIOUS
<1>2. TypeOK /\ CoinInv(e) /\ RowInv(e) /\ PageInv(e, monitor)
  BY <1>1 DEF ActionInv
<1>3. PageInv(e, m) /\ m \in [task : Tasks \cup {None}, page : Pages, proof : Txs \cup {None}]
  BY <1>1, <1>2, WaitingInv DEF TypeOK
<1>4. CoinInv(e)' /\ RowInv(e)' /\ PageInv(e, m)'
  BY <1>2, <1>3, CoinsNext, RowsNext, PageNext
<1>5. TypeOK'
  BY <1>1, <1>2, <1>3 DEF TypeOK, World, NetTypes, Tasks
<1> QED BY <1>1, <1>4, <1>5 DEF ActionInv

LEMMA InitInv ==
  ASSUME Init
  PROVE  ActionInv
<1>1. PICK e : e = db
  OBVIOUS
<1>2. /\ e.tx = [t \in Txs |-> None] /\ e.req = [t \in Txs |-> NoReq]
      /\ e.linked = [t \in Txs |-> FALSE]
      /\ e.spendable = [c \in Coins |-> c \in Funds]
      /\ e.spentBy = [c \in Coins |-> None]
  BY <1>1 DEF Init
<1>3. db \in Stores
  <2>1. [t \in Txs |-> NoReq] \in [Txs -> Reqs]
    BY NoReqType
  <2>2. [t \in Txs |-> None] \in [Txs -> TxStatus]
    BY DEF TxStatus
  <2> QED BY <2>1, <2>2 DEF Init, Stores
<1>4. TypeOK
  BY <1>3, WaitingInv DEF Init, TypeOK
<1>5. CoinInv(e)
  BY <1>2, NoneApart DEF CoinInv, CoinOK, Coins
<1>6. RowInv(e)
  BY <1>2, NoneApart DEF RowInv, RowOK, NoReq, Init, None
<1> QED BY <1>1, <1>4, <1>5, <1>6, WaitingInv DEF ActionInv, Init

LEMMA NextInv ==
  ASSUME ActionInv, [Next]_vars
  PROVE  ActionInv'
<1>1. TypeOK
  BY DEF ActionInv
<1>2. CASE UNCHANGED vars
  BY <1>1, <1>2, SameWorld, OutsideInv DEF vars, network, TypeOK
<1>3. ASSUME NEW t \in Txs, Calls(t) PROVE ActionInv'
  BY <1>3, CreateActionInv, ProcessActionInv, SendWithInv, AbortActionInv, RequestUnfailInv DEF Calls
<1>4. ASSUME NEW t \in Txs, TaskStep(t) PROVE ActionInv'
  BY <1>4, SendWaitingInv, MergeFailsInv, ProofStepInv, ProofFoundInv, ApplyProofInv, UnFailInv DEF TaskStep
<1>5. ASSUME NEW t \in Txs, ReviewDoubleSpend(t) \/ FailAbandoned(t) PROVE ActionInv'
  BY <1>5, ReviewDoubleSpendInv, FailAbandonedInv
<1>6. ASSUME NEW t \in Txs, NetAccept(t) PROVE ActionInv'
  <2>1. World
    BY <1>1, <1>6, AcceptedWorld DEF NetAccept, TypeOK
  <2> QED BY <1>6, <2>1, OutsideInv DEF NetAccept
<1>7. ASSUME NEW t \in Txs, NetMine(t) PROVE ActionInv'
  <2>1. World
    BY <1>1, <1>7 DEF NetMine, World, TypeOK, NetTypes
  <2> QED BY <1>7, <2>1, OutsideInv DEF NetMine
<1>8. ASSUME NEW c \in Funds, NetRival(c) PROVE ActionInv'
  <2>1. World
    BY <1>1, <1>8 DEF NetRival, World, TypeOK, NetTypes
  <2> QED BY <1>8, <2>1, OutsideInv DEF NetRival
<1>9. CASE Crash
  <2>1. World
    BY <1>1, <1>9, SameWorld DEF Crash, TypeOK
  <2> QED BY <1>9, <2>1, OutsideInv DEF Crash
<1>10. ASSUME NEW task \in TaskNames, ReadPage(task) PROVE ActionInv'
  BY <1>10, ReadPageInv
<1> QED BY <1>2, <1>3, <1>4, <1>5, <1>6, <1>7, <1>8, <1>9, <1>10, ReviewStatusInv DEF Next

-----------------------------------------------------------------------------
(***************************************************************************)
(* A coin of the wallet that nobody holds and that is not offered is not   *)
(* offered by the step either.                                             *)
(***************************************************************************)
StaleKept(d, e) ==
    \A c \in Funds : d.spentBy[c] = None /\ ~d.spendable[c] => ~e.spendable[c]

LEMMA StaleSame ==
  ASSUME NEW d, NEW e, \A c \in Funds : e.spendable[c] = d.spendable[c]
  PROVE  StaleKept(d, e)
BY DEF StaleKept

LEMMA StaleFailed ==
  ASSUME NEW d, NEW e, NEW t \in Txs, Failed(d, e, t)
  PROVE  StaleKept(d, e)
BY NoneApart DEF StaleKept, Failed, Coins

LEMMA StaleRestored ==
  ASSUME NEW d, NEW e, NEW S \in SUBSET Txs, NEW v, Restored(d, e, S, v)
  PROVE  StaleKept(d, e)
BY DistinctNames DEF StaleKept, Restored, Coins

LEMMA StaleUpdated ==
  ASSUME NEW d \in Stores, NEW t \in Txs
  PROVE  StaleKept(d, UpdateTransactionStatus(d, t, "failed"))
<1>1. PICK e : e = UpdateTransactionStatus(d, t, "failed")
  OBVIOUS
<1>2. e = d \/ Failed(d, e, t)
  BY <1>1, UpdateFields DEF TxStatus
<1> QED BY <1>1, <1>2, StaleFailed, StaleSame

LEMMA StaleAttempt ==
  ASSUME NEW d, NEW t \in Txs, NEW r, Ready(d, t, r), NEW result \in Results, NEW answered
  PROVE  StaleKept(d, AttemptToPost(d, t, r, result, answered))
<1>1. d \in Stores /\ r \in Reqs /\ AppliesResult(r)
  BY DEF Ready, AppliesResult, Sendable
<1>2. PICK e : e = AttemptToPost(d, t, r, result, answered)
  OBVIOUS
<1>3. PICK q \in Reqs : Posted(d, e, t, q, result)
  BY <1>1, <1>2, AttemptFields
<1>4. SameCoins(d, e) \/ Failed(d, e, t)
  BY <1>3 DEF Posted
<1> QED BY <1>2, <1>4, StaleSame, StaleFailed DEF SameCoins

LEMMA StaleShare ==
  ASSUME NEW d, NEW t \in Txs, NEW delayed, Ready(d, t, d.req[t]), Share(d, t, delayed)
  PROVE  StaleKept(d, db')
<1>1. StaleKept(d, d)
  BY StaleSame
<1>2. StaleKept(d, Scheduled(d, t))
  <2>1. d \in Stores
    BY DEF Ready
  <2>2. Scheduled(d, t).spendable = d.spendable
    BY <2>1 DEF Scheduled, Stores
  <2> QED BY <2>2, StaleSame
<1>3. ASSUME Merges, NEW p \in MergeFailed(d, t, d.req[t]) PROVE StaleKept(d, WriteReq(d, t, p))
  BY <1>3, MergeFailedSent, StaleSame DEF SameCoins
<1> QED BY <1>1, <1>2, <1>3, StaleAttempt DEF Share

LEMMA StaleWritten ==
  ASSUME NEW d \in Stores, NEW t \in Txs, NEW r
  PROVE  WriteReq(d, t, r).spendable = d.spendable /\ WriteReq(d, t, r).spentBy = d.spentBy
BY DEF WriteReq, Stores

LEMMA StaleCalls ==
  ASSUME ActionInv, NEW t \in Txs, Calls(t)
  PROVE  StaleKept(db, db')
<1>1. /\ db \in Stores /\ CoinInv(db) /\ RowOK(t, db.tx[t], db.req[t], db.linked[t])
      /\ db.req[t] \in Reqs
  BY StepContext
<1>2. t \notin Funds
  BY DistinctNames
<1>3. ASSUME NEW c \in Coins, CreateAction(t, c) PROVE StaleKept(db, db')
  <2>1. db.spendable[c]
    BY <1>3 DEF CreateAction, Fundable
  <2>2. db'.spendable = [db.spendable EXCEPT ![c] = FALSE, ![t] = TRUE]
    BY <1>1, <1>3 DEF CreateAction, Claim, Stores
  <2>3. ASSUME NEW k \in Funds, ~db.spendable[k] PROVE ~db'.spendable[k]
    BY <2>1, <2>2, <2>3, <1>1, <1>2, StoreFields DEF Coins
  <2> QED BY <2>3 DEF StaleKept
<1>4. ASSUME NEW mode \in Modes, ProcessAction(t, mode) PROVE StaleKept(db, db')
  <2>1. PICK d : d = Committed(t, mode)
    OBVIOUS
  <2>2. ReadyToSend(d, t) => Ready(d, t, d.req[t])
    BY <1>4, <2>1, CommittedReady DEF ProcessAction
  <2>3. d.spendable = [db.spendable EXCEPT ![t] = TRUE] /\ d.spentBy = db.spentBy
    BY <1>1, <2>1 DEF Committed, Stores
  <2>4. \A c \in Funds : d.spendable[c] = db.spendable[c] /\ d.spentBy[c] = db.spentBy[c]
    BY <1>1, <1>2, <2>3, StoreFields DEF Coins
  <2>5. db' = d \/ StaleKept(d, db')
    BY <1>4, <2>1, <2>2, StaleShare DEF ProcessAction
  <2> QED BY <2>4, <2>5 DEF StaleKept
<1>5. ASSUME NEW delayed \in BOOLEAN, SendWith(t, delayed) PROVE StaleKept(db, db')
  <2>1. db.req[t].status \in Sendable /\ ~db.req[t].proven
    BY <1>5 DEF SendWith, ReadyToSend, Sendable
  <2>2. db.tx[t] # None
    BY <1>1, <2>1 DEF RowOK, Sendable, None
  <2>3. Ready(db, t, db.req[t])
    BY <1>1, <2>1, <2>2 DEF Ready, RowOK, Sendable, None
  <2> QED BY <1>5, <2>3, StaleShare DEF SendWith
<1>6. ASSUME AbortAction(t) PROVE StaleKept(db, db')
  <2>1. PICK f : f = UpdateTransactionStatus(db, t, "failed")
    OBVIOUS
  <2>2. f \in Stores
    BY <1>1, <2>1, UpdateFields DEF TxStatus, Failed
  <2>3. db' = f \/ db' = WriteReq(f, t, SetStatus(db.req[t], "invalid"))
    BY <1>6, <2>1 DEF AbortAction
  <2>4. db'.spendable = f.spendable
    BY <2>2, <2>3, StaleWritten
  <2> QED BY <1>1, <2>1, <2>4, StaleUpdated DEF StaleKept
<1>7. ASSUME RequestUnfail(t) PROVE StaleKept(db, db')
  <2>1. db'.spendable = db.spendable
    BY <1>1, <1>7 DEF RequestUnfail, Stores
  <2> QED BY <2>1, StaleSame
<1> QED BY <1>3, <1>4, <1>5, <1>6, <1>7 DEF Calls

LEMMA StaleTasks ==
  ASSUME ActionInv, NEW t \in Txs, TaskStep(t)
  PROVE  StaleKept(db, db')
<1>1. /\ db \in Stores /\ CoinInv(db) /\ RowOK(t, db.tx[t], db.req[t], db.linked[t])
      /\ db.req[t] \in Reqs
  BY StepContext
<1>2. ASSUME SendWaiting(t) PROVE StaleKept(db, db')
  <2>1. t \in DOMAIN monitor.page /\ monitor.task = "SendWaiting"
    BY <1>2 DEF SendWaiting, InHand
  <2>2. PICK r : r = monitor.page[t]
    OBVIOUS
  <2>3. Ready(db, t, r)
    BY <2>1, <2>2, PageReady
  <2> QED BY <1>2, <2>2, <2>3, StaleAttempt DEF SendWaiting
<1>3. ASSUME MergeFails(t) \/ SettleWithoutProof(t) \/ ProofMissing(t) \/ ProofTooNew(t)
                \/ ProofFound(t)
      PROVE  StaleKept(db, db')
  <2>1. db' = db \/ \E r : db' = WriteReq(db, t, r)
    BY <1>3 DEF MergeFails, SettleWithoutProof, ProofMissing, ProofTooNew, ProofFound
  <2>2. db'.spendable = db.spendable
    BY <1>1, <2>1, StaleWritten
  <2> QED BY <2>2, StaleSame
<1>4. ASSUME ApplyProof(t) PROVE StaleKept(db, db')
  <2>1. PICK p : p = SetStatus(db.req[t], "completed")
    OBVIOUS
  <2>2. p \in Reqs
    BY <1>1, <2>1, SetStatusFields DEF ReqStatus
  <2>3. PICK r : r = [p EXCEPT !.proven = TRUE]
    OBVIOUS
  <2>4. r \in Reqs
    BY <2>2, <2>3 DEF Reqs
  <2>5. PICK f : f = WriteReq(db, t, r)
    OBVIOUS
  <2>6. f \in Stores /\ f.spendable = db.spendable /\ f.spentBy = db.spentBy
    BY <1>1, <2>4, <2>5, WriteReqFields, StaleWritten DEF ReqOnly
  <2>7. db' = f \/ \E v : db' = Reconcile(f, {t}, v)
    BY <1>4, <2>1, <2>3, <2>5 DEF ApplyProof
  <2>8. ASSUME NEW v, db' = Reconcile(f, {t}, v) PROVE StaleKept(f, db')
    <3>1. Reconciled(f, db', {t}, v)
      BY <2>6, <2>8, ReconcileFields
    <3>2. PICK g : Restored(f, g, {u \in {t} : f.tx[u] = "failed"}, v) /\ SameCoins(g, db')
      BY <3>1 DEF Reconciled
    <3>3. StaleKept(f, g)
      BY <3>2, StaleRestored
    <3> QED BY <3>2, <3>3 DEF StaleKept, SameCoins
  <2>9. StaleKept(f, db')
    BY <2>7, <2>8, StaleSame
  <2> QED BY <2>6, <2>9 DEF StaleKept
<1>5. ASSUME UnFail(t) PROVE StaleKept(db, db')
  <2>1. ASSUME NEW v, NEW q, db' = [RestoreForProof(db, {t}, v) EXCEPT !.req[t] = q]
        PROVE  StaleKept(db, db')
    <3>1. PICK f : f = RestoreForProof(db, {t}, v)
      OBVIOUS
    <3>2. Restored(db, f, {t}, v)
      BY <1>1, <3>1, RestoreFields
    <3>3. f \in Stores
      BY <3>2 DEF Restored
    <3>4. db'.spendable = f.spendable
      BY <2>1, <3>1, <3>3 DEF Stores
    <3>5. StaleKept(db, f)
      BY <3>2, StaleRestored
    <3> QED BY <3>4, <3>5 DEF StaleKept
  <2>2. ASSUME NEW r, db' = WriteReq(db, t, r) PROVE StaleKept(db, db')
    BY <1>1, <2>2, StaleWritten, StaleSame
  <2> QED BY <1>5, <2>1, <2>2 DEF UnFail
<1> QED BY <1>2, <1>3, <1>4, <1>5 DEF TaskStep

LEMMA StaleReview ==
  ASSUME ActionInv, ReviewStatus
  PROVE  StaleKept(db, db')
<1>1. db \in Stores /\ RowInv(db)
  BY DEF ActionInv, TypeOK
<1>2. PICK S : S = Unnotified
  OBVIOUS
<1>3. S \in SUBSET Txs /\ \A t \in S : db.req[t].status = "completed"
  BY <1>2 DEF Unnotified
<1>4. PICK v \in VerdictsOn(S) :
        db' = CompleteProven(KillDeadOutputs(FreeDeadInputs(FailInvalid(Reconcile(db, S, v)))))
  BY <1>2 DEF ReviewStatus
<1>5. PICK d : d = Reconcile(db, S, v)
  OBVIOUS
<1>6. Reconciled(db, d, S, v)
  BY <1>1, <1>3, <1>5, ReconcileFields
<1>7. d \in Stores
  BY <1>6 DEF Reconciled
<1>8. PICK e : e = db'
  OBVIOUS
<1>9. Reviewed(d, e)
  BY <1>4, <1>5, <1>7, <1>8, ReviewFields
<1>10. PICK f : Restored(db, f, {t \in S : db.tx[t] = "failed"}, v) /\ SameCoins(f, d)
  BY <1>6 DEF Reconciled
<1>11. ASSUME NEW c \in Funds, db.spentBy[c] = None, ~db.spendable[c]
       PROVE  ~e.spendable[c]
  <2>1. c \in Coins /\ c \notin Txs
    BY DistinctNames DEF Coins
  <2>2. ~d.spendable[c] /\ (d.spentBy[c] = None \/ d.spentBy[c] \in S)
    BY <1>3, <1>10, <1>11, <2>1 DEF Restored, SameCoins
  <2>3. d.spentBy[c] \in S => ~Buried(d, d.spentBy[c])
    <3> SUFFICES ASSUME NEW t \in S PROVE ~Buried(d, t)
      OBVIOUS
    <3>1. t \in Txs /\ db.req[t] \in Reqs
      BY <1>1, <1>3, StoreFields
    <3>2. d.tx[t] = "completed"
      BY <1>6, <3>1 DEF Reconciled
    <3>3. PICK n \in BOOLEAN : d.req[t] = [db.req[t] EXCEPT !.notified = n]
      BY <1>6, <3>1 DEF Reconciled
    <3>4. d.req[t].status = "completed"
      BY <1>3, <3>1, <3>3 DEF Reqs
    <3> QED BY <3>2, <3>4 DEF Buried, Fell
  <2> QED BY <1>9, <2>1, <2>2, <2>3, NoneApart DEF Reviewed
<1> QED BY <1>8, <1>11 DEF StaleKept

LEMMA StaleNext ==
  ASSUME ActionInv, [Next]_vars
  PROVE  StaleKept(db, db')
<1>1. db \in Stores
  BY DEF ActionInv, TypeOK
<1>2. CASE db' = db
  BY <1>2, StaleSame
<1>3. ASSUME NEW t \in Txs, ReviewDoubleSpend(t) PROVE StaleKept(db, db')
  <2>1. db'.spendable = db.spendable
    BY <1>1, <1>3 DEF ReviewDoubleSpend, Stores
  <2> QED BY <2>1, StaleSame
<1>4. ASSUME NEW t \in Txs, FailAbandoned(t) PROVE StaleKept(db, db')
  BY <1>1, <1>4, StaleUpdated DEF FailAbandoned
<1>5. \/ db' = db
      \/ \E t \in Txs : Calls(t) \/ TaskStep(t) \/ ReviewDoubleSpend(t) \/ FailAbandoned(t)
      \/ ReviewStatus
  BY DEF Next, NetAccept, NetMine, NetRival, ReadPage, Crash, vars
<1> QED BY <1>2, <1>3, <1>4, <1>5, StaleCalls, StaleTasks, StaleReview

-----------------------------------------------------------------------------
(***************************************************************************)
(* The theorems.                                                           *)
(***************************************************************************)
\* Whatever the network, the services and the process do, the rows and coins of
\* the store and the page of the Monitor agree as ActionInv says.
THEOREM ActionsSound == Spec => []ActionInv
<1>1. Init => ActionInv
  BY InitInv
<1>2. ActionInv /\ [Next]_vars => ActionInv'
  BY NextInv
<1> QED BY <1>1, <1>2, PTL DEF Spec

\* Every row, every coin and the Monitor's page keep their type: the attempts
\* and the rebroadcasts of a request stay within their limits.
THEOREM TypeCorrect == Spec => []TypeOK
<1>1. ActionInv => TypeOK
  BY DEF ActionInv
<1> QED BY <1>1, ActionsSound, PTL

\* A coin nobody has spent is reserved by an action or offered, through every
\* failure, abort, review and recovery, in every environment.
THEOREM CoinsRemembered == Spec => []NoCoinForgotten
<1>1. ActionInv => NoCoinForgotten
  BY DEF ActionInv, CoinInv, CoinOK, NoCoinForgotten, Coins
<1> QED BY <1>1, ActionsSound, PTL

\* A coin that somebody else has spent, once set aside, is never offered again.
THEOREM StaleStayDead == Spec => StaleInputsStayDead
<1>1. ActionInv /\ [Next]_vars =>
        [\A c \in rivals : db.spentBy[c] = None /\ ~db.spendable[c] => ~db'.spendable[c]]_vars
  <2> SUFFICES ASSUME ActionInv, [Next]_vars, NEW c \in rivals,
                      db.spentBy[c] = None, ~db.spendable[c]
               PROVE  ~db'.spendable[c]
    OBVIOUS
  <2>1. c \in Funds
    BY DEF ActionInv, TypeOK
  <2> QED BY <2>1, StaleNext DEF StaleKept
<1> QED BY <1>1, ActionsSound, PTL DEF Spec, StaleInputsStayDead

\* Unless a task is stopped between its two writes, an action with a proof is
\* completed in both rows, and mined: aborts, stale pages, interrupted calls,
\* outages and refusals do not tear them apart.
THEOREM ProofsSettled == Spec => []("task" \notin Crashes => ProofSettled)
<1>1. ActionInv => ("task" \notin Crashes => ProofSettled)
  BY DEF ActionInv, RowInv, RowOK, ProofSettled
<1> QED BY <1>1, ActionsSound, PTL
=============================================================================
