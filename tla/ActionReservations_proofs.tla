----------------------- MODULE ActionReservations_proofs --------------------
(***************************************************************************)
(* Reservations and failures, when the services answer, BEEFs are merged,  *)
(* and proof timeouts never give a broadcast transaction up                *)
(* (maxRebroadcastAttempts is 0).  A coin is never reserved by a failed    *)
(* action, and change of a failed action is never offered.                 *)
(*                                                                         *)
(* The hard case is a failed action whose change is held: TaskUnFail or a  *)
(* late proof has brought its child back.  If the child failed again, its  *)
(* input would be freed without a look at the parent.  So it must not fail *)
(* again: it is mined, and its rows and the page of the Monitor say that   *)
(* it was broadcast, so that no write can give it up.                      *)
(*                                                                         *)
(* The second part is about a calm environment: the services answer and    *)
(* accept, no call is interrupted, and no task looks for nosend actions.   *)
(* There an action that is begun lays claim to its input until it is given *)
(* up for good, and no two actions lay claim to one coin.  The hard case   *)
(* is a claimant that is failed and may yet come back: its input must not  *)
(* be offered meanwhile.  It is set aside, because only a transaction that *)
(* the network can never accept is refused, and its input is no UTXO.      *)
(***************************************************************************)
EXTENDS ActionLifecycle_proofs

\* The rows of u, and the copy a task may have of them, keep u from failing.
Secure(d, m, u) ==
    /\ d.tx[u] \in {"unproven", "sending", "completed"}
    /\ d.req[u].wasBroadcast
    /\ d.req[u].status \in {"unsent", "sending", "unmined", "completed"}
    /\ u \in DOMAIN m.page => /\ m.page[u].wasBroadcast
                              /\ m.page[u].status \in {"unsent", "sending", "unmined"}

\* No failed action holds a coin; change of a failed action is not offered, and
\* is held only by an action that cannot fail.
HeldOK(d, m, c) ==
    /\ d.spentBy[c] \in Txs => d.tx[d.spentBy[c]] # "failed"
    /\ c \in Txs /\ d.tx[c] = "failed" => /\ ~d.spendable[c]
                                          /\ d.spentBy[c] \in Txs => Secure(d, m, d.spentBy[c])

HeldInv(d, m) == \A c \in Coins : HeldOK(d, m, c)

\* The services answer and BEEFs are merged.
Steady == ~Outages /\ ~Merges

\* A request that is completed has been broadcast.
Broadcasted(d) == \A t \in Txs : d.req[t].status = "completed" => d.req[t].wasBroadcast

ReservationInv == (Steady => HeldInv(db, monitor)) /\ Broadcasted(db)

-----------------------------------------------------------------------------
(***************************************************************************)
(* Writes to the rows of one action t.                                     *)
(***************************************************************************)
\* Page n has nothing new but the request of t.
Shrinks(m, n, t) ==
    \A u \in DOMAIN n.page : u # t => u \in DOMAIN m.page /\ n.page[u] = m.page[u]

\* Coin c is freed, taken by t, or left with its holder.
Moved(d, e, n, t, c) ==
    \/ /\ e.spentBy[c] = None
       /\ c \in Txs /\ e.tx[c] = "failed" => ~e.spendable[c]
    \/ /\ e.spentBy[c] = t /\ e.tx[t] # "failed"
       /\ c \in Txs /\ e.tx[c] = "failed" => ~e.spendable[c] /\ Secure(e, n, t)
    \/ /\ e.spentBy[c] = d.spentBy[c]
       /\ d.spentBy[c] = t => e.tx[t] # "failed"
       /\ c \in Txs /\ e.tx[c] = "failed" =>
             d.tx[c] = "failed" /\ (e.spendable[c] => d.spendable[c])

LEMMA HeldMoves ==
  ASSUME NEW d, NEW e, NEW m, NEW n, NEW t \in Txs, HeldInv(d, m), CoinInv(d),
         RowsBut(d, e, t), Shrinks(m, n, t),
         Secure(d, m, t) /\ net[t] = "mined" => Secure(e, n, t),
         \A c \in Coins : Moved(d, e, n, t, c)
  PROVE  HeldInv(e, n)
<1> SUFFICES ASSUME NEW c \in Coins PROVE HeldOK(e, n, c)
  BY DEF HeldInv
<1>1. HeldOK(d, m, c) /\ CoinOK(d, c)
  BY DEF HeldInv, CoinInv
<1>2. CASE e.spentBy[c] = None /\ (c \in Txs /\ e.tx[c] = "failed" => ~e.spendable[c])
  BY <1>2, NoneApart DEF HeldOK
<1>3. CASE /\ e.spentBy[c] = t /\ e.tx[t] # "failed"
           /\ c \in Txs /\ e.tx[c] = "failed" => ~e.spendable[c] /\ Secure(e, n, t)
  BY <1>3 DEF HeldOK
<1>4. CASE /\ e.spentBy[c] = d.spentBy[c]
           /\ d.spentBy[c] = t => e.tx[t] # "failed"
           /\ c \in Txs /\ e.tx[c] = "failed" =>
                 d.tx[c] = "failed" /\ (e.spendable[c] => d.spendable[c])
  <2>1. ASSUME d.spentBy[c] \in Txs PROVE e.tx[d.spentBy[c]] # "failed"
    BY <2>1, <1>1, <1>4 DEF HeldOK, RowsBut
  <2>2. ASSUME c \in Txs, e.tx[c] = "failed", d.spentBy[c] \in Txs
        PROVE  Secure(e, n, d.spentBy[c])
    <3>1. PICK u \in Txs : u = d.spentBy[c]
      BY <2>2
    <3>2. Secure(d, m, u) /\ net[u] = "mined"
      BY <2>2, <3>1, <1>1, <1>4 DEF HeldOK, CoinOK, Gone
    <3>3. CASE u = t
      BY <3>1, <3>2, <3>3
    <3>4. CASE u # t
      <4>1. e.tx[u] = d.tx[u] /\ e.req[u] = d.req[u]
        BY <3>4 DEF RowsBut
      <4>2. u \in DOMAIN n.page => u \in DOMAIN m.page /\ n.page[u] = m.page[u]
        BY <3>4 DEF Shrinks
      <4> QED BY <3>1, <3>2, <4>1, <4>2 DEF Secure
    <3> QED BY <3>3, <3>4
  <2> QED BY <2>1, <2>2, <1>1, <1>4 DEF HeldOK
<1> QED BY <1>2, <1>3, <1>4 DEF Moved

LEMMA HeldSame ==
  ASSUME NEW d, NEW e, NEW m, NEW n, NEW t \in Txs, HeldInv(d, m), CoinInv(d),
         RowsBut(d, e, t), Shrinks(m, n, t), SameCoins(d, e),
         e.tx[t] = "failed" => d.tx[t] = "failed",
         Secure(d, m, t) /\ net[t] = "mined" => Secure(e, n, t)
  PROVE  HeldInv(e, n)
<1>1. ASSUME NEW c \in Coins PROVE Moved(d, e, n, t, c)
  <2>1. e.spentBy[c] = d.spentBy[c] /\ e.spendable[c] = d.spendable[c]
    BY DEF SameCoins
  <2>2. d.spentBy[c] = t => d.tx[t] # "failed"
    BY DEF HeldInv, HeldOK
  <2>3. c \in Txs /\ e.tx[c] = "failed" => d.tx[c] = "failed"
    BY DEF RowsBut
  <2> QED BY <2>1, <2>2, <2>3 DEF Moved
<1> QED BY <1>1, HeldMoves

\* Failing t frees what it holds, which is no change of a failed action.
LEMMA HeldFailed ==
  ASSUME NEW d, NEW e, NEW m, NEW n, NEW t \in Txs, HeldInv(d, m), CoinInv(d),
         RowsBut(d, e, t), Shrinks(m, n, t), Failed(d, e, t),
         ~(Secure(d, m, t) /\ net[t] = "mined")
  PROVE  HeldInv(e, n)
<1>1. ASSUME NEW c \in Coins PROVE Moved(d, e, n, t, c)
  <2>1. /\ e.spentBy[c] = IF c = t \/ d.spentBy[c] = t THEN None ELSE d.spentBy[c]
        /\ e.spendable[c] => c # t /\ (d.spendable[c] \/ d.spentBy[c] = t)
    BY DEF Failed
  <2>2. c \in Txs /\ c # t => e.tx[c] = d.tx[c]
    BY DEF RowsBut
  <2>3. CASE c = t
    BY <2>1, <2>3 DEF Moved
  <2>4. CASE c # t /\ d.spentBy[c] = t
    <3>1. ~(c \in Txs /\ d.tx[c] = "failed")
      BY <2>4 DEF HeldInv, HeldOK, CoinInv, CoinOK, Gone
    <3> QED BY <2>1, <2>2, <2>4, <3>1 DEF Moved
  <2>5. CASE c # t /\ d.spentBy[c] # t
    BY <2>1, <2>2, <2>5 DEF Moved
  <2> QED BY <2>3, <2>4, <2>5
<1> QED BY <1>1, HeldMoves

(***************************************************************************)
(* Recoveries and the review.                                              *)
(***************************************************************************)
LEMMA HeldReconciled ==
  ASSUME NEW d, NEW e, NEW m, NEW n, NEW S \in SUBSET Txs, NEW v, HeldInv(d, m),
         Reconciled(d, e, S, v), \A t \in S : Secure(e, n, t),
         \A u \in DOMAIN n.page : u \notin S => u \in DOMAIN m.page /\ n.page[u] = m.page[u]
  PROVE  HeldInv(e, n)
<1> DEFINE F == {t \in S : d.tx[t] = "failed"}
<1>1. PICK f : Restored(d, f, F, v) /\ SameCoins(f, e)
  BY DEF Reconciled
<1>2. \A t \in Txs : /\ e.tx[t] = IF t \in S THEN "completed" ELSE d.tx[t]
                     /\ t \notin S => e.req[t] = d.req[t]
  BY DEF Reconciled
<1> SUFFICES ASSUME NEW c \in Coins PROVE HeldOK(e, n, c)
  BY DEF HeldInv
<1>3. HeldOK(d, m, c)
  BY DEF HeldInv
<1>4. CASE ~e.spendable[c] /\ e.spentBy[c] \in F
  BY <1>2, <1>4 DEF HeldOK
<1>5. CASE e.spentBy[c] = d.spentBy[c] /\ (c \notin F => e.spendable[c] = d.spendable[c])
  <2>1. c \in Txs /\ e.tx[c] = "failed" => c \notin S /\ d.tx[c] = "failed" /\ ~d.spendable[c]
    BY <1>2, <1>3 DEF HeldOK
  <2>2. ASSUME NEW u \in Txs, d.spentBy[c] = u PROVE e.tx[u] # "failed"
    BY <2>2, <1>2, <1>3 DEF HeldOK
  <2>3. ASSUME NEW u \in Txs, d.spentBy[c] = u, Secure(d, m, u) PROVE Secure(e, n, u)
    <3>1. CASE u \in S
      BY <3>1
    <3>2. CASE u \notin S
      <4>1. e.tx[u] = d.tx[u] /\ e.req[u] = d.req[u]
        BY <3>2, <1>2
      <4>2. u \in DOMAIN n.page => u \in DOMAIN m.page /\ n.page[u] = m.page[u]
        BY <3>2
      <4> QED BY <2>3, <4>1, <4>2 DEF Secure
    <3> QED BY <3>1, <3>2
  <2> QED BY <2>1, <2>2, <2>3, <1>3, <1>5 DEF HeldOK
<1> QED BY <1>1, <1>4, <1>5 DEF Restored, SameCoins

LEMMA HeldReviewed ==
  ASSUME NEW d, NEW e, NEW m, HeldInv(d, m), Reviewed(d, e)
  PROVE  HeldInv(e, m)
<1> SUFFICES ASSUME NEW c \in Coins PROVE HeldOK(e, m, c)
  BY DEF HeldInv
<1>1. HeldOK(d, m, c)
  BY DEF HeldInv
<1>2. /\ e.req = d.req
      /\ \A t \in Txs : e.tx[t] = IF d.req[t].proven /\ ~d.linked[t] THEN "completed"
                                  ELSE IF d.req[t].status = "invalid" THEN "failed" ELSE d.tx[t]
  BY DEF Reviewed
<1>3. ASSUME NEW u \in Txs, Secure(d, m, u) PROVE Secure(e, m, u)
  BY <1>2, <1>3 DEF Secure
<1>4. \A u \in Txs : e.tx[u] = "failed" => Fell(d, u)
  BY <1>2 DEF Fell
<1>5. CASE ~e.spendable[c] /\ e.spentBy[c] = None
  BY <1>5, NoneApart DEF HeldOK
<1>6. CASE ~(c \in Txs /\ Fell(d, c)) /\ e.spentBy[c] = None
  BY <1>4, <1>6, NoneApart DEF HeldOK
<1>7. CASE /\ ~(c \in Txs /\ Buried(d, c))
           /\ d.spentBy[c] \in Txs /\ Buried(d, d.spentBy[c]) => c \in Txs /\ Fell(d, c)
           /\ e.spendable[c] <=> d.spendable[c]
           /\ e.spentBy[c] = d.spentBy[c]
  <2>1. c \in Txs /\ Fell(d, c) => d.tx[c] = "failed"
    BY <1>7 DEF Fell, Buried
  <2>2. ASSUME NEW u \in Txs, d.spentBy[c] = u PROVE e.tx[u] # "failed"
    <3>1. d.tx[u] # "failed"
      BY <2>2, <1>1 DEF HeldOK
    <3>2. CASE d.req[u].status = "invalid"
      <4>1. Buried(d, u)
        BY <3>2 DEF Buried, Fell
      <4>2. Secure(d, m, u)
        BY <4>1, <2>1, <2>2, <1>1, <1>7 DEF HeldOK
      <4> QED BY <4>2, <3>2 DEF Secure
    <3>3. CASE d.req[u].status # "invalid"
      BY <3>1, <3>3, <1>2
    <3> QED BY <3>2, <3>3
  <2> QED BY <2>1, <2>2, <1>1, <1>3, <1>4, <1>7 DEF HeldOK
<1> QED BY <1>5, <1>6, <1>7 DEF Reviewed

-----------------------------------------------------------------------------
(***************************************************************************)
(* The steps.                                                              *)
(***************************************************************************)
LEMMA HeldStep ==
  ASSUME ReservationInv, env' = env, NEW t \in Txs, NEW e, NEW n, db' = e, monitor' = n,
         RowsBut(db, e, t), e.req[t].status = "completed" => e.req[t].wasBroadcast,
         Steady => HeldInv(e, n)
  PROVE  ReservationInv'
<1>1. Broadcasted(e)
  BY DEF ReservationInv, Broadcasted, RowsBut
<1>2. Steady' = Steady
  BY DEF Steady, Outages, Merges
<1> QED BY <1>1, <1>2 DEF ReservationInv

\* A transaction that is mined is not failed by a posting, if the services answer.
LEMMA PostHeld ==
  ASSUME NEW d, NEW m, NEW n, NEW t \in Txs, NEW r, Ready(d, t, r), NEW result \in Results,
         NEW answered, Posting(t, result), ~Outages, HeldInv(d, m), Shrinks(m, n, t),
         Secure(d, m, t) => r.wasBroadcast,
         t \in DOMAIN n.page => t \in DOMAIN m.page /\ n.page[t] = m.page[t]
  PROVE  HeldInv(AttemptToPost(d, t, r, result, answered), n)
<1>1. d \in Stores /\ r \in Reqs /\ AppliesResult(r) /\ CoinInv(d)
  BY DEF Ready, AppliesResult, Sendable
<1>2. PICK e : e = AttemptToPost(d, t, r, result, answered)
  OBVIOUS
<1>3. PICK q \in Reqs : Posted(d, e, t, q, result) /\ Answered(d, t, r, q, result)
  BY <1>1, <1>2, AttemptFields
<1>4. RowsBut(d, e, t)
  BY <1>2, AttemptSent DEF Sent
<1>5. e.req[t] = q
  BY <1>1, <1>3, StoreFields DEF Posted
<1>6. result \in {"doubleSpend", "invalidTx"} => net[t] # "mined"
  BY DEF Posting, Known
<1>7. ASSUME Secure(d, m, t), net[t] = "mined",
             e.tx[t] \in {d.tx[t], "unproven", "sending"}
      PROVE  Secure(e, n, t)
  <2>1. result \in {"success", "serviceError"}
    BY <1>6, <1>7 DEF Results
  <2>2. q.wasBroadcast /\ q.status \in {"unmined", "sending"}
    BY <1>3, <1>7, <2>1 DEF Answered, StatusAfter
  <2> QED BY <2>2, <1>5, <1>7 DEF Secure
<1>8. CASE SameTxs(d, e) /\ SameCoins(d, e)
  <2>1. e.tx[t] = d.tx[t]
    BY <1>8 DEF SameTxs
  <2>2. HeldInv(e, n)
    BY <2>1, <1>1, <1>4, <1>7, <1>8, HeldSame
  <2> QED BY <2>2, <1>2
<1>9. ASSUME NEW s \in {"unproven", "sending"}, e.tx = [d.tx EXCEPT ![t] = s], SameCoins(d, e)
      PROVE  HeldInv(e, n)
  <2>1. e.tx[t] = s
    BY <1>1, <1>9, StoreFields
  <2> QED BY <2>1, <1>1, <1>4, <1>7, <1>9, HeldSame
<1>10. CASE result \in {"doubleSpend", "invalidTx"} /\ Failed(d, e, t)
  <2>1. HeldInv(e, n)
    BY <1>1, <1>4, <1>6, <1>10, HeldFailed
  <2> QED BY <2>1, <1>2
<1> QED BY <1>2, <1>3, <1>8, <1>9, <1>10 DEF Posted

LEMMA PostStatus ==
  ASSUME NEW d, NEW t \in Txs, NEW r, Ready(d, t, r), NEW result \in Results, NEW answered
  PROVE  AttemptToPost(d, t, r, result, answered).req[t].status # "completed"
<1>1. d \in Stores /\ r \in Reqs /\ AppliesResult(r)
  BY DEF Ready, AppliesResult, Sendable
<1>2. PICK e : e = AttemptToPost(d, t, r, result, answered)
  OBVIOUS
<1>3. PICK q \in Reqs : Posted(d, e, t, q, result) /\ Answered(d, t, r, q, result)
  BY <1>1, <1>2, AttemptFields
<1>4. e.req[t] = q
  BY <1>1, <1>3, StoreFields DEF Posted
<1> QED BY <1>2, <1>3, <1>4 DEF Answered, StatusAfter, Results

LEMMA MergeFailedStatus ==
  ASSUME NEW d \in Stores, NEW t \in Txs, NEW r \in Reqs, r.status # "completed",
         NEW p \in MergeFailed(d, t, r)
  PROVE  WriteReq(d, t, p).req[t].status # "completed"
<1>1. p \in Reqs /\ p.status # "completed"
  BY MergeFailedFields
<1>2. PICK e : e = WriteReq(d, t, p)
  OBVIOUS
<1>3. PICK q \in Reqs : ReqOnly(d, e, t, q) /\ q.status = p.status
  BY <1>1, <1>2, WriteReqFields
<1>4. e.req[t] = q
  BY <1>3, StoreFields DEF ReqOnly
<1> QED BY <1>1, <1>2, <1>3, <1>4

LEMMA ShareHeld ==
  ASSUME NEW d, NEW t \in Txs, NEW delayed, Ready(d, t, d.req[t]), Share(d, t, delayed),
         NEW e, db' = e, NEW m
  PROVE  /\ e.req[t].status # "completed"
         /\ Steady /\ HeldInv(d, m) => HeldInv(e, m)
<1>1. d \in Stores /\ CoinInv(d) /\ d.req[t] \in Reqs /\ d.req[t].status \in Sendable
  BY DEF Ready
<1>2. Shrinks(m, m, t)
  BY DEF Shrinks
<1>3. CASE e = d
  BY <1>1, <1>3 DEF Sendable
<1>4. CASE e = Scheduled(d, t)
  <2>1. PICK q : q = [d.req[t] EXCEPT !.status = "unsent"]
    OBVIOUS
  <2>2. q.status = "unsent" /\ q.wasBroadcast = d.req[t].wasBroadcast
    BY <1>1, <2>1 DEF Reqs
  <2>3. /\ e.req = [d.req EXCEPT ![t] = q] /\ e.tx = [d.tx EXCEPT ![t] = "sending"]
        /\ SameCoins(d, e)
    BY <1>1, <1>4, <2>1 DEF Scheduled, Stores, SameCoins
  <2>4. e.req[t] = q /\ e.tx[t] = "sending"
    BY <1>1, <2>3, StoreFields
  <2>5. RowsBut(d, e, t)
    BY <1>4, ScheduledSent DEF Sent
  <2>6. Secure(d, m, t) => Secure(e, m, t)
    BY <2>2, <2>4 DEF Secure
  <2>7. HeldInv(d, m) => HeldInv(e, m)
    BY <1>1, <1>2, <2>3, <2>4, <2>5, <2>6, HeldSame
  <2> QED BY <2>2, <2>4, <2>7
<1>5. ASSUME NEW result \in Results, NEW answered, Posting(t, result),
             e = AttemptToPost(d, t, d.req[t], result, answered)
      PROVE  /\ e.req[t].status # "completed"
             /\ Steady /\ HeldInv(d, m) => HeldInv(e, m)
  <2>1. Secure(d, m, t) => d.req[t].wasBroadcast
    BY DEF Secure
  <2>2. e.req[t].status # "completed"
    BY <1>5, PostStatus
  <2>3. ASSUME Steady, HeldInv(d, m) PROVE HeldInv(e, m)
    BY <1>2, <1>5, <2>1, <2>3, PostHeld DEF Steady
  <2> QED BY <2>2, <2>3
<1>6. ASSUME Merges, NEW p \in MergeFailed(d, t, d.req[t]), e = WriteReq(d, t, p)
      PROVE  e.req[t].status # "completed"
  BY <1>1, <1>6, MergeFailedStatus DEF Sendable
<1> QED BY <1>3, <1>4, <1>5, <1>6 DEF Share, Steady

LEMMA CommittedHeld ==
  ASSUME ActionInv, NEW t \in Txs, NEW mode \in Modes, db.tx[t] \in {"unsigned", "unprocessed"}
  PROVE  LET d == Committed(t, mode)
         IN /\ Steady /\ HeldInv(db, monitor) => HeldInv(d, monitor)
            /\ d.req[t].status # "completed"
<1>1. PICK d : d = Committed(t, mode)
  OBVIOUS
<1>2. Sent(d, d, t) /\ RowsBut(db, d, t)
  BY <1>1, CommittedReady
<1>3. db \in Stores /\ CoinInv(db)
  BY StepContext
<1>4. /\ d.spendable = [db.spendable EXCEPT ![t] = TRUE] /\ d.spentBy = db.spentBy
      /\ d.tx = [db.tx EXCEPT ![t] = IF mode = "noSend" THEN "nosend" ELSE "unprocessed"]
  BY <1>1, <1>3 DEF Committed, Stores
<1>5. d.tx[t] # "failed" /\ \A c \in Coins : c # t => d.spendable[c] = db.spendable[c]
  BY <1>3, <1>4, StoreFields
<1>6. ASSUME NEW c \in Coins PROVE Moved(db, d, monitor, t, c)
  BY <1>2, <1>4, <1>5 DEF Moved, RowsBut
<1>7. Shrinks(monitor, monitor, t) /\ ~Secure(db, monitor, t)
  BY DEF Shrinks, Secure
<1>8. HeldInv(db, monitor) => HeldInv(d, monitor)
  BY <1>2, <1>3, <1>6, <1>7, HeldMoves
<1>9. d.req[t].status # "completed"
  BY <1>2 DEF Sent, RowOK
<1> QED BY <1>1, <1>8, <1>9

LEMMA ProcessActionHeld ==
  ASSUME ActionInv, ReservationInv, NEW t \in Txs, NEW mode \in Modes, ProcessAction(t, mode)
  PROVE  ReservationInv'
<1>1. db.tx[t] \in {"unsigned", "unprocessed"} /\ env' = env /\ monitor' = monitor
  BY DEF ProcessAction
<1>2. PICK d : d = Committed(t, mode)
  OBVIOUS
<1>3. PICK e : e = db'
  OBVIOUS
<1>4. (ReadyToSend(d, t) => Ready(d, t, d.req[t])) /\ RowsBut(db, d, t)
  BY <1>1, <1>2, CommittedReady
<1>5. /\ Steady /\ HeldInv(db, monitor) => HeldInv(d, monitor)
      /\ d.req[t].status # "completed"
  BY <1>1, <1>2, CommittedHeld
<1>6. \/ e = d
      \/ ReadyToSend(d, t) /\ Share(d, t, mode = "delayed")
  BY <1>2, <1>3 DEF ProcessAction
<1>7. /\ RowsBut(d, e, t) /\ e.req[t].status # "completed"
      /\ Steady /\ HeldInv(d, monitor) => HeldInv(e, monitor)
  <2>1. CASE e = d
    BY <2>1, <1>5 DEF RowsBut
  <2>2. CASE ReadyToSend(d, t) /\ Share(d, t, mode = "delayed")
    <3>1. TypeOK /\ UNCHANGED <<input, rivals, env>>
      BY DEF ActionInv, ProcessAction
    <3>2. RowsBut(d, e, t)
      BY <2>2, <3>1, <1>3, <1>4, ShareSent DEF Sent
    <3> QED BY <2>2, <3>2, <1>3, <1>4, ShareHeld
  <2> QED BY <2>1, <2>2, <1>6
<1>8. RowsBut(db, e, t)
  BY <1>4, <1>7 DEF RowsBut
<1>9. Steady => HeldInv(e, monitor)
  BY <1>5, <1>7 DEF ReservationInv
<1>10. PICK n : n = monitor
  OBVIOUS
<1> QED BY <1>1, <1>3, <1>7, <1>8, <1>9, <1>10, HeldStep

LEMMA SendWithHeld ==
  ASSUME ActionInv, ReservationInv, NEW t \in Txs, NEW delayed \in BOOLEAN, SendWith(t, delayed)
  PROVE  ReservationInv'
<1>1. /\ TypeOK /\ db \in Stores /\ CoinInv(db) /\ RowOK(t, db.tx[t], db.req[t], db.linked[t])
      /\ db.req[t] \in Reqs
  BY StepContext
<1>2. db.req[t].status \in Sendable /\ ~db.req[t].proven
  BY DEF SendWith, ReadyToSend, Sendable
<1>3. db.tx[t] # None
  BY <1>1, <1>2 DEF RowOK, Sendable, None
<1>4. Ready(db, t, db.req[t])
  BY <1>1, <1>2, <1>3 DEF Ready, RowOK, Sendable, None
<1>5. PICK d, e, n : d = db /\ e = db' /\ n = monitor
  OBVIOUS
<1>6. RowsBut(db, e, t)
  BY <1>1, <1>4, <1>5, ShareSent DEF SendWith, Sent
<1>7. e.req[t].status # "completed" /\ (Steady /\ HeldInv(d, n) => HeldInv(e, n))
  BY <1>4, <1>5, ShareHeld DEF SendWith
<1>8. Steady => HeldInv(e, n)
  BY <1>5, <1>7 DEF ReservationInv
<1> QED BY <1>5, <1>6, <1>7, <1>8, HeldStep DEF SendWith

LEMMA CreateActionHeld ==
  ASSUME ActionInv, ReservationInv, NEW t \in Txs, NEW c \in Coins, CreateAction(t, c)
  PROVE  ReservationInv'
<1>1. /\ TypeOK /\ db \in Stores /\ CoinInv(db) /\ RowOK(t, db.tx[t], db.req[t], db.linked[t])
  BY StepContext
<1>2. /\ db.tx[t] = None /\ db.spendable[c] /\ env' = env /\ monitor' = monitor
      /\ c \in Txs => db.tx[c] \notin Gone \cup Early
  BY DEF CreateAction, Fundable, Early, Gone, None, network
<1>3. c # t /\ t \in Coins /\ db.req[t].status = None
  BY <1>1, <1>2 DEF Early, Coins, RowOK
<1>4. PICK e, n : e = db' /\ n = monitor
  OBVIOUS
<1>5. e = [db EXCEPT !.tx[t] = "unsigned", !.spendable[c] = FALSE, !.spendable[t] = TRUE,
                     !.spentBy[c] = t]
  BY <1>1, <1>3, <1>4 DEF CreateAction, Claim, Stores
<1>6. /\ e.req = db.req /\ e.linked = db.linked /\ e.tx = [db.tx EXCEPT ![t] = "unsigned"]
      /\ e.spentBy = [db.spentBy EXCEPT ![c] = t]
      /\ e.spendable = [db.spendable EXCEPT ![c] = FALSE, ![t] = TRUE]
  BY <1>1, <1>5 DEF Stores
<1>7. /\ e.tx[t] = "unsigned" /\ \A u \in Txs : u # t => e.tx[u] = db.tx[u]
      /\ e.spentBy[c] = t
      /\ \A k \in Coins : k # c => e.spentBy[k] = db.spentBy[k]
      /\ \A k \in Coins : k # c /\ k # t => e.spendable[k] = db.spendable[k]
  BY <1>1, <1>3, <1>6, StoreFields
<1>8. RowsBut(db, e, t)
  BY <1>6, <1>7 DEF RowsBut
<1>9. ASSUME NEW k \in Coins PROVE Moved(db, e, n, t, k)
  <2>1. CASE k = c
    <3>1. c \in Txs => e.tx[c] # "failed"
      BY <1>2, <1>3, <1>7 DEF Gone
    <3> QED BY <2>1, <3>1, <1>7 DEF Moved
  <2>2. CASE k = t
    BY <2>2, <1>3, <1>7 DEF Moved
  <2>3. CASE k # c /\ k # t
    BY <2>3, <1>7 DEF Moved
  <2> QED BY <2>1, <2>2, <2>3
<1>10. Shrinks(monitor, n, t) /\ ~Secure(db, monitor, t)
  BY <1>2, <1>4 DEF Shrinks, Secure, None
<1>11. Steady => HeldInv(e, n)
  BY <1>1, <1>8, <1>9, <1>10, HeldMoves DEF ReservationInv
<1>12. e.req[t].status # "completed"
  BY <1>3, <1>6 DEF None
<1> QED BY <1>2, <1>4, <1>8, <1>11, <1>12, HeldStep

\* Failing t when it is not secured, and then perhaps marking its request invalid.
LEMMA GivenUpHeld ==
  ASSUME ActionInv, ReservationInv, NEW t \in Txs, ~Secure(db, monitor, t),
         NEW f, f = UpdateTransactionStatus(db, t, "failed"),
         NEW e, db' = e, e = f \/ e = WriteReq(f, t, SetStatus(db.req[t], "invalid")),
         UNCHANGED <<monitor, env>>
  PROVE  ReservationInv'
<1>1. /\ db \in Stores /\ CoinInv(db) /\ db.req[t] \in Reqs
  BY StepContext
<1>2. \/ f = db
      \/ Failed(db, f, t) /\ f.req = db.req
  BY <1>1, UpdateFields DEF TxStatus
<1>3. f \in Stores
  BY <1>1, <1>2 DEF Failed
<1>4. RowsBut(db, f, t) /\ f.req = db.req
  BY <1>1, <1>2, StoreFields DEF Failed, RowsBut
<1>5. PICK n : n = monitor
  OBVIOUS
<1>6. Shrinks(monitor, n, t)
  BY <1>5 DEF Shrinks
<1>7. Steady => HeldInv(f, n)
  <2>1. CASE f = db
    BY <2>1, <1>5 DEF ReservationInv
  <2>2. CASE Failed(db, f, t)
    BY <2>2, <1>1, <1>4, <1>6, HeldFailed DEF ReservationInv
  <2> QED BY <2>1, <2>2, <1>2
<1>8. CASE e = f
  <2>1. e.req[t].status = "completed" => e.req[t].wasBroadcast
    BY <1>4, <1>8 DEF ReservationInv, Broadcasted
  <2> QED BY <2>1, <1>4, <1>5, <1>7, <1>8, HeldStep
<1>9. CASE e = WriteReq(f, t, SetStatus(db.req[t], "invalid"))
  <2>1. PICK q : q = SetStatus(db.req[t], "invalid")
    OBVIOUS
  <2>2. q \in Reqs /\ q.status = "invalid"
    BY <1>1, <2>1, SetStatusFields DEF ReqStatus
  <2>3. PICK p \in Reqs : ReqOnly(f, e, t, p) /\ p.status = "invalid"
    BY <1>3, <1>9, <2>1, <2>2, WriteReqFields
  <2>4. SameCoins(f, e) /\ e.tx = f.tx /\ e.linked = f.linked /\ e.req = [f.req EXCEPT ![t] = p]
    BY <2>3 DEF ReqOnly, SameTxs
  <2>5. e.req[t] = p /\ RowsBut(f, e, t)
    BY <2>4, <1>3, StoreFields DEF RowsBut
  <2>6. RowsBut(db, e, t)
    BY <2>5, <1>4 DEF RowsBut
  <2>7. ~Secure(f, n, t)
    BY <1>2, <1>5, <1>1, StoreFields DEF Failed, Secure
  <2>8. CoinInv(f)
    BY <1>1, <1>2, <1>3, CoinsFailed
  <2>9. Shrinks(n, n, t)
    BY DEF Shrinks
  <2>10. Steady => HeldInv(e, n)
    BY <1>7, <2>4, <2>5, <2>7, <2>8, <2>9, HeldSame
  <2> QED BY <1>5, <2>3, <2>5, <2>6, <2>10, HeldStep
<1> QED BY <1>8, <1>9

LEMMA AbortActionHeld ==
  ASSUME ActionInv, ReservationInv, NEW t \in Txs, AbortAction(t)
  PROVE  ReservationInv'
<1>1. ~Secure(db, monitor, t)
  BY DEF AbortAction, Secure
<1>2. PICK f, e : f = UpdateTransactionStatus(db, t, "failed") /\ e = db'
  OBVIOUS
<1>3. e = f \/ e = WriteReq(f, t, SetStatus(db.req[t], "invalid"))
  BY <1>2 DEF AbortAction
<1>4. UNCHANGED <<monitor, env>>
  BY DEF AbortAction, network
<1> QED BY <1>1, <1>2, <1>3, <1>4, GivenUpHeld

LEMMA FailAbandonedHeld ==
  ASSUME ActionInv, ReservationInv, NEW t \in Txs, FailAbandoned(t)
  PROVE  ReservationInv'
<1>1. ~Secure(db, monitor, t)
  BY DEF FailAbandoned, Secure
<1>2. PICK f : f = UpdateTransactionStatus(db, t, "failed")
  OBVIOUS
<1>3. db' = f /\ UNCHANGED <<monitor, env>>
  BY <1>2 DEF FailAbandoned, network
<1> QED BY <1>1, <1>2, <1>3, GivenUpHeld

\* A step that writes nothing but the rows of t, neither of them into failure.
LEMMA RowsHeld ==
  ASSUME ActionInv, ReservationInv, env' = env, NEW t \in Txs, NEW e, NEW n, db' = e, monitor' = n,
         RowsBut(db, e, t), SameCoins(db, e), e.tx[t] = "failed" => db.tx[t] = "failed",
         Shrinks(monitor, n, t), e.req[t].status = "completed" => e.req[t].wasBroadcast,
         Secure(db, monitor, t) /\ net[t] = "mined" => Secure(e, n, t)
  PROVE  ReservationInv'
<1>1. CoinInv(db)
  BY StepContext
<1>2. Steady => HeldInv(e, n)
  BY <1>1, HeldSame DEF ReservationInv
<1> QED BY <1>2, HeldStep

LEMMA RequestUnfailHeld ==
  ASSUME ActionInv, ReservationInv, NEW t \in Txs, RequestUnfail(t)
  PROVE  ReservationInv'
<1>1. db \in Stores
  BY StepContext
<1>2. db.tx[t] = "failed" /\ monitor' = monitor /\ env' = env
  BY DEF RequestUnfail, network
<1>3. PICK e, n : e = db' /\ n = monitor
  OBVIOUS
<1>4. TxOnly(db, e, t, "unfail")
  BY <1>1, <1>3, TxOnlyFields DEF RequestUnfail, TxStatus
<1>5. e.req = db.req /\ SameCoins(db, e) /\ RowsBut(db, e, t)
  BY <1>1, <1>4, StoreFields DEF TxOnly, RowsBut
<1>6. Shrinks(monitor, n, t) /\ ~Secure(db, monitor, t)
  BY <1>2, <1>3 DEF Shrinks, Secure
<1>7. e.req[t].status = "completed" => e.req[t].wasBroadcast
  BY <1>5 DEF ReservationInv, Broadcasted
<1> QED BY <1>2, <1>3, <1>5, <1>6, <1>7, RowsHeld

LEMMA ReviewDoubleSpendHeld ==
  ASSUME ActionInv, ReservationInv, NEW t \in Txs, ReviewDoubleSpend(t)
  PROVE  ReservationInv'
<1>1. db \in Stores /\ db.req[t] \in Reqs
  BY StepContext
<1>2. db.req[t].status = "doubleSpend" /\ monitor' = monitor /\ env' = env
  BY DEF ReviewDoubleSpend, network
<1>3. PICK e, n : e = db' /\ n = monitor
  OBVIOUS
<1>4. PICK q : q = [db.req[t] EXCEPT !.status = "unfail"]
  OBVIOUS
<1>5. q.status = "unfail"
  BY <1>1, <1>4 DEF Reqs
<1>6. e = [db EXCEPT !.req[t] = q]
  BY <1>1, <1>3, <1>4 DEF ReviewDoubleSpend, Stores
<1>7. e.tx = db.tx /\ e.linked = db.linked /\ SameCoins(db, e) /\ e.req = [db.req EXCEPT ![t] = q]
  BY <1>1, <1>6 DEF Stores, SameCoins
<1>8. e.req[t] = q /\ RowsBut(db, e, t)
  BY <1>1, <1>7, StoreFields DEF RowsBut
<1>9. Shrinks(monitor, n, t) /\ ~Secure(db, monitor, t)
  BY <1>2, <1>3 DEF Shrinks, Secure
<1> QED BY <1>2, <1>3, <1>5, <1>7, <1>8, <1>9, RowsHeld

LEMMA EmptyPage == DOMAIN Waiting.page = {}
BY DEF Waiting

LEMMA DoneShrinks ==
  ASSUME NEW m, NEW t \in Txs, Done(m, t)
  PROVE  Shrinks(monitor, m, t) /\ t \notin DOMAIN m.page
BY EmptyPage DEF Done, Shrinks

LEMMA SendWaitingHeld ==
  ASSUME ActionInv, ReservationInv, NEW t \in Txs, SendWaiting(t)
  PROVE  ReservationInv'
<1>1. TypeOK
  BY StepContext
<1>2. t \in DOMAIN monitor.page /\ monitor.task = "SendWaiting" /\ env' = env
  BY DEF SendWaiting, InHand
<1>3. PICK result \in Results, answered \in Answers :
          /\ Posting(t, result)
          /\ db' = AttemptToPost(db, t, monitor.page[t], result, answered)
          /\ monitor' = IF PostThrows(db, t, monitor.page[t], result) THEN Waiting
                        ELSE NextOfPage(t)
  BY DEF SendWaiting
<1>4. PICK r, e, n : r = monitor.page[t] /\ e = db' /\ n = monitor'
  OBVIOUS
<1>5. Ready(db, t, r)
  BY <1>2, <1>4, PageReady
<1>6. Done(n, t)
  BY <1>1, <1>3, <1>4, NextOfPageDone DEF Done
<1>7. RowsBut(db, e, t)
  BY <1>3, <1>4, <1>5, AttemptSent DEF Sent
<1>8. e.req[t].status # "completed"
  BY <1>3, <1>4, <1>5, PostStatus
<1>9. Secure(db, monitor, t) => r.wasBroadcast
  BY <1>2, <1>4 DEF Secure
<1>10. Steady => HeldInv(e, n)
  BY <1>3, <1>4, <1>5, <1>6, <1>9, DoneShrinks, PostHeld DEF ReservationInv, Steady
<1> QED BY <1>2, <1>4, <1>7, <1>8, <1>10, HeldStep

LEMMA MergeFailsHeld ==
  ASSUME ActionInv, ReservationInv, NEW t \in Txs, MergeFails(t)
  PROVE  ReservationInv'
<1>1. /\ t \in DOMAIN monitor.page /\ monitor.task = "SendWaiting" /\ Merges /\ env' = env
  BY DEF MergeFails, InHand, network
<1>2. PICK p \in MergeFailed(db, t, monitor.page[t]) : db' = WriteReq(db, t, p)
  BY DEF MergeFails
<1>3. PICK r, e, n : r = monitor.page[t] /\ e = db' /\ n = monitor'
  OBVIOUS
<1>4. Ready(db, t, r)
  BY <1>1, <1>3, PageReady
<1>5. RowsBut(db, e, t)
  BY <1>1, <1>2, <1>3, <1>4, MergeFailedSent DEF Sent
<1>6. e.req[t].status # "completed"
  BY <1>2, <1>3, <1>4, MergeFailedStatus DEF Ready, Sendable
<1> QED BY <1>1, <1>3, <1>5, <1>6, HeldStep DEF Steady

\* What a proof check writes back keeps a broadcast request alive.
LEMMA CheckedSecure ==
  ASSUME ActionInv, MaxRebroadcast = 0, NEW t \in Txs, CheckingProof(t), Secure(db, monitor, t),
         NEW r \in Checked(monitor.page[t]) \cup GivenUp(monitor.page[t])
                     \cup {TimedOut(monitor.page[t])}
  PROVE  r.wasBroadcast /\ r.status \in {"unsent", "sending", "unmined"}
<1>1. PICK p : p = monitor.page[t]
  OBVIOUS
<1>2. t \in DOMAIN monitor.page
  BY DEF CheckingProof, InHand
<1>3. p \in Reqs /\ p.wasBroadcast /\ p.status \in {"unsent", "sending", "unmined"}
  BY <1>1, <1>2, InHandFacts DEF Secure
<1>4. r = p \/ r = Attempted(p) \/ r = TimedOut(p)
  BY <1>1 DEF Checked, GivenUp
<1>5. Attempted(p).status = p.status /\ Attempted(p).wasBroadcast = p.wasBroadcast
  BY <1>3, AttemptedFields
<1>6. TimedOut(p).status = "unsent" /\ TimedOut(p).wasBroadcast
  BY <1>3, TimedOutFields
<1> QED BY <1>3, <1>4, <1>5, <1>6

LEMMA CheckedHeld ==
  ASSUME ActionInv, ReservationInv, MaxRebroadcast = 0, NEW t \in Txs, CheckingProof(t),
         NEW r \in Checked(monitor.page[t]) \cup GivenUp(monitor.page[t])
                     \cup {TimedOut(monitor.page[t])},
         db' = WriteReq(db, t, r), env' = env, NEW n, monitor' = n, Shrinks(monitor, n, t),
         t \in DOMAIN n.page => n.page[t] = monitor.page[t]
  PROVE  ReservationInv'
<1>1. /\ t \in DOMAIN monitor.page /\ db.tx[t] \notin Early
      /\ r \in Reqs /\ ~r.proven /\ r.status \in {"unmined", "sending", "nosend", "invalid", "unsent"}
  BY CheckedFacts
<1>2. PICK e : e = WriteReq(db, t, r)
  OBVIOUS
<1>3. /\ RowsBut(db, e, t) /\ e.tx[t] = db.tx[t] /\ e.req[t].status = r.status
      /\ e.req[t].wasBroadcast = r.wasBroadcast /\ SameCoins(db, e)
  BY <1>1, <1>2, ReqWritten
<1>4. ASSUME Secure(db, monitor, t) PROVE Secure(e, n, t)
  <2>1. r.wasBroadcast /\ r.status \in {"unsent", "sending", "unmined"}
    BY <1>4, CheckedSecure
  <2> QED BY <1>1, <1>3, <1>4, <2>1 DEF Secure
<1> QED BY <1>1, <1>2, <1>3, <1>4, RowsHeld

LEMMA ProofStepHeld ==
  ASSUME ActionInv, ReservationInv, MaxRebroadcast = 0, NEW t \in Txs,
         SettleWithoutProof(t) \/ ProofMissing(t) \/ ProofTooNew(t)
  PROVE  ReservationInv'
<1>1. TypeOK
  BY DEF ActionInv
<1>2. CheckingProof(t) /\ monitor' = NextOfPage(t) /\ env' = env
  BY DEF SettleWithoutProof, ProofMissing, ProofTooNew, AsksProof, network
<1>3. PICK n : n = NextOfPage(t)
  OBVIOUS
<1>4. Shrinks(monitor, n, t) /\ t \notin DOMAIN n.page
  BY <1>1, <1>3, NextOfPageDone, DoneShrinks
<1>5. CASE SettleWithoutProof(t)
  <2>1. ~monitor.page[t].proven
    BY <1>2, CheckedFacts, InHandFacts
  <2>2. db' = WriteReq(db, t, TimedOut(monitor.page[t]))
    BY <1>5, <2>1 DEF SettleWithoutProof
  <2> QED BY <2>2, <1>2, <1>3, <1>4, CheckedHeld
<1>6. CASE ProofMissing(t)
  <2>1. PICK r \in Checked(monitor.page[t]) \cup GivenUp(monitor.page[t]) : db' = WriteReq(db, t, r)
    BY <1>6 DEF ProofMissing
  <2> QED BY <2>1, <1>2, <1>3, <1>4, CheckedHeld
<1>7. CASE ProofTooNew(t)
  <2>1. PICK e : e = db
    OBVIOUS
  <2>2. db' = e /\ RowsBut(db, e, t) /\ SameCoins(db, e)
    BY <1>7, <2>1 DEF ProofTooNew, RowsBut, SameCoins
  <2>3. e.req[t].status = "completed" => e.req[t].wasBroadcast
    BY <2>1 DEF ReservationInv, Broadcasted
  <2>4. Secure(db, monitor, t) => Secure(e, n, t)
    BY <2>1, <1>4 DEF Secure
  <2> QED BY <2>1, <2>2, <2>3, <2>4, <1>2, <1>3, <1>4, RowsHeld
<1> QED BY <1>5, <1>6, <1>7

LEMMA ProofFoundHeld ==
  ASSUME ActionInv, ReservationInv, MaxRebroadcast = 0, NEW t \in Txs, ProofFound(t)
  PROVE  ReservationInv'
<1>1. CheckingProof(t) /\ env' = env /\ monitor' = [monitor EXCEPT !.proof = t]
  BY DEF ProofFound, AsksProof, network
<1>2. PICK r \in Checked(monitor.page[t]) : db' = WriteReq(db, t, r)
  BY DEF ProofFound
<1>3. PICK n : n = [monitor EXCEPT !.proof = t]
  OBVIOUS
<1>4. n.page = monitor.page
  BY <1>3 DEF ActionInv, TypeOK
<1>5. Shrinks(monitor, n, t)
  BY <1>4 DEF Shrinks
<1> QED BY <1>1, <1>2, <1>3, <1>4, <1>5, CheckedHeld

LEMMA ApplyProofHeld ==
  ASSUME ActionInv, ReservationInv, NEW t \in Txs, ApplyProof(t)
  PROVE  ReservationInv'
<1>1. /\ TypeOK /\ db \in Stores /\ CoinInv(db) /\ db.req[t] \in Reqs /\ PageInv(db, monitor)
  BY StepContext DEF ActionInv
<1>2. monitor.proof = t /\ env' = env
  BY DEF ApplyProof, network
<1>3. PICK p : p = SetStatus(db.req[t], "completed")
  OBVIOUS
<1>4. p \in Reqs /\ p.status = "completed" /\ p.wasBroadcast
  BY <1>1, <1>3, SetStatusFields DEF ReqStatus
<1>5. PICK r : r = [p EXCEPT !.proven = TRUE]
  OBVIOUS
<1>6. r \in Reqs /\ r.status = "completed" /\ r.wasBroadcast
  BY <1>4, <1>5 DEF Reqs
<1>7. PICK f : f = WriteReq(db, t, r)
  OBVIOUS
<1>8. PICK q \in Reqs : ReqOnly(db, f, t, q) /\ q.status = "completed" /\ q.wasBroadcast
  BY <1>1, <1>6, <1>7, WriteReqFields
<1>9. /\ f \in Stores /\ f.tx = db.tx /\ f.linked = db.linked /\ SameCoins(db, f)
      /\ f.req = [db.req EXCEPT ![t] = q]
  BY <1>8 DEF ReqOnly, SameTxs
<1>10. f.req[t] = q /\ RowsBut(db, f, t)
  BY <1>1, <1>9, StoreFields DEF RowsBut
<1>11. PICK n : n = monitor'
  OBVIOUS
<1>12. \/ \E v : db' = Reconcile(f, {t}, v) /\ n = NextOfPage(t)
       \/ db' = f /\ n = Waiting
  BY <1>3, <1>5, <1>7, <1>11 DEF ApplyProof
<1>13. Shrinks(monitor, n, t) /\ t \notin DOMAIN n.page
  <2>1. Done(n, t)
    BY <1>1, <1>12, NextOfPageDone DEF Done
  <2> QED BY <2>1, DoneShrinks
<1>14. Secure(db, monitor, t) => Secure(f, n, t)
  BY <1>8, <1>9, <1>10, <1>13 DEF Secure
<1>15. Steady => HeldInv(f, n)
  BY <1>1, <1>9, <1>10, <1>13, <1>14, HeldSame DEF ReservationInv
<1>16. CASE db' = f
  BY <1>2, <1>8, <1>10, <1>11, <1>15, <1>16, HeldStep
<1>17. ASSUME NEW v, db' = Reconcile(f, {t}, v) PROVE ReservationInv'
  <2>1. PICK e : e = Reconcile(f, {t}, v)
    OBVIOUS
  <2>2. Reconciled(f, e, {t}, v)
    BY <1>9, <2>1, ReconcileFields
  <2>3. e \in Stores /\ e.tx[t] = "completed"
    BY <2>2 DEF Reconciled
  <2>4. PICK b \in BOOLEAN : e.req[t] = [q EXCEPT !.notified = b]
    BY <2>2, <1>10 DEF Reconciled
  <2>5. e.req[t].status = "completed" /\ e.req[t].wasBroadcast
    BY <2>4, <1>8 DEF Reqs
  <2>6. Secure(e, n, t)
    BY <2>3, <2>5, <1>13 DEF Secure
  <2>7. Steady => HeldInv(e, n)
    BY <2>2, <2>6, <1>15, HeldReconciled
  <2>8. RowsBut(f, e, t)
    <3>1. \A u \in Txs : e.linked[u] \in BOOLEAN /\ f.linked[u] \in BOOLEAN
      BY <2>3, <1>9, StoreFields
    <3>2. \A u \in Txs : u # t => e.tx[u] = f.tx[u] /\ e.req[u] = f.req[u]
                                  /\ (e.linked[u] <=> f.linked[u])
      BY <2>2 DEF Reconciled
    <3> QED BY <3>1, <3>2 DEF RowsBut
  <2>9. RowsBut(db, e, t)
    BY <2>8, <1>10 DEF RowsBut
  <2> QED BY <1>2, <1>11, <1>17, <2>1, <2>5, <2>7, <2>9, HeldStep
<1> QED BY <1>12, <1>16, <1>17

LEMMA UnFailHeld ==
  ASSUME ActionInv, ReservationInv, NEW t \in Txs, UnFail(t)
  PROVE  ReservationInv'
<1>1. /\ TypeOK /\ db \in Stores /\ CoinInv(db) /\ db.req[t] \in Reqs
  BY StepContext
<1>2. /\ t \in DOMAIN monitor.page /\ monitor.task = "UnFail" /\ monitor' = NextOfPage(t)
      /\ env' = env
  BY DEF UnFail, InHand, network
<1>3. PICK n : n = NextOfPage(t)
  OBVIOUS
<1>4. Shrinks(monitor, n, t) /\ t \notin DOMAIN n.page
  BY <1>1, <1>3, NextOfPageDone, DoneShrinks
<1>5. OnPage(db, monitor, t) /\ monitor.page[t] \in Reqs /\ ~monitor.page[t].proven
  BY <1>2, InHandFacts
<1>6. db.tx[t] \in Gone /\ ~Secure(db, monitor, t)
  BY <1>2, <1>5 DEF OnPage, Secure, Gone
<1>7. ASSUME NEW v,
             db' = [RestoreForProof(db, {t}, v) EXCEPT
                       !.req[t] = [SetStatus(db.req[t], "unmined") EXCEPT !.attempts = 0]]
      PROVE  ReservationInv'
  <2>1. PICK f : f = RestoreForProof(db, {t}, v)
    OBVIOUS
  <2>2. Restored(db, f, {t}, v)
    BY <1>1, <2>1, RestoreFields
  <2>3. f \in Stores /\ f.req = db.req /\ f.linked = db.linked /\ f.tx[t] = "unproven"
        /\ \A u \in Txs : u # t => f.tx[u] = db.tx[u]
    BY <2>2 DEF Restored
  <2>4. PICK p : p = SetStatus(db.req[t], "unmined")
    OBVIOUS
  <2>5. p \in Reqs /\ p.status = "unmined" /\ p.wasBroadcast
    BY <1>1, <2>4, SetStatusFields DEF ReqStatus
  <2>6. PICK q : q = [p EXCEPT !.attempts = 0]
    OBVIOUS
  <2>7. q.status = "unmined" /\ q.wasBroadcast
    BY <2>5, <2>6 DEF Reqs
  <2>8. PICK e : e = [f EXCEPT !.req[t] = q]
    OBVIOUS
  <2>9. e.tx = f.tx /\ e.linked = f.linked /\ SameCoins(f, e) /\ e.req = [f.req EXCEPT ![t] = q]
    BY <2>3, <2>8 DEF Stores, SameCoins
  <2>10. e.req[t] = q /\ \A u \in Txs : u # t => e.req[u] = db.req[u]
    BY <1>1, <2>3, <2>9, StoreFields
  <2>11. RowsBut(db, e, t)
    BY <2>3, <2>9, <2>10 DEF RowsBut
  <2>12. Secure(e, n, t) /\ e.tx[t] = "unproven"
    BY <2>3, <2>7, <2>9, <2>10, <1>4 DEF Secure
  <2>13. ASSUME NEW c \in Coins, Steady PROVE Moved(db, e, n, t, c)
    <3>1. \/ ~e.spendable[c] /\ e.spentBy[c] = t
          \/ e.spentBy[c] = db.spentBy[c] /\ (c # t => e.spendable[c] = db.spendable[c])
      BY <2>2, <2>9 DEF Restored, SameCoins
    <3>2. c \in Txs /\ e.tx[c] = "failed" => c # t /\ db.tx[c] = "failed"
      BY <2>11, <2>12 DEF RowsBut
    <3> QED BY <3>1, <3>2, <2>12 DEF Moved
  <2>14. Steady => HeldInv(e, n)
    BY <1>1, <1>4, <2>11, <2>12, <2>13, HeldMoves DEF ReservationInv
  <2>15. db' = e
    BY <1>7, <2>1, <2>4, <2>6, <2>8
  <2> QED BY <1>2, <1>3, <2>7, <2>10, <2>11, <2>14, <2>15, HeldStep
<1>8. ASSUME db' = WriteReq(db, t, SetStatus(monitor.page[t], "invalid"))
      PROVE  ReservationInv'
  <2>1. PICK r : r = SetStatus(monitor.page[t], "invalid")
    OBVIOUS
  <2>2. r \in Reqs /\ ~r.proven /\ r.status = "invalid"
    BY <1>5, <2>1, SetStatusFields DEF ReqStatus
  <2>3. db.tx[t] \notin Early
    BY <1>6 DEF Early, Gone, None
  <2>4. PICK e : e = WriteReq(db, t, r)
    OBVIOUS
  <2>5. RowsBut(db, e, t) /\ e.tx[t] = db.tx[t] /\ e.req[t].status = "invalid" /\ SameCoins(db, e)
    BY <1>2, <2>2, <2>3, <2>4, ReqWritten
  <2> QED BY <1>2, <1>3, <1>4, <1>6, <1>8, <2>1, <2>4, <2>5, RowsHeld
<1> QED BY <1>7, <1>8 DEF UnFail

LEMMA ReviewStatusHeld ==
  ASSUME ActionInv, ReservationInv, ReviewStatus
  PROVE  ReservationInv'
<1>1. db \in Stores
  BY DEF ActionInv, TypeOK
<1>2. monitor = Waiting /\ monitor' = monitor /\ env' = env
  BY DEF ReviewStatus, network
<1>3. PICK S : S = Unnotified
  OBVIOUS
<1>4. S \in SUBSET Txs /\ \A t \in S : db.req[t].status = "completed" /\ db.req[t].proven
  BY <1>3 DEF Unnotified
<1>5. PICK v \in VerdictsOn(S) :
        db' = CompleteProven(KillDeadOutputs(FreeDeadInputs(FailInvalid(Reconcile(db, S, v)))))
  BY <1>3 DEF ReviewStatus
<1>6. PICK d : d = Reconcile(db, S, v)
  OBVIOUS
<1>7. Reconciled(db, d, S, v)
  BY <1>1, <1>4, <1>6, ReconcileFields
<1>8. d \in Stores
  BY <1>7 DEF Reconciled
<1>9. PICK e, n : e = db' /\ n = monitor
  OBVIOUS
<1>10. Reviewed(d, e)
  BY <1>5, <1>6, <1>8, <1>9, ReviewFields
<1>11. ASSUME NEW t \in Txs
       PROVE  d.req[t].status = db.req[t].status /\ d.req[t].wasBroadcast = db.req[t].wasBroadcast
  <2>1. PICK b \in BOOLEAN : d.req[t] = [db.req[t] EXCEPT !.notified = b]
    BY <1>7 DEF Reconciled
  <2>2. db.req[t] \in Reqs
    BY <1>1, StoreFields
  <2> QED BY <2>1, <2>2 DEF Reqs
<1>12. Broadcasted(d)
  BY <1>11 DEF ReservationInv, Broadcasted
<1>13. Broadcasted(e)
  BY <1>10, <1>12 DEF Reviewed, Broadcasted
<1>14. DOMAIN n.page = {}
  BY <1>2, <1>9, EmptyPage
<1>15. ASSUME NEW t \in S PROVE Secure(d, n, t)
  <2>1. t \in Txs /\ d.tx[t] = "completed"
    BY <1>4, <1>7 DEF Reconciled
  <2>2. d.req[t].status = "completed"
    BY <2>1, <1>4, <1>11
  <2> QED BY <2>1, <2>2, <1>12, <1>14 DEF Secure, Broadcasted
<1>16. Steady => HeldInv(d, n)
  BY <1>4, <1>7, <1>9, <1>14, <1>15, HeldReconciled DEF ReservationInv
<1>17. Steady => HeldInv(e, n)
  BY <1>10, <1>16, HeldReviewed
<1> QED BY <1>2, <1>9, <1>13, <1>17 DEF ReservationInv, Steady, Outages, Merges

\* Steps that leave the store alone; a page is read from it, or dropped.
LEMMA PageHeld ==
  ASSUME ReservationInv, db' = db, env' = env, NEW n, monitor' = n,
         \A u \in DOMAIN n.page : \/ u \in DOMAIN monitor.page /\ n.page[u] = monitor.page[u]
                                  \/ n.page[u] = db.req[u] /\ db.req[u].status # "completed"
  PROVE  ReservationInv'
<1>1. ASSUME NEW u, Secure(db, monitor, u) PROVE Secure(db, n, u)
  BY <1>1 DEF Secure
<1>2. Steady => HeldInv(db, n)
  BY <1>1 DEF ReservationInv, HeldInv, HeldOK
<1> QED BY <1>2 DEF ReservationInv, Steady, Outages, Merges

LEMMA ReadPageHeld ==
  ASSUME ReservationInv, NEW task \in TaskNames, ReadPage(task)
  PROVE  ReservationInv'
<1>1. db' = db /\ env' = env
  BY DEF ReadPage, network
<1>2. PICK page \in SUBSET {t \in Txs : db.req[t].status \in Wanted(task)} :
        monitor' = [task |-> task, page |-> [t \in page |-> db.req[t]], proof |-> None]
  BY DEF ReadPage
<1>3. PICK n : n = monitor'
  OBVIOUS
<1>4. DOMAIN n.page = page /\ \A t \in page : n.page[t] = db.req[t]
  BY <1>2, <1>3
<1>5. "completed" \notin Wanted(task)
  BY DEF Wanted, TaskNames
<1> QED BY <1>1, <1>3, <1>4, <1>5, PageHeld

LEMMA ReservationInit ==
  ASSUME Init
  PROVE  ReservationInv
<1>1. PICK e : e = db
  OBVIOUS
<1>2. /\ e.tx = [t \in Txs |-> None] /\ e.req = [t \in Txs |-> NoReq]
      /\ e.spentBy = [c \in Coins |-> None]
  BY <1>1 DEF Init
<1>3. HeldInv(e, monitor)
  BY <1>2, NoneApart DEF HeldInv, HeldOK, None
<1>4. Broadcasted(e)
  BY <1>2 DEF Broadcasted, NoReq, None
<1> QED BY <1>1, <1>3, <1>4 DEF ReservationInv

LEMMA ReservationNext ==
  ASSUME MaxRebroadcast = 0, ActionInv, ReservationInv, [Next]_vars
  PROVE  ReservationInv'
<1>1. ASSUME NEW t \in Txs, Calls(t) PROVE ReservationInv'
  BY <1>1, CreateActionHeld, ProcessActionHeld, SendWithHeld, AbortActionHeld, RequestUnfailHeld
     DEF Calls
<1>2. ASSUME NEW t \in Txs, TaskStep(t) PROVE ReservationInv'
  BY <1>2, SendWaitingHeld, MergeFailsHeld, ProofStepHeld, ProofFoundHeld, ApplyProofHeld, UnFailHeld DEF TaskStep
<1>3. ASSUME NEW t \in Txs, ReviewDoubleSpend(t) \/ FailAbandoned(t) PROVE ReservationInv'
  BY <1>3, ReviewDoubleSpendHeld, FailAbandonedHeld
<1>4. ASSUME db' = db, env' = env, monitor' = monitor \/ monitor' = Waiting PROVE ReservationInv'
  <2>1. PICK n : n = monitor'
    OBVIOUS
  <2> QED BY <1>4, <2>1, EmptyPage, PageHeld
<1>5. ASSUME NEW task \in TaskNames, ReadPage(task) PROVE ReservationInv'
  BY <1>5, ReadPageHeld
<1>6. \/ db' = db /\ env' = env /\ (monitor' = monitor \/ monitor' = Waiting)
      \/ \E t \in Txs : Calls(t) \/ TaskStep(t) \/ ReviewDoubleSpend(t) \/ FailAbandoned(t)
      \/ \E task \in TaskNames : ReadPage(task)
      \/ ReviewStatus
  BY DEF Next, NetAccept, NetMine, NetRival, Crash, vars, network
<1> QED BY <1>1, <1>2, <1>3, <1>4, <1>5, <1>6, ReviewStatusHeld

-----------------------------------------------------------------------------
(***************************************************************************)
(* The theorems.                                                           *)
(***************************************************************************)
\* The rows of what holds the change of a failed action keep it from failing.
THEOREM ReservationsKept ==
  ASSUME MaxRebroadcast = 0
  PROVE  Spec => []ReservationInv
<1>1. Init => ReservationInv
  BY ReservationInit
<1>2. ActionInv /\ ReservationInv /\ [Next]_vars => ReservationInv'
  BY ReservationNext
<1> QED BY <1>1, <1>2, ActionsSound, PTL DEF Spec

\* As long as the services answer, BEEFs are merged and no broadcast transaction
\* is given up, a coin that names a spender is off the market, its spender consumes it and has
\* not failed, through rejections, rivals, stale writes and stops anywhere.
THEOREM ReservationsHold ==
  ASSUME MaxRebroadcast = 0
  PROVE  Spec => [](~Outages /\ ~Merges => ReservationsSound)
<1>1. ActionInv /\ ReservationInv => (~Outages /\ ~Merges => ReservationsSound)
  BY DEF ActionInv, CoinInv, CoinOK, ReservationInv, Steady, HeldInv, HeldOK, ReservationsSound
<1> QED BY <1>1, ActionsSound, ReservationsKept, PTL

\* As long as the services answer, BEEFs are merged and no broadcast transaction
\* is given up, change of a failed action is never offered as funding.
THEOREM FailedStayDead ==
  ASSUME MaxRebroadcast = 0
  PROVE  Spec => [](~Outages /\ ~Merges => FailedOutputsDead)
<1>1. ReservationInv => (~Outages /\ ~Merges => FailedOutputsDead)
  BY DEF ReservationInv, Steady, HeldInv, HeldOK, FailedOutputsDead, Coins
<1> QED BY <1>1, ReservationsKept, PTL

-----------------------------------------------------------------------------
(***************************************************************************)
(* The network: what is known stays known, and a transaction that cannot   *)
(* be accepted stays unknown.                                              *)
(***************************************************************************)
\* Lineage with the inputs i, so that it can be compared across a step.
Ancestry(i, t) ==
    {u \in Txs : \A S \in SUBSET Txs :
        t \in S /\ (\A x \in S : i[x] \in Txs => i[x] \in S) => u \in S}

LEMMA AncestryFacts ==
  ASSUME NEW i, NEW t \in Txs
  PROVE  /\ t \in Ancestry(i, t) /\ Ancestry(i, t) \in SUBSET Txs
         /\ \A x \in Ancestry(i, t) : i[x] \in Txs => i[x] \in Ancestry(i, t)
BY DEF Ancestry

LEMMA AncestryLeast ==
  ASSUME NEW i, NEW t \in Txs, NEW S \in SUBSET Txs, t \in S,
         \A x \in S : i[x] \in Txs => i[x] \in S
  PROVE  Ancestry(i, t) \subseteq S
BY DEF Ancestry

LEMMA AncestryNested ==
  ASSUME NEW i, NEW t \in Txs, NEW u \in Ancestry(i, t)
  PROVE  Ancestry(i, u) \subseteq Ancestry(i, t)
<1>1. u \in Txs
  BY AncestryFacts
<1> QED BY <1>1, AncestryFacts, AncestryLeast

\* An action that nobody builds on is the ancestor of itself only.
LEMMA AncestryUsed ==
  ASSUME NEW i, NEW t \in Txs, NEW s \in Txs, t # s, \A x \in Txs : i[x] # s
  PROVE  s \notin Ancestry(i, t)
<1>1. PICK S \in SUBSET Txs : S = Ancestry(i, t) \ {s}
  BY AncestryFacts
<1>2. t \in S /\ \A x \in S : i[x] \in Txs => i[x] \in S
  BY <1>1, AncestryFacts
<1>3. Ancestry(i, t) \subseteq S
  BY <1>2, AncestryLeast
<1> QED BY <1>1, <1>3

LEMMA AncestrySame ==
  ASSUME NEW i, NEW j, NEW t \in Txs, NEW s \in Txs, t # s,
         \A x \in Txs : i[x] # s /\ j[x] # s, \A x \in Txs : x # s => j[x] = i[x]
  PROVE  Ancestry(j, t) = Ancestry(i, t)
<1>1. s \notin Ancestry(i, t) /\ s \notin Ancestry(j, t)
  BY AncestryUsed
<1>2. Ancestry(j, t) \subseteq Ancestry(i, t)
  BY <1>1, AncestryFacts, AncestryLeast
<1>3. Ancestry(i, t) \subseteq Ancestry(j, t)
  BY <1>1, AncestryFacts, AncestryLeast
<1> QED BY <1>2, <1>3

LEMMA LineageIs ==
  ASSUME NEW t \in Txs
  PROVE  Lineage(t) = Ancestry(input, t) /\ Lineage(t)' = Ancestry(input', t)
BY DEF Lineage, WithParents, Ancestry

KnownSet == {t \in Txs : Known(t)}

\* Transactions that the network does not know and will not accept.
Blocked == {t \in Txs : ~Known(t) /\ ~Acceptable(t)}

\* What is shared or known is begun; what is known, is with its ancestors.
NetInv ==
    /\ \A t \in Txs : t \in shared \/ Known(t) => db.tx[t] # None
    /\ WithParents(KnownSet)

\* The network of a step that posts t, or lets somebody else post it.
Grown(t) == net' = net \/ (Acceptable(t) /\ net' = Accepted(t))

LEMMA KnownGrown ==
  ASSUME NEW t \in Txs, Grown(t), net \in [Txs -> NetTypes], UNCHANGED <<input, rivals>>
  PROVE  /\ \A u \in Txs : Known(u) => Known(u)'
         /\ \A u \in Txs : Known(u)' => Known(u) \/ u \in Lineage(t)
         /\ \A c : SpentOnNet(c) => SpentOnNet(c)'
<1>1. CASE net' = net
  BY <1>1 DEF Known, SpentOnNet
<1>2. CASE net' = Accepted(t)
  <2>1. \A u \in Txs : net'[u] = IF u \in Lineage(t) /\ net[u] = "absent" THEN "mempool" ELSE net[u]
    BY <1>2 DEF Accepted, Known
  <2>2. \A u \in Txs : /\ Known(u) => Known(u)'
                       /\ Known(u)' => Known(u) \/ u \in Lineage(t)
    BY <2>1 DEF Known
  <2> QED BY <2>2 DEF SpentOnNet
<1> QED BY <1>1, <1>2 DEF Grown

LEMMA BlockedGrown ==
  ASSUME NEW t \in Txs, Grown(t), net \in [Txs -> NetTypes], UNCHANGED <<input, rivals>>
  PROVE  KnownSet \subseteq KnownSet' /\ Blocked \subseteq Blocked'
<1>1. /\ \A u \in Txs : Known(u) => Known(u)'
      /\ \A u \in Txs : Known(u)' => Known(u) \/ u \in Lineage(t)
      /\ \A c : SpentOnNet(c) => SpentOnNet(c)'
  BY KnownGrown
<1>2. ASSUME NEW x \in Blocked PROVE x \in Blocked'
  <2>1. x \in Txs /\ ~Known(x) /\ ~Acceptable(x)
    BY DEF Blocked
  <2>2. PICK u \in Lineage(x) : ~Known(u) /\ SpentOnNet(input[u])
    BY <2>1 DEF Acceptable
  <2>3. u \in Txs /\ Lineage(x)' = Lineage(x)
    BY <2>1, LineageIs, AncestryFacts
  <2>4. ~Known(u)' /\ ~Known(x)'
    <3>1. CASE net' = net
      BY <3>1, <2>1, <2>2 DEF Known
    <3>2. CASE Acceptable(t)
      <4>1. u \notin Lineage(t)
        BY <3>2, <2>2 DEF Acceptable
      <4>2. x \notin Lineage(t)
        BY <4>1, <2>1, <2>2, LineageIs, AncestryNested
      <4> QED BY <4>1, <4>2, <1>1, <2>1, <2>2, <2>3
    <3> QED BY <3>1, <3>2 DEF Grown
  <2>5. SpentOnNet(input[u])'
    BY <1>1, <2>2
  <2>6. ~Acceptable(x)'
    BY <2>2, <2>3, <2>4, <2>5 DEF Acceptable
  <2> QED BY <2>1, <2>4, <2>6 DEF Blocked
<1>3. KnownSet \subseteq KnownSet'
  BY <1>1 DEF KnownSet
<1> QED BY <1>2, <1>3

\* The store begins no action, and the network grows by what was begun.
LEMMA NetInvGrown ==
  ASSUME ActionInv, NetInv, NEW t \in Txs, Grown(t), UNCHANGED <<input, rivals>>,
         db.tx[t] # None, shared' \subseteq shared \cup {t},
         \A u \in Txs : db.tx[u] # None => db'.tx[u] # None
  PROVE  NetInv'
<1>1. net \in [Txs -> NetTypes] /\ input \in [Txs -> Coins \cup {None}] /\ RowInv(db)
  BY DEF ActionInv, TypeOK, NetTypes
<1>2. /\ \A u \in Txs : Known(u) => Known(u)'
      /\ \A u \in Txs : Known(u)' => Known(u) \/ u \in Lineage(t)
  BY <1>1, KnownGrown
<1>3. PICK S \in SUBSET Txs : S = {u \in Txs : db.tx[u] # None}
  OBVIOUS
<1>4. ASSUME NEW x \in S, input[x] \in Txs PROVE input[x] \in S
  <2>1. RowOK(input[x], db.tx[input[x]], db.req[input[x]], db.linked[input[x]])
    BY <1>1, <1>4 DEF RowInv
  <2>2. db.tx[input[x]] # None
    BY <2>1, <1>3 DEF RowOK, Early
  <2> QED BY <2>2, <1>3, <1>4
<1>5. Lineage(t) \subseteq S
  BY <1>3, <1>4, AncestryLeast, LineageIs
<1>6. \A u \in Txs : (u \in shared \/ Known(u))' => db'.tx[u] # None
  BY <1>2, <1>3, <1>5 DEF NetInv
<1>7. ASSUME NEW u \in KnownSet', input'[u] \in Txs PROVE input'[u] \in KnownSet'
  <2>1. u \in Txs /\ Known(u)' /\ input' = input
    BY DEF KnownSet
  <2>2. CASE Known(u)
    BY <2>1, <2>2, <1>2, <1>7 DEF NetInv, WithParents, KnownSet
  <2>3. CASE ~Known(u)
    <3>1. u \in Lineage(t) /\ input[u] \in Lineage(t)
      BY <2>1, <2>3, <1>2, <1>7, AncestryFacts, LineageIs
    <3>2. net' = Accepted(t)
      BY <2>1, <2>3 DEF Grown, Known
    <3>3. Known(input[u])'
      BY <3>1, <3>2, <1>7, <2>1 DEF Accepted, Known
    <3> QED BY <3>3, <2>1, <1>7 DEF KnownSet
  <2> QED BY <2>2, <2>3
<1> QED BY <1>6, <1>7 DEF NetInv, WithParents

-----------------------------------------------------------------------------
(***************************************************************************)
(* A calm environment.  Claims are said of a store d, a page m, the inputs *)
(* i, the known transactions K and the blocked ones B.                     *)
(***************************************************************************)
\* Action t is given up and nothing brings it back.
Over(d, m, t) ==
    d.tx[t] \in Gone /\ d.req[t].status \in {None, "invalid"} /\ t \notin DOMAIN m.page

\* Action t lays claim to its input.
Claimant(d, m, t) == d.tx[t] # None /\ ~Over(d, m, t)

\* An action that is gone is over, or cannot be accepted; an uncommitted one and
\* a nosend one is in no task's hands; one marked broadcast is known.
CalmRow(d, m, K, B, t) ==
    /\ d.tx[t] \in Gone => Over(d, m, t) \/ t \in B
    /\ d.req[t].status = "doubleSpend" => t \in B
    /\ d.req[t].status # "unfail"
    /\ d.tx[t] \in Early => d.req[t].status = None /\ t \notin DOMAIN m.page
    /\ d.tx[t] = "nosend" => d.req[t].status = "nosend" /\ t \notin DOMAIN m.page
    /\ d.req[t].wasBroadcast =>
          t \in K /\ (MaxRebroadcast = 0 => d.req[t].status \notin {None, "invalid"})
    /\ t \in DOMAIN m.page => (m.page[t].wasBroadcast => t \in K)

\* No action that is gone holds a coin, and a coin somebody lays claim to is
\* held by the claimant, or held by nobody and not offered.
CalmCoin(d, m, i, c) ==
    /\ d.spentBy[c] \in Txs => d.tx[d.spentBy[c]] \notin Gone
    /\ \A t \in Txs : Claimant(d, m, t) /\ i[t] = c =>
          d.spentBy[c] = t \/ (d.spentBy[c] = None /\ ~d.spendable[c])

CalmPairs(d, m, i) ==
    \A t, u \in Txs : t # u /\ Claimant(d, m, t) /\ Claimant(d, m, u) => i[t] # i[u]

CalmState(d, m, i, K, B) ==
    /\ m.task # "UnFail"
    /\ \A t \in Txs : CalmRow(d, m, K, B, t)
    /\ \A c \in Coins : CalmCoin(d, m, i, c)
    /\ CalmPairs(d, m, i)

CalmInv == NetInv /\ (Calm => CalmState(db, monitor, input, KnownSet, Blocked))

\* Coin c is set aside, freed by t that lays no claim to it any more, or left
\* with its holder.
Shift(d, e, n, i, t, c) ==
    \/ e.spentBy[c] = None /\ ~e.spendable[c]
    \/ d.spentBy[c] = t /\ e.spentBy[c] = None /\ ~Claimant(e, n, t)
    \/ /\ e.spentBy[c] = d.spentBy[c]
       /\ e.spendable[c] => d.spendable[c] \/ \A u \in Txs : i[u] # c
       /\ d.spentBy[c] = t => e.tx[t] \notin Gone

LEMMA CalmMoves ==
  ASSUME NEW d, NEW e, NEW m, NEW n, NEW i, NEW K, NEW B, NEW L, NEW C, NEW t \in Txs,
         CalmState(d, m, i, K, B), K \subseteq L, B \subseteq C,
         RowsBut(d, e, t), Shrinks(m, n, t), n.task \in {m.task, None},
         CalmRow(e, n, L, C, t), Claimant(e, n, t) => Claimant(d, m, t),
         \A c \in Coins : Shift(d, e, n, i, t, c)
  PROVE  CalmState(e, n, i, L, C)
<1>1. n.task # "UnFail"
  BY DEF CalmState, None
<1>2. ASSUME NEW u \in Txs, u # t
      PROVE  /\ e.tx[u] = d.tx[u] /\ e.req[u] = d.req[u]
             /\ u \in DOMAIN n.page => u \in DOMAIN m.page /\ n.page[u] = m.page[u]
  BY <1>2 DEF RowsBut, Shrinks
<1>3. ASSUME NEW u \in Txs PROVE CalmRow(e, n, L, C, u)
  <2>1. CASE u = t
    BY <2>1
  <2>2. CASE u # t
    BY <2>2, <1>2 DEF CalmState, CalmRow, Over
  <2> QED BY <2>1, <2>2
<1>4. ASSUME NEW u \in Txs, Claimant(e, n, u) PROVE Claimant(d, m, u)
  <2>1. CASE u = t
    BY <2>1, <1>4
  <2>2. CASE u # t
    BY <2>2, <1>2, <1>4 DEF Claimant, Over
  <2> QED BY <2>1, <2>2
<1>5. CalmPairs(e, n, i)
  BY <1>4 DEF CalmState, CalmPairs
<1>6. ASSUME NEW c \in Coins PROVE CalmCoin(e, n, i, c)
  <2>1. CalmCoin(d, m, i, c) /\ Shift(d, e, n, i, t, c)
    BY DEF CalmState
  <2>2. CASE e.spentBy[c] = None /\ ~e.spendable[c]
    BY <2>2, NoneApart DEF CalmCoin
  <2>3. CASE d.spentBy[c] = t /\ e.spentBy[c] = None /\ ~Claimant(e, n, t)
    <3>1. ASSUME NEW u \in Txs, Claimant(e, n, u), i[u] = c PROVE FALSE
      BY <3>1, <2>1, <2>3, <1>4, NoneApart DEF CalmCoin
    <3> QED BY <3>1, <2>3, NoneApart DEF CalmCoin
  <2>4. CASE /\ e.spentBy[c] = d.spentBy[c]
             /\ e.spendable[c] => d.spendable[c] \/ \A u \in Txs : i[u] # c
             /\ d.spentBy[c] = t => e.tx[t] \notin Gone
    <3>1. ASSUME NEW u \in Txs, e.spentBy[c] = u PROVE e.tx[u] \notin Gone
      <4>1. CASE u = t
        BY <4>1, <3>1, <2>4
      <4>2. CASE u # t
        BY <4>2, <3>1, <2>1, <2>4, <1>2 DEF CalmCoin
      <4> QED BY <4>1, <4>2
    <3>2. ASSUME NEW u \in Txs, Claimant(e, n, u), i[u] = c
          PROVE  e.spentBy[c] = u \/ (e.spentBy[c] = None /\ ~e.spendable[c])
      BY <3>2, <2>1, <2>4, <1>4 DEF CalmCoin
    <3> QED BY <3>1, <3>2 DEF CalmCoin
  <2> QED BY <2>1, <2>2, <2>3, <2>4 DEF Shift
<1> QED BY <1>1, <1>3, <1>5, <1>6 DEF CalmState

\* The rows of t are written, and no coin is touched.
LEMMA CalmSame ==
  ASSUME NEW d, NEW e, NEW m, NEW n, NEW i, NEW K, NEW B, NEW L, NEW C, NEW t \in Txs,
         CalmState(d, m, i, K, B), K \subseteq L, B \subseteq C,
         RowsBut(d, e, t), Shrinks(m, n, t), n.task \in {m.task, None}, SameCoins(d, e),
         CalmRow(e, n, L, C, t), Claimant(e, n, t) => Claimant(d, m, t),
         e.tx[t] \in Gone => d.tx[t] \in Gone
  PROVE  CalmState(e, n, i, L, C)
<1>1. ASSUME NEW c \in Coins PROVE Shift(d, e, n, i, t, c)
  BY DEF Shift, SameCoins, CalmState, CalmCoin
<1> QED BY <1>1, CalmMoves

\* Transaction t is failed, and is over or its input is set aside.
LEMMA CalmFailed ==
  ASSUME NEW d, NEW e, NEW m, NEW n, NEW i, NEW K, NEW B, NEW L, NEW C, NEW t \in Txs,
         CalmState(d, m, i, K, B), K \subseteq L, B \subseteq C,
         RowsBut(d, e, t), Shrinks(m, n, t), n.task \in {m.task, None}, Failed(d, e, t),
         CalmRow(e, n, L, C, t), Claimant(e, n, t) => Claimant(d, m, t),
         Over(e, n, t) \/ (\A c \in Coins : d.spentBy[c] = t => ~e.spendable[c])
  PROVE  CalmState(e, n, i, L, C)
<1>1. ASSUME NEW c \in Coins PROVE Shift(d, e, n, i, t, c)
  <2>1. /\ e.spentBy[c] = IF c = t \/ d.spentBy[c] = t THEN None ELSE d.spentBy[c]
        /\ e.spendable[c] => c # t /\ (d.spendable[c] \/ d.spentBy[c] = t)
    BY DEF Failed
  <2> QED BY <2>1 DEF Shift, Claimant
<1> QED BY <1>1, CalmMoves

\* Another page, and a network that has grown.
LEMMA CalmPage ==
  ASSUME NEW d, NEW m, NEW n, NEW i, NEW K, NEW B, NEW L, NEW C,
         CalmState(d, m, i, K, B), K \subseteq L, B \subseteq C, n.task # "UnFail",
         \A u \in DOMAIN n.page :
            \/ u \in DOMAIN m.page /\ n.page[u] = m.page[u]
            \/ /\ n.page[u] = d.req[u]
               /\ d.req[u].status \in {"unsent", "sending", "unmined"}
  PROVE  CalmState(d, n, i, L, C)
<1>1. ASSUME NEW u \in Txs PROVE CalmRow(d, n, L, C, u) /\ (Over(d, m, u) => Over(d, n, u))
  <2>1. CalmRow(d, m, K, B, u)
    BY DEF CalmState
  <2>2. CASE u \in DOMAIN n.page /\ ~(u \in DOMAIN m.page /\ n.page[u] = m.page[u])
    <3>1. n.page[u] = d.req[u] /\ d.req[u].status \in {"unsent", "sending", "unmined"}
      BY <2>2
    <3> QED BY <2>1, <2>2, <3>1 DEF CalmRow, Over, None
  <2>3. CASE u \in DOMAIN n.page => u \in DOMAIN m.page /\ n.page[u] = m.page[u]
    BY <2>1, <2>3 DEF CalmRow, Over
  <2> QED BY <2>2, <2>3
<1>2. \A u \in Txs : Claimant(d, n, u) => Claimant(d, m, u)
  BY <1>1 DEF Claimant
<1>3. \A c \in Coins : CalmCoin(d, n, i, c)
  BY <1>2 DEF CalmState, CalmCoin
<1>4. CalmPairs(d, n, i)
  BY <1>2 DEF CalmState, CalmPairs
<1> QED BY <1>1, <1>3, <1>4 DEF CalmState

-----------------------------------------------------------------------------
(***************************************************************************)
(* Postings.  In a calm environment only a blocked transaction is refused, *)
(* and its input is no UTXO.                                               *)
(***************************************************************************)
LEMMA KnownApart == \A t \in KnownSet : t \notin Blocked
BY DEF KnownSet, Blocked

LEMMA BlockedInput ==
  ASSUME NetInv, NEW t \in Blocked
  PROVE  NotUtxo(input[t])
<1>1. t \in Txs /\ ~Known(t)
  BY DEF Blocked
<1>2. PICK u \in Lineage(t) : ~Known(u) /\ SpentOnNet(input[u])
  BY DEF Blocked, Acceptable
<1>3. CASE u = t
  BY <1>2, <1>3 DEF NotUtxo
<1>4. CASE u # t
  <2>1. ASSUME ~(input[t] \in Txs /\ ~Known(input[t])) PROVE FALSE
    <3>1. PICK S \in SUBSET Txs : S = KnownSet \cup {t}
      BY <1>1 DEF KnownSet
    <3>2. \A x \in S : input[x] \in Txs => input[x] \in S
      BY <3>1, <2>1 DEF NetInv, WithParents, KnownSet
    <3>3. Lineage(t) \subseteq S
      BY <1>1, <3>1, <3>2, AncestryLeast, LineageIs
    <3> QED BY <1>2, <1>4, <3>1, <3>3 DEF KnownSet
  <2> QED BY <2>1 DEF NotUtxo
<1> QED BY <1>3, <1>4

LEMMA RefusedBlocked ==
  ASSUME Calm, NEW t \in Txs, NEW result \in {"doubleSpend", "invalidTx"}, Posting(t, result)
  PROVE  t \in Blocked /\ net' = net
BY DEF Calm, Posting, Blocked

LEMMA PostingGrown ==
  ASSUME NEW t \in Txs, NEW result \in Results, Posting(t, result)
  PROVE  Grown(t) /\ (result = "success" => t \in KnownSet')
<1>1. Grown(t)
  BY DEF Posting, Grown
<1>2. ASSUME result = "success" PROVE t \in KnownSet'
  <2>1. net' = Accepted(t) /\ t \in Lineage(t)
    BY <1>2, AncestryFacts, LineageIs DEF Posting
  <2>2. net'[t] = IF ~Known(t) THEN "mempool" ELSE net[t]
    BY <2>1 DEF Accepted
  <2> QED BY <2>2 DEF KnownSet, Known
<1> QED BY <1>1, <1>2

\* A failure that the services confirm sets the input aside.
LEMMA RefusedAside ==
  ASSUME NEW d, NEW t \in Txs, NEW r, Ready(d, t, r), NEW result \in {"doubleSpend", "invalidTx"},
         NotUtxo(input[t]), NEW answered, answered
  PROVE  LET e == AttemptToPost(d, t, r, result, answered)
         IN \A c \in Coins : d.spentBy[c] = t => ~e.spendable[c]
<1>1. d \in Stores /\ r \in Reqs /\ AppliesResult(r) /\ ~d.linked[t] /\ d.tx[t] # "completed"
  BY DEF Ready, AppliesResult, Sendable, RowOK
<1>2. PICK f : f = WriteReq(d, t, r)
  OBVIOUS
<1>3. PICK p \in Reqs : ReqOnly(d, f, t, p) /\ p.status = r.status
  BY <1>1, <1>2, WriteReqFields
<1>4. /\ f \in Stores /\ f.linked = d.linked /\ f.tx = d.tx /\ f.req[t] = p
  BY <1>1, <1>3, StoreFields DEF ReqOnly, SameTxs
<1>5. AttemptToPost(d, t, r, result, answered) = ApplyResult(f, t, result, answered)
  BY <1>1, <1>2, <1>3, <1>4 DEF AttemptToPost, AppliesResult
<1>6. PICK g : g = WriteReq(f, t, ReqAfter(f.req[t], result))
  OBVIOUS
<1>7. ReqAfter(f.req[t], result) \in Reqs
  BY <1>3, <1>4, ReqAfterFields DEF Results
<1>8. g \in Stores /\ g.linked = f.linked /\ g.tx = f.tx
  BY <1>4, <1>6, <1>7, WriteReqFields DEF ReqOnly, SameTxs
<1>9. TxAfter(result) = "failed" /\ MayUpdate(g, t, "failed")
  BY <1>1, <1>4, <1>8 DEF TxAfter, MayUpdate
<1>10. PICK h : h = UpdateTransactionStatus(g, t, "failed")
  OBVIOUS
<1>11. h \in Stores
  BY <1>8, <1>9, <1>10, FailedFields DEF Failed
<1>12. ApplyResult(f, t, result, answered) = [h EXCEPT !.spendable[input[t]] = FALSE]
  BY <1>6, <1>9, <1>10 DEF ApplyResult
<1>13. PICK e : e = [h EXCEPT !.spendable[input[t]] = FALSE]
  OBVIOUS
<1>14. e.spendable = [h.spendable EXCEPT ![input[t]] = FALSE]
  BY <1>11, <1>13 DEF Stores
<1>15. ASSUME NEW c \in Coins, d.spentBy[c] = t PROVE ~e.spendable[c]
  <2>1. input[t] = c
    BY <1>15 DEF Ready, CoinInv, CoinOK
  <2> QED BY <2>1, <1>11, <1>14 DEF Stores
<1> QED BY <1>5, <1>12, <1>13, <1>15

(***************************************************************************)
(* Transaction t is posted from the store f, which is d but for the row of *)
(* t and for coins that nobody consumes.                                   *)
(***************************************************************************)
Prepared(d, f, t) ==
    /\ RowsBut(d, f, t) /\ f.spentBy = d.spentBy
    /\ \A c \in Coins : f.spendable[c] => d.spendable[c] \/ \A u \in Txs : input[u] # c
    /\ f.tx[t] \in Gone => f.tx[t] = d.tx[t]

LEMMA PostCalm ==
  ASSUME Calm, NetInv, net \in [Txs -> NetTypes], UNCHANGED <<input, rivals>>,
         NEW d, NEW f, NEW m, NEW n, NEW t \in Txs, NEW r, Ready(f, t, r), Prepared(d, f, t),
         NEW result \in Results, Posting(t, result), NEW answered, answered,
         CalmState(d, m, input, KnownSet, Blocked), Claimant(d, m, t),
         Shrinks(m, n, t), n.task \in {m.task, None}, r.wasBroadcast => t \in KnownSet,
         t \in DOMAIN n.page => t \in DOMAIN m.page /\ n.page[t] = m.page[t],
         NEW e, e = AttemptToPost(f, t, r, result, answered)
  PROVE  CalmState(e, n, input, KnownSet', Blocked')
<1>1. f \in Stores /\ r \in Reqs /\ AppliesResult(r) /\ ~f.linked[t] /\ f.tx[t] # "completed"
  BY DEF Ready, AppliesResult, Sendable, RowOK
<1>2. PICK q \in Reqs : Posted(f, e, t, q, result) /\ Answered(f, t, r, q, result)
  BY <1>1, AttemptFields
<1>3. /\ e \in Stores /\ e.req[t] = q /\ RowsBut(f, e, t)
      /\ q.status = StatusAfter(result) /\ (q.wasBroadcast <=> r.wasBroadcast \/ result = "success")
  BY <1>1, <1>2, AttemptSent, StoreFields DEF Posted, Answered, Sent
<1>4. RowsBut(d, e, t)
  BY <1>3 DEF RowsBut, Prepared
<1>5. /\ KnownSet \subseteq KnownSet' /\ Blocked \subseteq Blocked'
      /\ result = "success" => t \in KnownSet'
  BY PostingGrown, BlockedGrown
<1>6. result \in {"doubleSpend", "invalidTx"} => t \in Blocked
  BY RefusedBlocked
<1>7. f.tx[t] \in Gone => t \in Blocked
  BY DEF Prepared, CalmState, CalmRow, Claimant
<1>8. \/ e.tx[t] = "failed" /\ f.tx[t] = "failed" /\ SameCoins(f, e)
      \/ e.tx[t] \in {"unproven", "sending"} /\ SameCoins(f, e)
      \/ e.tx[t] = "failed" /\ result \in {"doubleSpend", "invalidTx"} /\ Failed(f, e, t)
  <2>1. CASE ~MayUpdate(f, t, TxAfter(result)) /\ SameTxs(f, e) /\ SameCoins(f, e)
    BY <2>1, <1>1 DEF MayUpdate, SameTxs
  <2>2. ASSUME NEW s \in {"unproven", "sending"}, e.tx = [f.tx EXCEPT ![t] = s], SameCoins(f, e)
        PROVE  e.tx[t] \in {"unproven", "sending"}
    BY <2>2, <1>1, StoreFields
  <2>3. ASSUME Failed(f, e, t) PROVE e.tx[t] = "failed"
    BY <2>3, <1>1, StoreFields DEF Failed
  <2> QED BY <1>2, <2>1, <2>2, <2>3 DEF Posted
<1>9. CalmRow(e, n, KnownSet', Blocked', t)
  <2>1. e.tx[t] \in Gone => t \in Blocked
    BY <1>6, <1>7, <1>8 DEF Gone
  <2>2. /\ q.status = "doubleSpend" => t \in Blocked
        /\ q.status # "unfail" /\ q.status # None
        /\ q.status = "invalid" => t \in Blocked
    BY <1>3, <1>6 DEF StatusAfter, Results, None
  <2>3. e.tx[t] \notin Early /\ e.tx[t] # "nosend"
    BY <1>8 DEF Early, None
  <2>4. q.wasBroadcast => t \in KnownSet'
    BY <1>3, <1>5
  <2>5. q.wasBroadcast => q.status # "invalid"
    BY <1>3, <1>6, KnownApart DEF StatusAfter, Results
  <2>6. t \in DOMAIN n.page => (n.page[t].wasBroadcast => t \in KnownSet)
    BY DEF CalmState, CalmRow
  <2> QED BY <1>3, <1>5, <2>1, <2>2, <2>3, <2>4, <2>5, <2>6 DEF CalmRow
<1>10. ASSUME NEW c \in Coins PROVE Shift(d, e, n, input, t, c)
  <2>1. CalmCoin(d, m, input, c)
    BY DEF CalmState
  <2>2. CASE SameCoins(f, e) /\ (e.tx[t] = "failed" => f.tx[t] = "failed")
                             /\ e.tx[t] \in {"failed", "unproven", "sending"}
    <3>1. e.tx[t] \in Gone => d.tx[t] \in Gone
      BY <2>2 DEF Prepared, Gone
    <3> QED BY <2>1, <2>2, <3>1 DEF Shift, Prepared, SameCoins, CalmCoin
  <2>3. CASE result \in {"doubleSpend", "invalidTx"} /\ Failed(f, e, t)
    <3>1. /\ e.spentBy[c] = IF c = t \/ f.spentBy[c] = t THEN None ELSE f.spentBy[c]
          /\ e.spendable[c] => c # t /\ (f.spendable[c] \/ f.spentBy[c] = t)
      BY <2>3 DEF Failed
    <3>2. f.spentBy[c] = t => ~e.spendable[c]
      BY <2>3, <1>6, BlockedInput, RefusedAside
    <3> QED BY <3>1, <3>2 DEF Shift, Prepared
  <2> QED BY <2>2, <2>3, <1>8
<1> QED BY <1>4, <1>5, <1>9, <1>10, CalmMoves

LEMMA ScheduledCalm ==
  ASSUME NEW K, NEW B, NEW d, NEW f, NEW m, NEW t \in Txs, Ready(f, t, f.req[t]), Prepared(d, f, t),
         CalmState(d, m, input, K, B), Claimant(d, m, t),
         f.req[t].wasBroadcast => t \in K, NEW e, e = Scheduled(f, t)
  PROVE  CalmState(e, m, input, K, B)
<1>1. f \in Stores /\ f.req[t] \in Reqs
  BY DEF Ready
<1>2. PICK q : q = [f.req[t] EXCEPT !.status = "unsent"]
  OBVIOUS
<1>3. q.status = "unsent" /\ q.wasBroadcast = f.req[t].wasBroadcast
  BY <1>1, <1>2 DEF Reqs
<1>4. /\ e.req = [f.req EXCEPT ![t] = q] /\ e.tx = [f.tx EXCEPT ![t] = "sending"]
      /\ SameCoins(f, e)
  BY <1>1, <1>2 DEF Scheduled, Stores, SameCoins
<1>5. e.req[t] = q /\ e.tx[t] = "sending"
  BY <1>1, <1>4, StoreFields
<1>6. RowsBut(d, e, t)
  BY ScheduledSent DEF Sent, RowsBut, Prepared
<1>7. CalmRow(e, m, K, B, t)
  BY <1>3, <1>5 DEF CalmState, CalmRow, Gone, Early, None
<1>8. ASSUME NEW c \in Coins PROVE Shift(d, e, m, input, t, c)
  BY <1>4, <1>5 DEF Shift, Prepared, SameCoins, Gone
<1>9. Shrinks(m, m, t)
  BY DEF Shrinks
<1> QED BY <1>6, <1>7, <1>8, <1>9, CalmMoves

-----------------------------------------------------------------------------
(***************************************************************************)
(* The steps.                                                              *)
(***************************************************************************)
LEMMA CalmStep ==
  ASSUME NetInv', UNCHANGED <<input, env>>, NEW e, NEW n, db' = e, monitor' = n,
         Calm => CalmState(e, n, input, KnownSet', Blocked')
  PROVE  CalmInv'
<1>1. Calm' = Calm
  BY DEF Calm, Rejections, Outages, Merges, Crashes, Tasks
<1> QED BY <1>1 DEF CalmInv

LEMMA QuietNet ==
  ASSUME CalmInv, UNCHANGED <<input, network, shared>>,
         \A u \in Txs : db.tx[u] # None => db'.tx[u] # None
  PROVE  NetInv' /\ KnownSet' = KnownSet /\ Blocked' = Blocked
<1>1. input' = input /\ net' = net /\ rivals' = rivals /\ shared' = shared
  BY DEF network
<1>2. KnownSet' = KnownSet /\ \A u : Known(u)' <=> Known(u)
  BY <1>1 DEF KnownSet, Known
<1>3. Blocked' = Blocked
  BY <1>1 DEF Blocked, Acceptable, Lineage, WithParents, Known, SpentOnNet
<1>4. NetInv'
  BY <1>1, <1>2 DEF CalmInv, NetInv, WithParents
<1> QED BY <1>2, <1>3, <1>4

\* A step of the wallet or of a task that leaves the network alone.
LEMMA CalmQuiet ==
  ASSUME CalmInv, UNCHANGED <<input, network, shared>>, NEW e, NEW n, db' = e, monitor' = n,
         \A u \in Txs : db.tx[u] # None => e.tx[u] # None,
         Calm => CalmState(e, n, input, KnownSet, Blocked)
  PROVE  CalmInv'
<1>1. NetInv' /\ KnownSet' = KnownSet /\ Blocked' = Blocked
  BY QuietNet
<1> QED BY <1>1, CalmStep DEF network

LEMMA ShareCalm ==
  ASSUME ActionInv, CalmInv, NEW t \in Txs, NEW f, Ready(f, t, f.req[t]), Prepared(db, f, t),
         NEW delayed \in BOOLEAN, Share(f, t, delayed), UNCHANGED <<input, rivals, monitor, env>>,
         db.tx[t] # None,
         Calm => Claimant(db, monitor, t) /\ (f.req[t].wasBroadcast => t \in KnownSet)
  PROVE  CalmInv'
<1>1. TypeOK /\ net \in [Txs -> NetTypes]
  BY DEF ActionInv, TypeOK, NetTypes
<1>2. Sent(f, db', t)
  BY <1>1, ShareSent
<1>3. \A u \in Txs : db.tx[u] # None => db'.tx[u] # None
  BY <1>2 DEF Sent, RowsBut, Prepared
<1>4. Grown(t) /\ shared' \subseteq shared \cup {t}
  BY PostingGrown DEF Share, Grown
<1>5. NetInv'
  BY <1>3, <1>4, NetInvGrown DEF CalmInv
<1>6. PICK d, e, m : d = db /\ e = db' /\ m = monitor
  OBVIOUS
<1>7. ASSUME Calm PROVE CalmState(e, m, input, KnownSet', Blocked')
  <2>1. CalmState(d, m, input, KnownSet, Blocked)
    BY <1>6, <1>7 DEF CalmInv
  <2>2. Shrinks(m, m, t) /\ Prepared(d, f, t) /\ Claimant(d, m, t)
        /\ (f.req[t].wasBroadcast => t \in KnownSet)
    BY <1>6, <1>7 DEF Shrinks
  <2>3. CASE e = Scheduled(f, t) /\ net' = net
    <3>1. KnownSet' = KnownSet /\ Blocked \subseteq Blocked'
      BY <1>1, <1>4, <2>3, BlockedGrown DEF KnownSet, Known
    <3>2. CalmState(e, m, input, KnownSet', Blocked)
      BY <2>1, <2>2, <2>3, <3>1, ScheduledCalm
    <3>3. m.task # "UnFail"
      BY <2>1 DEF CalmState
    <3> QED BY <3>1, <3>2, <3>3, CalmPage
  <2>4. ASSUME NEW result \in Results, NEW answered \in Answers, Posting(t, result),
               e = AttemptToPost(f, t, f.req[t], result, answered)
        PROVE  CalmState(e, m, input, KnownSet', Blocked')
    <3>1. answered
      BY <1>7 DEF Answers, Calm
    <3> QED BY <3>1, <1>1, <1>7, <2>1, <2>2, <2>4, PostCalm DEF CalmInv
  <2>5. Crashes = {} /\ ~Outages /\ ~Merges
    BY <1>7 DEF Calm
  <2> QED BY <1>6, <2>3, <2>4, <2>5 DEF Share
<1>8. UNCHANGED <<input, env>> /\ monitor' = m
  BY <1>6
<1> QED BY <1>5, <1>6, <1>7, <1>8, CalmStep

LEMMA ProcessActionCalm ==
  ASSUME ActionInv, CalmInv, NEW t \in Txs, NEW mode \in Modes, ProcessAction(t, mode)
  PROVE  CalmInv'
<1>1. /\ db.tx[t] \in {"unsigned", "unprocessed"} /\ UNCHANGED <<input, rivals, monitor, env>>
      /\ db \in Stores /\ RowOK(t, db.tx[t], db.req[t], db.linked[t]) /\ db.req[t] \in Reqs
  BY StepContext DEF ProcessAction
<1>2. PICK d, f, m : d = db /\ f = Committed(t, mode) /\ m = monitor
  OBVIOUS
<1>3. /\ Sent(f, f, t) /\ RowsBut(db, f, t)
      /\ ReadyToSend(f, t) => Ready(f, t, f.req[t])
  BY <1>1, <1>2, CommittedReady
<1> DEFINE s == CASE mode = "noSend" -> "nosend"
                  [] mode = "delayed" -> "unsent"
                  [] mode = "immediate" -> "unprocessed"
           x == IF mode = "noSend" THEN "nosend" ELSE "unprocessed"
<1>4. s \in ReqStatus /\ s \in Sendable /\ (mode = "noSend" => s = "nosend")
  BY DEF ReqStatus, Sendable, Modes
<1> HIDE DEF s
<1>5. PICK q : q = [db.req[t] EXCEPT !.status = IF @ = None THEN s ELSE @]
  OBVIOUS
<1>6. q.wasBroadcast = db.req[t].wasBroadcast /\ (db.req[t].status = None => q.status = s)
  BY <1>1, <1>5 DEF Reqs
<1>7. /\ f.spendable = [db.spendable EXCEPT ![t] = TRUE] /\ f.spentBy = db.spentBy
      /\ f.tx = [db.tx EXCEPT ![t] = x] /\ f.req = [db.req EXCEPT ![t] = q]
  BY <1>1, <1>2, <1>5 DEF Committed, Stores, s
<1>8. /\ f.tx[t] = x /\ f.req[t] = q
      /\ \A c \in Coins : c # t => f.spendable[c] = db.spendable[c]
  BY <1>1, <1>7, StoreFields
<1>9. Prepared(db, f, t)
  <2>1. \A u \in Txs : input[u] # t
    BY <1>1 DEF RowOK, Early
  <2> QED BY <1>3, <1>7, <1>8, <2>1 DEF Prepared, Gone
<1>10. db.tx[t] # None /\ db.tx[t] \notin Gone /\ db.tx[t] \in Early
  BY <1>1 DEF Gone, Early, None
<1>11. Claimant(db, monitor, t)
  BY <1>10 DEF Claimant, Over
<1>12. Calm => /\ q.wasBroadcast => t \in KnownSet
               /\ db.req[t].status = None /\ t \notin DOMAIN monitor.page
               /\ q.wasBroadcast => MaxRebroadcast # 0
  BY <1>6, <1>10 DEF CalmInv, CalmState, CalmRow
<1>13. CASE mode # "noSend" /\ ReadyToSend(f, t)
  <2>1. Share(f, t, mode = "delayed") /\ (mode = "delayed") \in BOOLEAN
    BY <1>2, <1>13 DEF ProcessAction
  <2>2. Ready(f, t, f.req[t])
    BY <1>3, <1>13
  <2> QED BY <1>1, <1>8, <1>9, <1>10, <1>11, <1>12, <2>1, <2>2, ShareCalm
<1>14. CASE mode = "noSend"
  <2>1. db' = f /\ shared' = shared \cup {t} /\ net' = net
    BY <1>2, <1>14 DEF ProcessAction
  <2>2. \A u \in Txs : db.tx[u] # None => f.tx[u] # None
    BY <1>3, <1>8, <1>14 DEF RowsBut, None
  <2>3. net \in [Txs -> NetTypes] /\ Grown(t) /\ KnownSet' = KnownSet
    BY <2>1 DEF ActionInv, TypeOK, NetTypes, Grown, KnownSet, Known
  <2>4. NetInv' /\ Blocked \subseteq Blocked'
    BY <1>1, <1>10, <2>1, <2>2, <2>3, NetInvGrown, BlockedGrown DEF CalmInv
  <2>5. ASSUME Calm PROVE CalmState(f, m, input, KnownSet', Blocked')
    <3>1. CalmState(d, m, input, KnownSet, Blocked) /\ Prepared(d, f, t) /\ Claimant(d, m, t)
      BY <1>2, <1>9, <1>11, <2>5 DEF CalmInv
    <3>2. f.tx[t] = "nosend" /\ f.req[t].status = "nosend" /\ t \notin DOMAIN m.page
          /\ (f.req[t].wasBroadcast => t \in KnownSet)
      BY <1>2, <1>4, <1>6, <1>8, <1>12, <1>14, <2>5
    <3>3. CalmRow(f, m, KnownSet', Blocked', t)
      BY <2>3, <3>2 DEF CalmRow, Gone, Early, None
    <3>4. ASSUME NEW c \in Coins PROVE Shift(d, f, m, input, t, c)
      BY <3>1, <3>2 DEF Shift, Prepared, Gone
    <3>5. Shrinks(m, m, t) /\ RowsBut(d, f, t)
      BY <3>1 DEF Shrinks, Prepared
    <3> QED BY <2>3, <2>4, <3>1, <3>3, <3>4, <3>5, CalmMoves
  <2> QED BY <1>1, <1>2, <2>1, <2>4, <2>5, CalmStep
<1>15. CASE mode # "noSend" /\ ~ReadyToSend(f, t)
  <2>1. db' = f /\ UNCHANGED <<input, network, shared>>
    BY <1>1, <1>2, <1>15 DEF ProcessAction, network
  <2>2. \A u \in Txs : db.tx[u] # None => f.tx[u] # None
    BY <1>3 DEF Sent, RowsBut
  <2>3. ~Calm
    <3>1. ~q.proven
      BY <1>3, <1>8 DEF Sent
    <3>2. q.status \notin Sendable
      BY <3>1, <1>8, <1>15 DEF ReadyToSend, Sendable
    <3> QED BY <3>2, <1>4, <1>6, <1>12
  <2> QED BY <1>1, <1>2, <2>1, <2>2, <2>3, CalmQuiet
<1> QED BY <1>13, <1>14, <1>15

LEMMA SendWithCalm ==
  ASSUME ActionInv, CalmInv, NEW t \in Txs, NEW delayed \in BOOLEAN, SendWith(t, delayed)
  PROVE  CalmInv'
<1>1. /\ db \in Stores /\ CoinInv(db) /\ RowOK(t, db.tx[t], db.req[t], db.linked[t])
      /\ db.req[t] \in Reqs
  BY StepContext
<1>2. db.req[t].status \in Sendable /\ ~db.req[t].proven
  BY DEF SendWith, ReadyToSend, Sendable
<1>3. db.tx[t] # None
  BY <1>1, <1>2 DEF RowOK, Sendable, None
<1>4. PICK f : f = db
  OBVIOUS
<1>5. Ready(f, t, f.req[t]) /\ Prepared(db, f, t)
  BY <1>1, <1>2, <1>3, <1>4 DEF Ready, RowOK, Sendable, None, Prepared, RowsBut
<1>6. Claimant(db, monitor, t)
  BY <1>2, <1>3 DEF Claimant, Over, Sendable, None
<1>7. Calm => (f.req[t].wasBroadcast => t \in KnownSet)
  BY <1>4 DEF CalmInv, CalmState, CalmRow
<1>8. Share(f, t, delayed) /\ UNCHANGED <<input, rivals, monitor, env>>
  BY <1>4 DEF SendWith
<1> QED BY <1>3, <1>5, <1>6, <1>7, <1>8, ShareCalm

\* A new action changes the ancestors of no other.
LEMMA CreateNet ==
  ASSUME ActionInv, CalmInv, NEW t \in Txs, NEW c \in Coins, CreateAction(t, c)
  PROVE  /\ NetInv' /\ KnownSet \subseteq KnownSet' /\ t \notin KnownSet
         /\ \A u \in Blocked : u # t => u \in Blocked'
<1>1. TypeOK /\ RowOK(t, db.tx[t], db.req[t], db.linked[t]) /\ db \in Stores
  BY StepContext
<1>2. /\ db.tx[t] = None /\ (c \in Txs => db.tx[c] \notin Early)
      /\ input' = [input EXCEPT ![t] = c]
      /\ UNCHANGED <<shared, net, rivals, env>>
  BY DEF CreateAction, Fundable, Early, None, network
<1>3. /\ \A u \in Txs : input[u] # t
      /\ c # t /\ input'[t] = c /\ \A u \in Txs : u # t => input'[u] = input[u]
      /\ input[t] = None
  BY <1>1, <1>2 DEF RowOK, Early, TypeOK
<1>4. ~Known(t) /\ t \notin shared /\ KnownSet' = KnownSet /\ \A u : Known(u)' <=> Known(u)
  BY <1>2 DEF CalmInv, NetInv, KnownSet, Known
<1>5. ASSUME NEW k, SpentOnNet(k), k \in Coins PROVE SpentOnNet(k)'
  <2>1. CASE k \in rivals
    BY <2>1, <1>2 DEF SpentOnNet
  <2>2. ASSUME NEW u \in Txs, Known(u), input[u] = k PROVE SpentOnNet(k)'
    <3>1. u # t
      BY <2>2, <1>4
    <3> QED BY <3>1, <2>2, <1>3, <1>4 DEF SpentOnNet
  <2> QED BY <1>5, <2>1, <2>2 DEF SpentOnNet
<1>6. ASSUME NEW u \in Blocked, u # t PROVE u \in Blocked'
  <2>1. u \in Txs /\ ~Known(u)
    BY DEF Blocked
  <2>2. PICK v \in Lineage(u) : ~Known(v) /\ SpentOnNet(input[v])
    BY DEF Blocked, Acceptable
  <2>3. v \in Txs /\ t \notin Lineage(u) /\ v # t
    BY <1>3, <1>6, <2>1, <2>2, LineageIs, AncestryFacts, AncestryUsed
  <2>4. v \in Lineage(u)'
    <3>1. PICK i, j : i = input /\ j = input'
      OBVIOUS
    <3>2. Ancestry(j, u) = Ancestry(i, u)
      BY <3>1, <1>3, <1>6, <2>1, AncestrySame
    <3> QED BY <3>1, <3>2, <2>1, <2>2, LineageIs
  <2>5. input[v] \in Coins
    <3>1. ASSUME NEW w \in Txs, Known(w) PROVE input[w] # None
      <4>1. db.tx[w] # None /\ RowOK(w, db.tx[w], db.req[w], db.linked[w])
        BY <3>1, StepContext DEF CalmInv, NetInv
      <4> QED BY <4>1, NoneApart DEF RowOK, Coins
    <3>2. input[v] # None
      BY <2>2, <3>1, <1>1, NoneApart DEF SpentOnNet, TypeOK
    <3> QED BY <3>2, <2>3, <1>1 DEF TypeOK
  <2>6. PICK k : k = input[v]
    OBVIOUS
  <2>7. SpentOnNet(k)' /\ ~Known(v)' /\ input'[v] = k
    BY <1>3, <1>4, <1>5, <2>2, <2>3, <2>5, <2>6
  <2> QED BY <1>4, <2>1, <2>4, <2>7 DEF Blocked, Acceptable
<1>7. NetInv'
  <2>1. \A u \in Txs : (u \in shared \/ Known(u))' => db'.tx[u] # None
    <3>1. ASSUME NEW u \in Txs, db.tx[u] # None PROVE db'.tx[u] # None
      <4>1. db'.tx = [db.tx EXCEPT ![t] = "unsigned"]
        BY <1>1 DEF CreateAction, Claim, Stores
      <4> QED BY <4>1, <3>1, <1>1, <1>2, StoreFields
    <3> QED BY <3>1, <1>2, <1>4 DEF CalmInv, NetInv
  <2>2. WithParents(KnownSet)'
    BY <1>3, <1>4 DEF CalmInv, NetInv, WithParents, KnownSet
  <2> QED BY <2>1, <2>2 DEF NetInv
<1> QED BY <1>4, <1>6, <1>7 DEF KnownSet

LEMMA CreateActionCalm ==
  ASSUME ActionInv, CalmInv, NEW t \in Txs, NEW c \in Coins, CreateAction(t, c)
  PROVE  CalmInv'
<1>1. /\ TypeOK /\ db \in Stores /\ CoinInv(db) /\ RowOK(t, db.tx[t], db.req[t], db.linked[t])
      /\ t \in DOMAIN monitor.page => OnPage(db, monitor, t)
  BY StepContext
<1>2. /\ db.tx[t] = None /\ db.spendable[c] /\ db.spentBy[c] = None /\ env' = env /\ monitor' = monitor
      /\ input' = [input EXCEPT ![t] = c]
      /\ c \in Txs => db.tx[c] \notin Gone \cup Early
  BY DEF CreateAction, Fundable, Early, Gone, None, network
<1>3. c # t /\ t \in Coins /\ db.req[t].status = None /\ t \notin DOMAIN monitor.page
      /\ \A u \in Txs : input[u] # t
  BY <1>1, <1>2 DEF Early, Coins, RowOK, OnPage
<1>4. PICK d, e, m, i, j : d = db /\ e = db' /\ m = monitor /\ i = input /\ j = input'
  OBVIOUS
<1>5. e = [db EXCEPT !.tx[t] = "unsigned", !.spendable[c] = FALSE, !.spendable[t] = TRUE,
                     !.spentBy[c] = t]
  BY <1>1, <1>3, <1>4 DEF CreateAction, Claim, Stores
<1>6. /\ e.req = d.req /\ e.tx = [d.tx EXCEPT ![t] = "unsigned"]
      /\ e.spentBy = [d.spentBy EXCEPT ![c] = t]
      /\ e.spendable = [d.spendable EXCEPT ![c] = FALSE, ![t] = TRUE]
  BY <1>1, <1>4, <1>5 DEF Stores
<1>7. /\ e.tx[t] = "unsigned" /\ \A u \in Txs : u # t => e.tx[u] = d.tx[u]
      /\ e.spentBy[c] = t
      /\ \A k \in Coins : k # c => e.spentBy[k] = d.spentBy[k]
      /\ \A k \in Coins : k # c /\ k # t => e.spendable[k] = d.spendable[k]
  BY <1>1, <1>3, <1>4, <1>6, StoreFields
<1>8. j[t] = c /\ \A u \in Txs : u # t => j[u] = i[u]
  BY <1>1, <1>2, <1>4 DEF TypeOK
<1>9. /\ NetInv' /\ KnownSet \subseteq KnownSet' /\ t \notin KnownSet
      /\ \A u \in Blocked : u # t => u \in Blocked'
  BY CreateNet
<1>10. ASSUME Calm PROVE CalmState(e, m, j, KnownSet', Blocked')
  <2>1. CalmState(d, m, i, KnownSet, Blocked)
    BY <1>4, <1>10 DEF CalmInv
  <2>2. ASSUME NEW u \in Txs PROVE CalmRow(e, m, KnownSet', Blocked', u)
    <3>1. CalmRow(d, m, KnownSet, Blocked, u)
      BY <2>1 DEF CalmState
    <3>2. CASE u = t
      BY <3>1, <3>2, <1>2, <1>3, <1>4, <1>6, <1>7, <1>9 DEF CalmRow, Gone, Early, None
    <3>3. CASE u # t
      BY <3>1, <3>3, <1>6, <1>7, <1>9 DEF CalmRow, Over
    <3> QED BY <3>2, <3>3
  <2>3. ASSUME NEW u \in Txs, Claimant(e, m, u), u # t PROVE Claimant(d, m, u) /\ i[u] # c
    <3>1. Claimant(d, m, u)
      BY <2>3, <1>6, <1>7 DEF Claimant, Over
    <3> QED BY <3>1, <2>1, <1>2, <1>4, NoneApart DEF CalmState, CalmCoin
  <2>4. CalmPairs(e, m, j)
    BY <2>1, <2>3, <1>8 DEF CalmState, CalmPairs
  <2>5. ASSUME NEW k \in Coins PROVE CalmCoin(e, m, j, k)
    <3>1. CalmCoin(d, m, i, k)
      BY <2>1 DEF CalmState
    <3>2. CASE k = c
      <4>1. e.tx[t] \notin Gone
        BY <1>7 DEF Gone
      <4> QED BY <3>2, <4>1, <2>3, <1>7, <1>8 DEF CalmCoin
    <3>3. CASE k = t
      <4>1. d.spentBy[t] \notin Txs
        BY <1>1, <1>3, <1>4 DEF CoinInv, CoinOK
      <4>2. \A u \in Txs : j[u] # t
        BY <1>3, <1>4, <1>8
      <4> QED BY <3>3, <4>1, <4>2, <1>3, <1>7 DEF CalmCoin
    <3>4. CASE k # c /\ k # t
      <4>1. e.spentBy[k] = d.spentBy[k] /\ e.spendable[k] = d.spendable[k]
        BY <3>4, <1>7
      <4>2. d.spentBy[k] \in Txs => e.tx[d.spentBy[k]] \notin Gone
        BY <3>1, <1>7 DEF CalmCoin, Gone
      <4> QED BY <3>1, <3>4, <4>1, <4>2, <2>3, <1>8 DEF CalmCoin
    <3> QED BY <3>2, <3>3, <3>4
  <2> QED BY <2>1, <2>2, <2>4, <2>5 DEF CalmState
<1>11. Calm' = Calm
  BY <1>2 DEF Calm, Rejections, Outages, Merges, Crashes, Tasks
<1>12. db' = e /\ monitor' = m /\ input' = j
  BY <1>2, <1>4
<1> QED BY <1>9, <1>10, <1>11, <1>12 DEF CalmInv

\* Action t is failed, and its request may be marked invalid: then it is over,
\* or it was gone and blocked before.
LEMMA GivenUpCalm ==
  ASSUME ActionInv, CalmInv, NEW t \in Txs, db.tx[t] # None,
         NEW f, f = UpdateTransactionStatus(db, t, "failed"),
         NEW e, db' = e,
         IF db.req[t].status = None THEN e = f
         ELSE e = WriteReq(f, t, SetStatus(db.req[t], "invalid")),
         UNCHANGED <<input, shared, network, monitor>>,
         db.tx[t] \in Early \cup {"nosend", "unfail"},
         Calm => (db.tx[t] = "nosend" => t \notin KnownSet)
  PROVE  CalmInv'
<1>1. /\ db \in Stores /\ CoinInv(db) /\ db.req[t] \in Reqs
      /\ RowOK(t, db.tx[t], db.req[t], db.linked[t])
  BY StepContext
<1>2. \/ f = db
      \/ Failed(db, f, t) /\ f.req = db.req
  BY <1>1, UpdateFields DEF TxStatus
<1>3. f \in Stores /\ RowsBut(db, f, t) /\ f.req = db.req /\ f.tx[t] \in {db.tx[t], "failed"}
  BY <1>1, <1>2, StoreFields DEF Failed, RowsBut
<1>4. PICK d, n : d = db /\ n = monitor
  OBVIOUS
<1>5. /\ RowsBut(d, e, t) /\ SameCoins(f, e) /\ SameTxs(f, e) /\ e \in Stores
      /\ e.req[t].status \in {None, "invalid"}
      /\ e.req[t].wasBroadcast = d.req[t].wasBroadcast
      /\ d.req[t].status # None => e.req[t].status = "invalid"
  <2>1. CASE db.req[t].status = None
    BY <2>1, <1>3, <1>4 DEF SameCoins, SameTxs
  <2>2. CASE db.req[t].status # None
    <3>1. PICK p : p = SetStatus(db.req[t], "invalid")
      OBVIOUS
    <3>2. p \in Reqs /\ p.status = "invalid" /\ p.wasBroadcast = db.req[t].wasBroadcast
      <4>1. p \in Reqs /\ p.status = "invalid" /\ (p.wasBroadcast <=> db.req[t].wasBroadcast)
        BY <3>1, <1>1, SetStatusFields DEF ReqStatus
      <4> QED BY <4>1, <1>1 DEF Reqs
    <3>3. PICK q \in Reqs : ReqOnly(f, e, t, q) /\ q.status = p.status /\ q.wasBroadcast = p.wasBroadcast
      BY <2>2, <3>1, <3>2, <1>3, WriteReqFields
    <3>4. /\ e \in Stores /\ SameTxs(f, e) /\ SameCoins(f, e) /\ e.req[t] = q
          /\ \A u \in Txs : u # t => e.req[u] = f.req[u]
      BY <3>3, <1>3, StoreFields DEF ReqOnly
    <3>5. RowsBut(d, e, t)
      BY <3>4, <1>3, <1>4 DEF RowsBut, SameTxs
    <3> QED BY <3>2, <3>3, <3>4, <3>5, <1>4
  <2> QED BY <2>1, <2>2
<1>6. ASSUME Calm PROVE CalmState(e, n, input, KnownSet, Blocked)
  <2>1. CalmState(d, n, input, KnownSet, Blocked) /\ CalmRow(d, n, KnownSet, Blocked, t)
    BY <1>4, <1>6 DEF CalmInv, CalmState
  <2>2. d.tx[t] \in Early \cup {"nosend", "unfail"} /\ (d.tx[t] = "nosend" => t \notin KnownSet)
    BY <1>4, <1>6
  <2>9. MayUpdate(db, t, "failed")
    <3>1. ~db.linked[t]
      BY <1>1, <1>6 DEF RowOK, Calm, Early, None
    <3> QED BY <3>1 DEF MayUpdate, Early, None
  <2>10. Failed(d, e, t) /\ e.tx[t] = "failed"
    <3>1. Failed(db, f, t)
      BY <1>1, <2>9, FailedFields
    <3> QED BY <3>1, <1>1, <1>4, <1>5, StoreFields DEF Failed, SameCoins, SameTxs
  <2>3. \/ Over(e, n, t)
        \/ t \in Blocked /\ d.tx[t] \in Gone
    BY <1>5, <2>1, <2>2, <2>10 DEF CalmRow, Over, Gone
  <2>4. d.req[t].wasBroadcast => MaxRebroadcast # 0
    BY <2>1, <2>2, KnownApart DEF CalmRow, Over, Gone
  <2>5. CalmRow(e, n, KnownSet, Blocked, t)
    BY <1>5, <2>1, <2>3, <2>4, <2>10 DEF CalmRow, Gone, Early, None
  <2>6. Claimant(e, n, t) => Claimant(d, n, t)
    BY <1>4, <1>5, <2>3, <2>10 DEF Claimant, Over, Gone
  <2>7. Over(e, n, t) \/ (\A c \in Coins : d.spentBy[c] = t => ~e.spendable[c])
    BY <2>1, <2>3 DEF CalmState, CalmCoin
  <2>8. Shrinks(n, n, t)
    BY DEF Shrinks
  <2> QED BY <1>5, <2>1, <2>5, <2>6, <2>7, <2>8, <2>10, CalmFailed
<1>7. \A u \in Txs : db.tx[u] # None => e.tx[u] # None
  BY <1>3, <1>4, <1>5 DEF RowsBut, SameTxs, None
<1>8. monitor' = n
  BY <1>4
<1> QED BY <1>6, <1>7, <1>8, CalmQuiet

LEMMA AbortActionCalm ==
  ASSUME ActionInv, CalmInv, NEW t \in Txs, AbortAction(t)
  PROVE  CalmInv'
<1>1. /\ db.tx[t] \in Early \cup {"nosend", "unfail"} /\ db.tx[t] # None
      /\ Calm => (db.tx[t] = "nosend" => t \notin KnownSet)
  BY DEF AbortAction, Early, Calm, KnownSet, None
<1>2. PICK f, e : f = UpdateTransactionStatus(db, t, "failed") /\ e = db'
  OBVIOUS
<1>3. IF db.req[t].status = None THEN e = f ELSE e = WriteReq(f, t, SetStatus(db.req[t], "invalid"))
  BY <1>2 DEF AbortAction
<1>4. UNCHANGED <<input, shared, network, monitor>>
  BY DEF AbortAction
<1> QED BY <1>1, <1>2, <1>3, <1>4, GivenUpCalm

\* The rows of t are written, when nobody touches the network or the coins.
LEMMA RowsCalm ==
  ASSUME CalmInv, UNCHANGED <<input, shared, network>>, NEW t \in Txs, NEW e, NEW n,
         db' = e, monitor' = n, RowsBut(db, e, t), SameCoins(db, e), Shrinks(monitor, n, t),
         n.task \in {monitor.task, None}, db.tx[t] # None => e.tx[t] # None,
         Calm => /\ CalmRow(e, n, KnownSet, Blocked, t)
                 /\ Claimant(e, n, t) => Claimant(db, monitor, t)
                 /\ e.tx[t] \in Gone => db.tx[t] \in Gone
  PROVE  CalmInv'
<1>1. \A u \in Txs : db.tx[u] # None => e.tx[u] # None
  BY DEF RowsBut
<1>2. Calm => CalmState(e, n, input, KnownSet, Blocked)
  BY CalmSame DEF CalmInv
<1> QED BY <1>1, <1>2, CalmQuiet

\* Uncommitted actions have no request, so that failing them ends them.
LEMMA FailAbandonedCalm ==
  ASSUME ActionInv, CalmInv, NEW t \in Txs, FailAbandoned(t)
  PROVE  CalmInv'
<1>1. /\ db \in Stores /\ db.req[t] \in Reqs /\ db.tx[t] \in Early /\ db.tx[t] # None
  BY StepContext DEF FailAbandoned, Early, None
<1>2. PICK d, e, n : d = db /\ e = db' /\ n = monitor
  OBVIOUS
<1>3. /\ e = d \/ (Failed(d, e, t) /\ e.req = d.req)
      /\ UNCHANGED <<input, shared, network>> /\ monitor' = n
  BY <1>1, <1>2, UpdateFields DEF FailAbandoned, TxStatus
<1>4. RowsBut(d, e, t) /\ e.req = d.req /\ e.tx[t] \in {d.tx[t], "failed"}
      /\ (Failed(d, e, t) => e.tx[t] = "failed")
  BY <1>1, <1>2, <1>3, StoreFields DEF Failed, RowsBut
<1>5. ASSUME Calm PROVE CalmState(e, n, input, KnownSet, Blocked)
  <2>1. CalmState(d, n, input, KnownSet, Blocked)
    BY <1>2, <1>5 DEF CalmInv
  <2>2. CalmRow(d, n, KnownSet, Blocked, t)
    BY <2>1 DEF CalmState
  <2>3. d.req[t].status = None /\ t \notin DOMAIN n.page
    BY <1>1, <1>2, <2>2 DEF CalmRow
  <2>4. CASE e = d
    BY <2>1, <2>4
  <2>5. CASE Failed(d, e, t)
    <3>1. Over(e, n, t)
      BY <1>4, <2>3, <2>5 DEF Over, Gone
    <3>2. CalmRow(e, n, KnownSet, Blocked, t)
      BY <1>4, <2>2, <2>3, <2>5, <3>1 DEF CalmRow, Gone, Early, None
    <3>3. Shrinks(n, n, t) /\ ~Claimant(e, n, t)
      BY <3>1 DEF Shrinks, Claimant
    <3> QED BY <1>4, <2>1, <2>5, <3>1, <3>2, <3>3, CalmFailed
  <2> QED BY <1>3, <2>4, <2>5
<1>6. \A u \in Txs : db.tx[u] # None => e.tx[u] # None
  BY <1>2, <1>4 DEF RowsBut, None
<1> QED BY <1>2, <1>3, <1>5, <1>6, CalmQuiet

LEMMA RequestUnfailCalm ==
  ASSUME ActionInv, CalmInv, NEW t \in Txs, RequestUnfail(t)
  PROVE  CalmInv'
<1>1. db \in Stores /\ db.tx[t] = "failed" /\ UNCHANGED <<input, shared, network, monitor>>
  BY StepContext DEF RequestUnfail
<1>2. PICK e, n : e = db' /\ n = monitor
  OBVIOUS
<1>3. TxOnly(db, e, t, "unfail")
  BY <1>1, <1>2, TxOnlyFields DEF RequestUnfail, TxStatus
<1>4. e.req = db.req /\ SameCoins(db, e) /\ RowsBut(db, e, t) /\ e.tx[t] = "unfail"
  BY <1>1, <1>3, StoreFields DEF TxOnly, RowsBut
<1>5. Shrinks(monitor, n, t)
  BY <1>2 DEF Shrinks
<1>6. Calm => CalmRow(db, monitor, KnownSet, Blocked, t)
  BY DEF CalmInv, CalmState
<1>7. Calm => CalmRow(e, n, KnownSet, Blocked, t)
  BY <1>1, <1>2, <1>4, <1>6 DEF CalmRow, Over, Gone, Early, None
<1>8. Claimant(e, n, t) => Claimant(db, monitor, t)
  BY <1>1, <1>2, <1>4 DEF Claimant, Over, Gone, None
<1> QED BY <1>1, <1>2, <1>4, <1>5, <1>7, <1>8, RowsCalm DEF Gone, None

\* What is marked as a double spend is blocked, so that no review finds it known.
LEMMA ReviewDoubleSpendCalm ==
  ASSUME ActionInv, CalmInv, NEW t \in Txs, ReviewDoubleSpend(t)
  PROVE  CalmInv'
<1>1. ~Calm
  BY DEF ReviewDoubleSpend, CalmInv, CalmState, CalmRow, Blocked
<1>2. UNCHANGED <<input, shared, network, monitor>> /\ db'.tx = db.tx
  BY StepContext DEF ReviewDoubleSpend, Stores
<1>3. PICK e, n : e = db' /\ n = monitor
  OBVIOUS
<1> QED BY <1>1, <1>2, <1>3, CalmQuiet

LEMMA ReadPageCalm ==
  ASSUME ActionInv, CalmInv, NEW task \in TaskNames, ReadPage(task)
  PROVE  CalmInv'
<1>1. UNCHANGED <<db, input, shared, network>> /\ task \in Tasks
  BY DEF ReadPage
<1>2. PICK page \in (SUBSET {t \in Txs : db.req[t].status \in Wanted(task)}) \ {{}} :
        /\ monitor' = [task |-> task, page |-> [t \in page |-> db.req[t]], proof |-> None]
  BY DEF ReadPage
<1>3. PICK d, m, n : d = db /\ m = monitor /\ n = monitor'
  OBVIOUS
<1>4. DOMAIN n.page = page /\ n.task = task /\ \A t \in page : n.page[t] = d.req[t]
  BY <1>2, <1>3
<1>5. ASSUME Calm PROVE CalmState(d, n, input, KnownSet, Blocked)
  <2>1. CalmState(d, m, input, KnownSet, Blocked)
    BY <1>3, <1>5 DEF CalmInv
  <2>2. \A t \in page : t \in Txs /\ d.req[t].status \in Wanted(task) /\ d.req[t].status # "unfail"
    BY <1>2, <1>3, <2>1 DEF CalmState, CalmRow
  <2>3. task # "CheckNoSends"
    BY <1>1, <1>5 DEF Calm
  <2>4. PICK x \in page : TRUE
    BY <1>2
  <2>5. task \in {"SendWaiting", "CheckForProofs"}
    BY <2>2, <2>3, <2>4 DEF Wanted, TaskNames
  <2>6. \A t \in page : d.req[t].status \in {"unsent", "sending", "unmined"}
    BY <2>2, <2>5 DEF Wanted
  <2> QED BY <1>4, <2>1, <2>5, <2>6, CalmPage
<1>6. \A u \in Txs : db.tx[u] # None => d.tx[u] # None
  BY <1>3
<1> QED BY <1>1, <1>3, <1>5, <1>6, CalmQuiet

LEMMA DoneTask ==
  ASSUME NEW n, NEW t \in Txs, Done(n, t)
  PROVE  n.task \in {monitor.task, None}
BY DEF Done, Waiting

LEMMA SendWaitingCalm ==
  ASSUME ActionInv, CalmInv, NEW t \in Txs, SendWaiting(t)
  PROVE  CalmInv'
<1>1. /\ TypeOK /\ db \in Stores /\ CoinInv(db) /\ RowOK(t, db.tx[t], db.req[t], db.linked[t])
  BY StepContext
<1>2. /\ t \in DOMAIN monitor.page /\ monitor.task = "SendWaiting"
      /\ UNCHANGED <<input, rivals, env>> /\ shared' = shared \cup {t}
  BY DEF SendWaiting, InHand
<1>3. PICK result \in Results, answered \in Answers :
          /\ Posting(t, result)
          /\ db' = AttemptToPost(db, t, monitor.page[t], result, answered)
          /\ monitor' = IF PostThrows(db, t, monitor.page[t], result) THEN Waiting
                        ELSE NextOfPage(t)
  BY DEF SendWaiting
<1>4. PICK r, d, m, e, n : r = monitor.page[t] /\ d = db /\ m = monitor /\ e = db' /\ n = monitor'
  OBVIOUS
<1>5. db.tx[t] # None
  BY <1>2, PageReady DEF Ready
<1>6. Ready(d, t, r) /\ e = AttemptToPost(d, t, r, result, answered)
  BY <1>2, <1>3, <1>4, PageReady
<1>7. Done(n, t)
  BY <1>1, <1>3, <1>4, NextOfPageDone DEF Done
<1>8. Shrinks(m, n, t) /\ t \notin DOMAIN n.page /\ n.task \in {m.task, None}
  BY <1>4, <1>7, DoneShrinks, DoneTask
<1>9. \A u \in Txs : db.tx[u] # None => db'.tx[u] # None
  <2>1. Sent(d, e, t)
    BY <1>6, AttemptSent
  <2> QED BY <1>4, <2>1 DEF Sent, RowsBut
<1>10. NetInv'
  <2>1. Grown(t)
    BY <1>1, <1>3, PostingGrown
  <2>2. shared' \subseteq shared \cup {t} /\ NetInv /\ db.tx[t] # None
    BY <1>2, <1>5 DEF CalmInv
  <2>3. UNCHANGED <<input, rivals>>
    BY <1>2
  <2> QED BY <2>1, <2>2, <2>3, <1>9, NetInvGrown
<1>11. ASSUME Calm PROVE CalmState(e, n, input, KnownSet', Blocked')
  <2>1. CalmState(d, m, input, KnownSet, Blocked)
    BY <1>4, <1>11 DEF CalmInv
  <2>2. r.wasBroadcast => t \in KnownSet
    BY <1>2, <1>4, <2>1 DEF CalmState, CalmRow
  <2>3. Claimant(d, m, t)
    BY <1>2, <1>4, <1>5 DEF Claimant, Over
  <2>4. Prepared(d, d, t) /\ answered
    BY <1>11 DEF Prepared, RowsBut, Answers, Calm
  <2>5. net \in [Txs -> NetTypes] /\ NetInv
    BY <1>1 DEF TypeOK, NetTypes, CalmInv
  <2> QED BY <1>2, <1>3, <1>6, <1>8, <1>11, <2>1, <2>2, <2>3, <2>4, <2>5, PostCalm
<1> QED BY <1>2, <1>4, <1>10, <1>11, CalmStep

LEMMA MergeFailsCalm ==
  ASSUME ActionInv, CalmInv, NEW t \in Txs, MergeFails(t)
  PROVE  CalmInv'
<1>1. /\ t \in DOMAIN monitor.page /\ monitor.task = "SendWaiting" /\ Merges
      /\ UNCHANGED <<input, network, shared>>
  BY DEF MergeFails, InHand, network
<1>2. PICK p \in MergeFailed(db, t, monitor.page[t]) : db' = WriteReq(db, t, p)
  BY DEF MergeFails
<1>3. PICK e, n : e = db' /\ n = monitor'
  OBVIOUS
<1>4. Sent(db, e, t)
  BY <1>1, <1>2, <1>3, PageReady, MergeFailedSent
<1>5. \A u \in Txs : db.tx[u] # None => e.tx[u] # None
  BY <1>4 DEF Sent, RowsBut
<1> QED BY <1>1, <1>3, <1>5, CalmQuiet DEF Calm

\* What a proof check writes back marks as broadcast what the page did.
LEMMA CheckedBroadcast ==
  ASSUME ActionInv, NEW t \in Txs, CheckingProof(t),
         NEW r \in Checked(monitor.page[t]) \cup GivenUp(monitor.page[t])
                     \cup {TimedOut(monitor.page[t])}
  PROVE  /\ r.wasBroadcast => monitor.page[t].wasBroadcast
         /\ r.wasBroadcast /\ MaxRebroadcast = 0 => r.status # "invalid"
<1>1. PICK p : p = monitor.page[t]
  OBVIOUS
<1>2. t \in DOMAIN monitor.page /\ monitor.task \in {"CheckForProofs", "CheckNoSends"}
  BY DEF CheckingProof, InHand
<1>3. p \in Reqs /\ p.status \in {"unmined", "sending", "nosend"}
  BY <1>1, <1>2, InHandFacts DEF OnPage, Wanted
<1>4. r = p \/ r = Attempted(p) \/ r = TimedOut(p)
  BY <1>1 DEF Checked, GivenUp
<1>5. Attempted(p).status = p.status /\ Attempted(p).wasBroadcast = p.wasBroadcast
  BY <1>3, AttemptedFields
<1>6. /\ TimedOut(p).wasBroadcast <=> p.wasBroadcast
      /\ MaxRebroadcast = 0 /\ p.wasBroadcast => TimedOut(p).status = "unsent"
  BY <1>3, TimedOutFields
<1> QED BY <1>1, <1>3, <1>4, <1>5, <1>6

LEMMA CheckedCalm ==
  ASSUME ActionInv, CalmInv, NEW t \in Txs, CheckingProof(t),
         NEW r \in Checked(monitor.page[t]) \cup GivenUp(monitor.page[t])
                     \cup {TimedOut(monitor.page[t])},
         db' = WriteReq(db, t, r), UNCHANGED <<input, shared, network>>, NEW n, monitor' = n,
         Shrinks(monitor, n, t), n.task \in {monitor.task, None},
         t \in DOMAIN n.page => n.page[t] = monitor.page[t]
  PROVE  CalmInv'
<1>1. /\ t \in DOMAIN monitor.page /\ db.tx[t] \notin Early
      /\ r \in Reqs /\ ~r.proven /\ r.status \in {"unmined", "sending", "nosend", "invalid", "unsent"}
  BY CheckedFacts
<1>2. PICK e : e = WriteReq(db, t, r)
  OBVIOUS
<1>3. /\ RowsBut(db, e, t) /\ e.tx[t] = db.tx[t] /\ e.req[t].status = r.status
      /\ e.req[t].wasBroadcast = r.wasBroadcast /\ SameCoins(db, e)
  BY <1>1, <1>2, ReqWritten
<1>4. Claimant(db, monitor, t)
  BY <1>1 DEF Claimant, Over, Early
<1>5. ASSUME Calm PROVE CalmRow(e, n, KnownSet, Blocked, t)
  <2>1. CalmRow(db, monitor, KnownSet, Blocked, t)
    BY <1>5 DEF CalmInv, CalmState
  <2>2. /\ r.wasBroadcast => monitor.page[t].wasBroadcast
        /\ r.wasBroadcast /\ MaxRebroadcast = 0 => r.status # "invalid"
    BY CheckedBroadcast
  <2> QED BY <1>1, <1>3, <2>1, <2>2 DEF CalmRow, Over, None
<1> QED BY <1>2, <1>3, <1>4, <1>5, RowsCalm

LEMMA ProofStepCalm ==
  ASSUME ActionInv, CalmInv, NEW t \in Txs,
         SettleWithoutProof(t) \/ ProofMissing(t) \/ ProofTooNew(t)
  PROVE  CalmInv'
<1>1. TypeOK
  BY DEF ActionInv
<1>2. CheckingProof(t) /\ monitor' = NextOfPage(t) /\ UNCHANGED <<input, shared, network>>
  BY DEF SettleWithoutProof, ProofMissing, ProofTooNew, AsksProof
<1>3. PICK n : n = NextOfPage(t)
  OBVIOUS
<1>4. Shrinks(monitor, n, t) /\ t \notin DOMAIN n.page /\ n.task \in {monitor.task, None}
  BY <1>1, <1>3, NextOfPageDone, DoneShrinks, DoneTask
<1>5. CASE SettleWithoutProof(t)
  <2>1. ~monitor.page[t].proven
    BY <1>2, CheckedFacts, InHandFacts
  <2>2. db' = WriteReq(db, t, TimedOut(monitor.page[t]))
    BY <1>5, <2>1 DEF SettleWithoutProof
  <2> QED BY <2>2, <1>2, <1>3, <1>4, CheckedCalm
<1>6. CASE ProofMissing(t)
  <2>1. PICK r \in Checked(monitor.page[t]) \cup GivenUp(monitor.page[t]) : db' = WriteReq(db, t, r)
    BY <1>6 DEF ProofMissing
  <2> QED BY <2>1, <1>2, <1>3, <1>4, CheckedCalm
<1>7. CASE ProofTooNew(t)
  <2>1. PICK e : e = db
    OBVIOUS
  <2>2. db' = e /\ RowsBut(db, e, t) /\ SameCoins(db, e)
    BY <1>7, <2>1 DEF ProofTooNew, RowsBut, SameCoins
  <2>3. t \in DOMAIN monitor.page
    BY <1>2, CheckedFacts
  <2>4. Calm => CalmRow(e, n, KnownSet, Blocked, t)
    BY <1>4, <2>1, <2>3 DEF CalmInv, CalmState, CalmRow, Over
  <2>5. Claimant(e, n, t) => Claimant(db, monitor, t)
    BY <2>1, <2>3 DEF Claimant, Over
  <2> QED BY <2>1, <2>2, <2>4, <2>5, <1>2, <1>3, <1>4, RowsCalm
<1> QED BY <1>5, <1>6, <1>7

LEMMA ProofFoundCalm ==
  ASSUME ActionInv, CalmInv, NEW t \in Txs, ProofFound(t)
  PROVE  CalmInv'
<1>1. /\ CheckingProof(t) /\ UNCHANGED <<input, shared, network>>
      /\ monitor' = [monitor EXCEPT !.proof = t]
  BY DEF ProofFound, AsksProof
<1>2. PICK r \in Checked(monitor.page[t]) : db' = WriteReq(db, t, r)
  BY DEF ProofFound
<1>3. PICK n : n = [monitor EXCEPT !.proof = t]
  OBVIOUS
<1>4. n.page = monitor.page /\ n.task = monitor.task
  BY <1>3 DEF ActionInv, TypeOK
<1>5. Shrinks(monitor, n, t)
  BY <1>4 DEF Shrinks
<1> QED BY <1>1, <1>2, <1>3, <1>4, <1>5, CheckedCalm

\* Restoring nothing leaves the coins as they are.
LEMMA RestoredNone ==
  ASSUME NEW d \in Stores, NEW e, NEW v, Restored(d, e, {}, v)
  PROVE  SameCoins(d, e)
<1>1. e \in Stores /\ \A c \in Coins : e.spentBy[c] = d.spentBy[c] /\ e.spendable[c] = d.spendable[c]
  BY DEF Restored
<1>2. /\ d.spendable \in [Coins -> BOOLEAN] /\ e.spendable \in [Coins -> BOOLEAN]
      /\ d.spentBy \in [Coins -> Txs \cup {None}] /\ e.spentBy \in [Coins -> Txs \cup {None}]
  BY <1>1, StoreFields
<1> QED BY <1>1, <1>2 DEF SameCoins

\* When what is reconciled has not failed, no coin is touched.
LEMMA ReconciledCoins ==
  ASSUME NEW d \in Stores, NEW e, NEW S \in SUBSET Txs, NEW v, Reconciled(d, e, S, v),
         \A t \in S : d.tx[t] # "failed"
  PROVE  SameCoins(d, e)
<1>1. {t \in S : d.tx[t] = "failed"} = {}
  OBVIOUS
<1>2. PICK f : Restored(d, f, {}, v) /\ SameCoins(f, e)
  BY <1>1 DEF Reconciled
<1> QED BY <1>2, RestoredNone DEF SameCoins

LEMMA ApplyProofCalm ==
  ASSUME ActionInv, CalmInv, NEW t \in Txs, ApplyProof(t)
  PROVE  CalmInv'
<1>1. /\ TypeOK /\ db \in Stores /\ db.req[t] \in Reqs /\ PageInv(db, monitor)
  BY StepContext DEF ActionInv
<1>2. monitor.proof = t /\ UNCHANGED <<input, shared, network>>
  BY DEF ApplyProof
<1>3. t \in DOMAIN monitor.page /\ net[t] = "mined" /\ db.tx[t] # None
  BY <1>1, <1>2, NoneApart DEF PageInv, OnPage
<1>4. PICK p : p = SetStatus(db.req[t], "completed")
  OBVIOUS
<1>5. p \in Reqs /\ p.status = "completed" /\ p.wasBroadcast
  BY <1>1, <1>4, SetStatusFields DEF ReqStatus
<1>6. PICK r : r = [p EXCEPT !.proven = TRUE]
  OBVIOUS
<1>7. r \in Reqs /\ r.status = "completed" /\ r.wasBroadcast
  BY <1>5, <1>6 DEF Reqs
<1>8. PICK f : f = WriteReq(db, t, r)
  OBVIOUS
<1>9. PICK q \in Reqs : ReqOnly(db, f, t, q) /\ q.status = "completed" /\ q.wasBroadcast
  BY <1>1, <1>7, <1>8, WriteReqFields
<1>10. /\ f \in Stores /\ f.tx = db.tx /\ f.linked = db.linked /\ SameCoins(db, f)
       /\ f.req = [db.req EXCEPT ![t] = q]
  BY <1>9 DEF ReqOnly, SameTxs
<1>11. f.req[t] = q /\ RowsBut(db, f, t)
  BY <1>1, <1>10, StoreFields DEF RowsBut
<1>12. PICK n : n = monitor'
  OBVIOUS
<1>13. \/ \E v : db' = Reconcile(f, {t}, v) /\ n = NextOfPage(t)
       \/ "task" \in Crashes /\ db' = f /\ n = Waiting
  BY <1>4, <1>6, <1>8, <1>12 DEF ApplyProof
<1>14. Shrinks(monitor, n, t) /\ t \notin DOMAIN n.page /\ n.task \in {monitor.task, None}
  <2>1. Done(n, t)
    BY <1>1, <1>13, NextOfPageDone DEF Done
  <2> QED BY <2>1, DoneShrinks, DoneTask
<1>15. CASE "task" \in Crashes /\ db' = f
  <2>1. ~Calm
    BY <1>15 DEF Calm
  <2> QED BY <1>2, <1>10, <1>11, <1>12, <1>14, <1>15, <2>1, RowsCalm
<1>16. ASSUME NEW v, db' = Reconcile(f, {t}, v) PROVE CalmInv'
  <2>1. PICK e : e = Reconcile(f, {t}, v)
    OBVIOUS
  <2>2. Reconciled(f, e, {t}, v)
    BY <1>10, <2>1, ReconcileFields
  <2>3. e.tx[t] = "completed" /\ \A u \in Txs : u # t => e.tx[u] = f.tx[u] /\ e.req[u] = f.req[u]
    BY <2>2 DEF Reconciled
  <2>4. PICK b \in BOOLEAN : e.req[t] = [q EXCEPT !.notified = b]
    BY <2>2, <1>11 DEF Reconciled
  <2>5. e.req[t].status = "completed"
    BY <2>4, <1>9 DEF Reqs
  <2>6. ASSUME Calm PROVE CalmState(e, n, input, KnownSet, Blocked)
    <3>1. CalmState(db, monitor, input, KnownSet, Blocked) /\ t \in KnownSet
      BY <1>3, <2>6 DEF CalmInv, KnownSet, Known
    <3>2. db.tx[t] \notin Gone
      BY <1>3, <3>1, KnownApart DEF CalmState, CalmRow, Over
    <3>3. SameCoins(f, e)
      BY <1>10, <2>2, <3>2, ReconciledCoins DEF Gone
    <3>4. CalmRow(e, n, KnownSet, Blocked, t)
      BY <1>14, <2>3, <2>5, <3>1 DEF CalmRow, Gone, Early, None
    <3>5. Claimant(db, monitor, t)
      BY <1>3 DEF Claimant, Over
    <3>6. RowsBut(db, e, t)
      <4>1. \A u \in Txs : u # t => e.linked[u] = f.linked[u]
        BY <1>10, <2>2, StoreFields DEF Reconciled
      <4> QED BY <4>1, <2>3, <1>11 DEF RowsBut
    <3>7. PICK d, m : d = db /\ m = monitor
      OBVIOUS
    <3>8. CalmState(d, m, input, KnownSet, Blocked) /\ RowsBut(d, e, t) /\ SameCoins(d, e)
          /\ Shrinks(m, n, t) /\ n.task \in {m.task, None} /\ Claimant(d, m, t)
      BY <1>10, <1>14, <3>1, <3>3, <3>5, <3>6, <3>7 DEF SameCoins
    <3> QED BY <2>3, <3>4, <3>8, CalmSame DEF Gone
  <2>7. \A u \in Txs : db.tx[u] # None => e.tx[u] # None
    BY <1>10, <2>3 DEF None
  <2> QED BY <1>2, <1>12, <1>16, <2>1, <2>6, <2>7, CalmQuiet
<1> QED BY <1>13, <1>15, <1>16

\* TaskUnFail has nothing to do.
LEMMA UnFailCalm ==
  ASSUME ActionInv, CalmInv, NEW t \in Txs, UnFail(t)
  PROVE  CalmInv'
<1>1. /\ db \in Stores /\ monitor.page[t] \in Reqs /\ UNCHANGED <<input, shared, network>>
      /\ monitor.task = "UnFail"
  BY StepContext, InHandFacts DEF UnFail, InHand
<1>2. ~Calm
  BY <1>1 DEF CalmInv, CalmState
<1>3. PICK e, n : e = db' /\ n = monitor'
  OBVIOUS
<1>4. ASSUME NEW v,
             e = [RestoreForProof(db, {t}, v) EXCEPT
                     !.req[t] = [SetStatus(db.req[t], "unmined") EXCEPT !.attempts = 0]]
      PROVE  \A u \in Txs : db.tx[u] # None => e.tx[u] # None
  <2>1. PICK f : f = RestoreForProof(db, {t}, v)
    OBVIOUS
  <2>2. Restored(db, f, {t}, v)
    BY <1>1, <2>1, RestoreFields
  <2>3. f \in Stores /\ \A u \in Txs : db.tx[u] # None => f.tx[u] # None
    BY <2>2 DEF Restored, None
  <2>4. e.tx = f.tx
    BY <1>4, <2>1, <2>3 DEF Stores
  <2> QED BY <2>3, <2>4
<1>5. ASSUME e = WriteReq(db, t, SetStatus(monitor.page[t], "invalid"))
      PROVE  \A u \in Txs : db.tx[u] # None => e.tx[u] # None
  <2>1. SetStatus(monitor.page[t], "invalid") \in Reqs
    BY <1>1, SetStatusFields DEF ReqStatus
  <2> QED BY <1>1, <1>5, <2>1, WriteReqFields DEF ReqOnly, SameTxs
<1>6. \A u \in Txs : db.tx[u] # None => e.tx[u] # None
  BY <1>3, <1>4, <1>5 DEF UnFail
<1> QED BY <1>1, <1>2, <1>3, <1>6, CalmQuiet

-----------------------------------------------------------------------------
(***************************************************************************)
(* The review of the statuses, the network, and the theorems.              *)
(***************************************************************************)
\* In a calm environment the review repairs nothing: proofs are stored at once.
LEMMA ReconcileCalm ==
  ASSUME Calm, ActionInv, CalmInv, NEW d, NEW S \in SUBSET Txs, NEW v, Reconciled(db, d, S, v),
         \A t \in S : db.req[t].status = "completed" /\ db.req[t].proven
  PROVE  /\ SameCoins(db, d)
         /\ \A t \in Txs : /\ d.tx[t] = db.tx[t]
                           /\ d.req[t].status = db.req[t].status
                           /\ d.req[t].wasBroadcast = db.req[t].wasBroadcast
                           /\ d.req[t].proven => d.linked[t]
<1>1. db \in Stores /\ RowInv(db)
  BY DEF ActionInv, TypeOK
<1>2. \A t \in Txs : db.req[t].proven => db.linked[t] /\ db.tx[t] = "completed"
  BY <1>1 DEF RowInv, RowOK, Calm
<1>3. SameCoins(db, d)
  <2>1. \A t \in S : db.tx[t] # "failed"
    BY <1>2
  <2> QED BY <1>1, <2>1, ReconciledCoins
<1>4. ASSUME NEW t \in Txs
      PROVE  /\ d.tx[t] = db.tx[t]
             /\ d.req[t].status = db.req[t].status
             /\ d.req[t].wasBroadcast = db.req[t].wasBroadcast
             /\ d.req[t].proven => d.linked[t]
  <2>1. PICK b \in BOOLEAN : d.req[t] = [db.req[t] EXCEPT !.notified = b]
    BY DEF Reconciled
  <2>2. db.req[t] \in Reqs
    BY <1>1, StoreFields
  <2>3. /\ d.req[t].status = db.req[t].status /\ d.req[t].proven = db.req[t].proven
        /\ d.req[t].wasBroadcast = db.req[t].wasBroadcast
    BY <2>1, <2>2 DEF Reqs
  <2> QED BY <2>3, <1>2 DEF Reconciled
<1> QED BY <1>3, <1>4

\* A coin through the review of the statuses, from the store d to e.
LEMMA CalmCoinReviewed ==
  ASSUME ActionInv, CalmInv, NEW d, NEW e, NEW m, NEW K, K = KnownSet, NEW B, B = Blocked,
         CalmState(d, m, input, K, B), DOMAIN m.page = {}, Reviewed(d, e), CoinInv(d),
         \A t \in Txs : d.tx[t] = None => d.req[t].status = None,
         \A t \in Txs : d.req[t].proven => d.linked[t],
         NEW c \in Coins
  PROVE  CalmCoin(e, m, input, c)
<1>1. \A t \in Txs : /\ e.tx[t] = IF d.req[t].status = "invalid" THEN "failed" ELSE d.tx[t]
                     /\ e.req[t] = d.req[t] /\ t \notin DOMAIN m.page
  BY DEF Reviewed
<1>2. \A t \in Txs : Claimant(e, m, t) => Claimant(d, m, t)
  BY <1>1 DEF Claimant, Over, Gone, None
<1>3. CalmCoin(d, m, input, c) /\ CoinOK(d, c)
  BY DEF CalmState, CoinInv
<1>4. CASE ~e.spendable[c] /\ e.spentBy[c] = None
  BY <1>4, NoneApart DEF CalmCoin
<1>5. CASE /\ ~(c \in Txs /\ Fell(d, c)) /\ d.spentBy[c] \in Txs /\ Buried(d, d.spentBy[c])
           /\ e.spendable[c] /\ e.spentBy[c] = None
  <2>1. PICK h \in Txs : h = d.spentBy[c]
    BY <1>5
  <2>2. d.tx[h] \notin Gone /\ input[h] = c
    BY <1>3, <2>1 DEF CalmCoin, CoinOK
  <2>3. d.req[h].status = "invalid"
    BY <1>5, <2>1, <2>2 DEF Buried, Fell, Gone
  <2>4. ~Claimant(e, m, h) /\ Claimant(d, m, h)
    BY <1>1, <2>2, <2>3 DEF Claimant, Over, Gone, None
  <2>5. ASSUME NEW t \in Txs, Claimant(e, m, t), input[t] = c PROVE FALSE
    <3>1. t # h /\ Claimant(d, m, t)
      BY <1>2, <2>4, <2>5
    <3> QED BY <2>2, <2>4, <2>5, <3>1 DEF CalmState, CalmPairs
  <2> QED BY <1>5, <2>5, NoneApart DEF CalmCoin
<1>6. CASE /\ ~(c \in Txs /\ Buried(d, c))
           /\ d.spentBy[c] \in Txs /\ Buried(d, d.spentBy[c]) => c \in Txs /\ Fell(d, c)
           /\ e.spendable[c] <=> d.spendable[c]
           /\ e.spentBy[c] = d.spentBy[c]
  <2>1. ASSUME NEW h \in Txs, d.spentBy[c] = h, e.tx[h] \in Gone PROVE FALSE
    <3>1. d.tx[h] \notin Gone
      BY <1>3, <2>1 DEF CalmCoin
    <3>2. Buried(d, h)
      BY <1>1, <2>1, <3>1 DEF Buried, Fell
    <3>3. c \in Txs /\ d.tx[c] = "failed" /\ d.req[c].status \notin {None, "invalid"}
      BY <1>6, <2>1, <3>2 DEF Buried, Fell
    <3>4. c \in Blocked
      BY <3>3 DEF CalmState, CalmRow, Over, Gone
    <3>5. net[h] = "mined" /\ input[h] = c
      BY <1>3, <2>1, <3>3 DEF CoinOK, Gone
    <3>6. h \in KnownSet
      BY <3>5 DEF KnownSet, Known
    <3>7. c \in KnownSet
      BY <3>3, <3>5, <3>6 DEF CalmInv, NetInv, WithParents
    <3> QED BY <3>4, <3>7, KnownApart
  <2> QED BY <1>2, <1>3, <1>6, <2>1 DEF CalmCoin
<1> QED BY <1>4, <1>5, <1>6 DEF Reviewed

LEMMA ReviewStatusCalm ==
  ASSUME ActionInv, CalmInv, ReviewStatus
  PROVE  CalmInv'
<1>1. db \in Stores /\ RowInv(db) /\ CoinInv(db)
  BY DEF ActionInv, TypeOK
<1>2. monitor = Waiting /\ UNCHANGED <<input, shared, network, monitor>>
  BY DEF ReviewStatus
<1>3. PICK S : S = Unnotified
  OBVIOUS
<1>4. S \in SUBSET Txs /\ \A t \in S : db.req[t].status = "completed" /\ db.req[t].proven
  BY <1>3 DEF Unnotified
<1>5. PICK v \in VerdictsOn(S) :
        db' = CompleteProven(KillDeadOutputs(FreeDeadInputs(FailInvalid(Reconcile(db, S, v)))))
  BY <1>3 DEF ReviewStatus
<1>6. PICK d : d = Reconcile(db, S, v)
  OBVIOUS
<1>7. Reconciled(db, d, S, v)
  BY <1>1, <1>4, <1>6, ReconcileFields
<1>8. d \in Stores
  BY <1>7 DEF Reconciled
<1>9. PICK e, n : e = db' /\ n = monitor
  OBVIOUS
<1>10. Reviewed(d, e)
  BY <1>5, <1>6, <1>8, <1>9, ReviewFields
<1>11. \A u \in Txs : db.tx[u] # None => e.tx[u] # None
  BY <1>7, <1>10 DEF Reviewed, Reconciled, None
<1>12. DOMAIN n.page = {}
  BY <1>2, <1>9, EmptyPage
<1>13. ASSUME Calm PROVE CalmState(e, n, input, KnownSet, Blocked)
  <2>1. /\ SameCoins(db, d)
        /\ \A t \in Txs : /\ d.tx[t] = db.tx[t]
                          /\ d.req[t].status = db.req[t].status
                          /\ d.req[t].wasBroadcast = db.req[t].wasBroadcast
                          /\ d.req[t].proven => d.linked[t]
    BY <1>4, <1>7, <1>13, ReconcileCalm
  <2>2. PICK K, B, f : K = KnownSet /\ B = Blocked /\ f = db
    OBVIOUS
  <2>3. CalmState(f, n, input, K, B)
    BY <1>9, <1>13, <2>2 DEF CalmInv
  <2>4. \A t \in Txs : CalmRow(d, n, K, B, t) /\ (Claimant(d, n, t) <=> Claimant(f, n, t))
    BY <1>12, <2>1, <2>2, <2>3 DEF CalmState, CalmRow, Claimant, Over
  <2>5. CalmState(d, n, input, K, B)
    <3>1. \A c \in Coins : CalmCoin(d, n, input, c)
      BY <2>1, <2>2, <2>3, <2>4 DEF CalmState, CalmCoin, SameCoins
    <3>2. CalmPairs(d, n, input)
      BY <2>3, <2>4 DEF CalmState, CalmPairs
    <3> QED BY <2>3, <2>4, <3>1, <3>2 DEF CalmState
  <2>6. CoinInv(d)
    BY <1>1, <1>8, <2>1, CoinsSame
  <2>7. \A t \in Txs : d.tx[t] = None => d.req[t].status = None
    BY <1>1, <2>1 DEF RowInv, RowOK
  <2>8. \A c \in Coins : CalmCoin(e, n, input, c)
    BY <1>10, <1>12, <2>1, <2>2, <2>5, <2>6, <2>7, CalmCoinReviewed
  <2>9. \A t \in Txs : /\ e.tx[t] = IF d.req[t].status = "invalid" THEN "failed" ELSE d.tx[t]
                       /\ e.req[t] = d.req[t]
    BY <1>10, <2>1 DEF Reviewed
  <2>10. ASSUME NEW t \in Txs
         PROVE  CalmRow(e, n, K, B, t) /\ (Claimant(e, n, t) => Claimant(d, n, t))
    <3>1. CASE d.req[t].status = "invalid"
      BY <3>1, <1>12, <2>4, <2>7, <2>9 DEF CalmRow, Claimant, Over, Gone, Early, None
    <3>2. CASE d.req[t].status # "invalid"
      BY <3>2, <2>4, <2>9 DEF CalmRow, Claimant, Over
    <3> QED BY <3>1, <3>2
  <2>11. CalmPairs(e, n, input)
    BY <2>5, <2>10 DEF CalmState, CalmPairs
  <2> QED BY <2>2, <2>5, <2>8, <2>10, <2>11 DEF CalmState
<1> QED BY <1>2, <1>9, <1>11, <1>13, CalmQuiet

\* The network moves, and the Monitor is stopped or goes on.
LEMMA OutsideCalm ==
  ASSUME CalmInv, NetInv', KnownSet \subseteq KnownSet', Blocked \subseteq Blocked',
         db' = db, input' = input, env' = env, monitor' = monitor \/ monitor' = Waiting
  PROVE  CalmInv'
<1>1. PICK d, m, n : d = db /\ m = monitor /\ n = monitor'
  OBVIOUS
<1>2. n = m \/ (DOMAIN n.page = {} /\ n.task = None)
  BY <1>1, EmptyPage DEF Waiting
<1>3. ASSUME Calm PROVE CalmState(d, n, input, KnownSet', Blocked')
  <2>1. CalmState(d, m, input, KnownSet, Blocked)
    BY <1>1, <1>3 DEF CalmInv
  <2>2. n.task # "UnFail"
    BY <1>2, <2>1 DEF CalmState, None
  <2> QED BY <1>2, <2>1, <2>2, CalmPage
<1> QED BY <1>1, <1>3, CalmStep

LEMMA NetworkCalm ==
  ASSUME ActionInv, CalmInv,
         \/ \E t \in Txs : NetAccept(t) \/ NetMine(t)
         \/ \E c \in Funds : NetRival(c)
         \/ Crash \/ UNCHANGED vars
  PROVE  CalmInv'
<1>1. ASSUME NEW t \in Txs, NetAccept(t) PROVE CalmInv'
  <2>1. Grown(t) /\ UNCHANGED <<db, input, shared, rivals, monitor, env>> /\ t \in shared
    BY <1>1 DEF NetAccept, Grown
  <2>2. net \in [Txs -> NetTypes] /\ db.tx[t] # None /\ NetInv
    BY <2>1 DEF ActionInv, TypeOK, NetTypes, CalmInv, NetInv
  <2>3. NetInv'
    BY <2>1, <2>2, NetInvGrown
  <2> QED BY <2>1, <2>2, <2>3, BlockedGrown, OutsideCalm
<1>2. ASSUME NEW t \in Txs, NetMine(t) PROVE CalmInv'
  <2>1. UNCHANGED <<db, input, shared, rivals, monitor, env>> /\ net[t] = "mempool"
        /\ net' = [net EXCEPT ![t] = "mined"] /\ net \in [Txs -> NetTypes]
    BY <1>2 DEF NetMine, ActionInv, TypeOK, NetTypes
  <2>2. \A u \in Txs : Known(u)' <=> Known(u)
    BY <2>1 DEF Known
  <2>3. KnownSet' = KnownSet /\ \A c : SpentOnNet(c)' <=> SpentOnNet(c)
    BY <2>1, <2>2 DEF KnownSet, SpentOnNet
  <2>4. Blocked' = Blocked
    <3>1. \A u \in Txs : Lineage(u)' = Lineage(u) /\ Lineage(u) \subseteq Txs
      BY <2>1 DEF Lineage, WithParents
    <3>2. \A u \in Txs : Acceptable(u)' <=> Acceptable(u)
      BY <2>1, <2>2, <2>3, <3>1 DEF Acceptable
    <3> QED BY <2>2, <3>2 DEF Blocked
  <2>5. NetInv'
    BY <2>1, <2>2, <2>3 DEF CalmInv, NetInv, WithParents
  <2> QED BY <2>1, <2>3, <2>4, <2>5, OutsideCalm
<1>3. ASSUME NEW c \in Funds, NetRival(c) PROVE CalmInv'
  <2>1. UNCHANGED <<db, input, shared, net, monitor, env>> /\ rivals \subseteq rivals'
    BY <1>3 DEF NetRival
  <2>2. KnownSet' = KnownSet /\ \A u : Known(u)' <=> Known(u)
    BY <2>1 DEF KnownSet, Known
  <2>3. \A k : SpentOnNet(k) => SpentOnNet(k)'
    BY <2>1, <2>2 DEF SpentOnNet
  <2>4. Blocked \subseteq Blocked'
    <3>1. \A u \in Txs : Lineage(u)' = Lineage(u)
      BY <2>1 DEF Lineage, WithParents
    <3>2. \A u \in Txs : Acceptable(u)' => Acceptable(u)
      BY <2>1, <2>2, <2>3, <3>1 DEF Acceptable
    <3> QED BY <2>2, <3>2 DEF Blocked
  <2>5. NetInv'
    BY <2>1, <2>2 DEF CalmInv, NetInv, WithParents
  <2> QED BY <2>1, <2>2, <2>4, <2>5, OutsideCalm
<1>4. ASSUME Crash \/ UNCHANGED vars PROVE CalmInv'
  <2>1. /\ UNCHANGED <<db, input, shared, net, rivals, env>>
        /\ monitor' = monitor \/ monitor' = Waiting
    BY <1>4 DEF Crash, vars, network
  <2>2. NetInv' /\ KnownSet' = KnownSet /\ Blocked' = Blocked
    BY <2>1, QuietNet DEF network
  <2> QED BY <2>1, <2>2, OutsideCalm
<1> QED BY <1>1, <1>2, <1>3, <1>4

LEMMA CalmInit ==
  ASSUME Init
  PROVE  CalmInv
<1>1. PICK e, n : e = db /\ n = monitor
  OBVIOUS
<1>2. /\ e.tx = [t \in Txs |-> None] /\ e.req = [t \in Txs |-> NoReq]
      /\ e.spentBy = [c \in Coins |-> None] /\ n = Waiting /\ shared = {}
      /\ net = [t \in Txs |-> "absent"]
  BY <1>1 DEF Init
<1>3. KnownSet = {} /\ \A t \in Txs : ~Known(t)
  BY <1>2 DEF KnownSet, Known
<1>4. NetInv
  BY <1>2, <1>3 DEF NetInv, WithParents
<1>5. DOMAIN n.page = {} /\ n.task = None
  BY <1>2, EmptyPage DEF Waiting
<1>6. CalmState(e, n, input, KnownSet, Blocked)
  BY <1>2, <1>5, NoneApart
     DEF CalmState, CalmRow, CalmCoin, CalmPairs, Claimant, Over, NoReq, None, Gone
<1> QED BY <1>1, <1>4, <1>6 DEF CalmInv

LEMMA CalmNext ==
  ASSUME ActionInv, CalmInv, [Next]_vars
  PROVE  CalmInv'
<1>1. ASSUME NEW t \in Txs, Calls(t) PROVE CalmInv'
  BY <1>1, CreateActionCalm, ProcessActionCalm, SendWithCalm, AbortActionCalm, RequestUnfailCalm
     DEF Calls
<1>2. ASSUME NEW t \in Txs, TaskStep(t) PROVE CalmInv'
  BY <1>2, SendWaitingCalm, MergeFailsCalm, ProofStepCalm, ProofFoundCalm, ApplyProofCalm, UnFailCalm DEF TaskStep
<1>3. ASSUME NEW t \in Txs, ReviewDoubleSpend(t) \/ FailAbandoned(t) PROVE CalmInv'
  BY <1>3, ReviewDoubleSpendCalm, FailAbandonedCalm
<1>4. ASSUME NEW task \in TaskNames, ReadPage(task) PROVE CalmInv'
  BY <1>4, ReadPageCalm
<1> QED BY <1>1, <1>2, <1>3, <1>4, ReviewStatusCalm, NetworkCalm DEF Next

\* The action that lays claim to a coin is alone in doing so, and holds it.
THEOREM CalmKept == Spec => []CalmInv
<1>1. Init => CalmInv
  BY CalmInit
<1>2. ActionInv /\ CalmInv /\ [Next]_vars => CalmInv'
  BY CalmNext
<1> QED BY <1>1, <1>2, ActionsSound, PTL DEF Spec

\* In a calm environment no two live actions consume one coin, through
\* funding, aborting, rejections by rivals and the Monitor's reviews.
THEOREM AllocatedOnce == Spec => []NoDoubleAllocation
<1>1. CalmInv => NoDoubleAllocation
  <2> SUFFICES ASSUME CalmInv, Calm, NEW t \in Txs, NEW u \in Txs, t # u,
                      {db.tx[t], db.tx[u]} \subseteq Live
               PROVE  input[t] # input[u]
    BY DEF NoDoubleAllocation
  <2>1. Claimant(db, monitor, t) /\ Claimant(db, monitor, u)
    BY DEF Claimant, Over, Live, Gone, None
  <2> QED BY <2>1 DEF CalmInv, CalmState, CalmPairs
<1> QED BY <1>1, CalmKept, PTL

\* In a calm environment that gives no broadcast transaction up, the input of
\* one that the network has accepted is not offered again.
THEOREM BroadcastHeld ==
  ASSUME MaxRebroadcast = 0
  PROVE  Spec => []BroadcastInputHeld
<1>1. ActionInv /\ CalmInv => BroadcastInputHeld
  <2> SUFFICES ASSUME ActionInv, CalmInv, Calm, NEW t \in Txs, db.req[t].wasBroadcast
               PROVE  ~db.spendable[input[t]]
    BY DEF BroadcastInputHeld
  <2>1. CalmRow(db, monitor, KnownSet, Blocked, t) /\ RowOK(t, db.tx[t], db.req[t], db.linked[t])
    BY DEF CalmInv, CalmState, ActionInv, RowInv
  <2>2. Claimant(db, monitor, t) /\ input[t] \in Coins
    BY <2>1 DEF CalmRow, RowOK, Claimant, Over
  <2>3. CalmCoin(db, monitor, input, input[t]) /\ CoinOK(db, input[t])
    BY <2>2 DEF CalmInv, CalmState, ActionInv, CoinInv
  <2> QED BY <2>2, <2>3 DEF CalmCoin, CoinOK
<1> QED BY <1>1, CalmKept, ActionsSound, PTL
=============================================================================
