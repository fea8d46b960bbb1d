-------------------------- MODULE ActionLifecycle ---------------------------
(***************************************************************************)
(* The life of an action in the wallet's active store: createAction funds  *)
(* it, processAction commits and broadcasts it, abortAction gives it up,   *)
(* and the Monitor's tasks move it on until its proof is stored.           *)
(*                                                                         *)
(* Two rows follow a transaction: transactions.status, to which the        *)
(* spendability of outputs is coupled, and the proven_tx_reqs row that the *)
(* Monitor works on.  Storage calls run one at a time under the locks of   *)
(* WalletStorageManager (module StorageLocks), so each is one step here.   *)
(* A Monitor task reads a page of requests under one lock, awaits the      *)
(* network, and writes the requests it read under later ones: whatever the *)
(* wallet did in between is overwritten, or found changed.                 *)
(*                                                                         *)
(* An action spends one coin and makes one change output, which is named   *)
(* by the action.  Each action has one row of each kind.                   *)
(***************************************************************************)
EXTENDS Naturals, Functions

CONSTANTS
    Txs,            \* actions
    Funds,          \* coins the wallet holds at first
    ProofLimit,     \* unprovenAttemptsLimit: proof checks before a timeout
    GiveUpLimit,    \* getProofAttemptsLimit: the same, for old requests
    MaxRebroadcast, \* maxRebroadcastAttempts; 0 means no limit
    MergeLimit,     \* attempts after which a BEEF that cannot be merged is given up
    Environments    \* records that say what may happen, see env

Coins == Funds \cup Txs
None == "none"

ASSUME DistinctNames == Funds \cap Txs = {} /\ None \notin Coins
ASSUME LimitsAreNaturals ==
    {ProofLimit, GiveUpLimit, MaxRebroadcast, MergeLimit} \subseteq Nat
\* Attempts are counted up to ProofLimit + 1.
ASSUME MergeLimitCounted == MergeLimit <= ProofLimit

VARIABLES
    db,        \* the store, see TypeOK
    input,     \* input[t]: the coin action t spends
    shared,    \* actions whose signed transaction has left the wallet
    net,       \* net[t]: what the network knows of transaction t
    rivals,    \* coins of Funds that somebody else has spent
    monitor,   \* the running task, the page it read and a proof in hand
    env        \* the environment, a member of Environments that never changes

vars == <<db, input, shared, net, rivals, monitor, env>>
network == <<net, rivals, env>>

\* The Monitor tasks that may be configured, of those in addDefaultTasks.
TaskNames == {"SendWaiting", "CheckForProofs", "CheckNoSends", "UnFail",
              "ReviewDoubleSpends", "FailAbandoned", "ReviewStatus"}

Tasks == env.tasks           \* names of the tasks that are configured
Rejections == env.rejections \* the network may refuse a transaction for good
Outages == env.outages       \* the status service may be unreachable
Merges == env.merges         \* the BEEF of a transaction may fail to be merged
Rivals == env.rivals         \* somebody else may spend the wallet's coins
Crashes == env.crashes       \* where the wallet process may stop: "call", "task"

TxStatus == {None, "unsigned", "unprocessed", "nosend", "sending", "unproven",
             "completed", "failed", "unfail"}
ReqStatus == {None, "nosend", "unprocessed", "unsent", "sending", "unmined",
              "completed", "invalid", "doubleSpend", "unfail"}
Reqs == [status : ReqStatus, attempts : 0..(ProofLimit + 1), wasBroadcast : BOOLEAN,
         rebroadcasts : 0..MaxRebroadcast, proven : BOOLEAN, notified : BOOLEAN]

Stores == [tx : [Txs -> TxStatus], req : [Txs -> Reqs],
           linked : [Txs -> BOOLEAN],         \* transactions.provenTxId is set
           spendable : [Coins -> BOOLEAN], spentBy : [Coins -> Txs \cup {None}]]
Pages == UNION {[S -> Reqs] : S \in SUBSET Txs}

NoReq == [status |-> None, attempts |-> 0, wasBroadcast |-> FALSE,
          rebroadcasts |-> 0, proven |-> FALSE, notified |-> FALSE]
Waiting == [task |-> None, page |-> [t \in {} |-> NoReq], proof |-> None]

TypeOK ==
    /\ env \in Environments
    /\ db \in Stores
    /\ input \in [Txs -> Coins \cup {None}]
    /\ shared \subseteq Txs /\ rivals \subseteq Funds
    /\ net \in [Txs -> {"absent", "mempool", "mined"}]
    /\ monitor \in [task : Tasks \cup {None}, page : Pages, proof : Txs \cup {None}]

Init ==
    /\ db = [tx |-> [t \in Txs |-> None], req |-> [t \in Txs |-> NoReq],
             linked |-> [t \in Txs |-> FALSE],
             spendable |-> [c \in Coins |-> c \in Funds],
             spentBy |-> [c \in Coins |-> None]]
    /\ input = [t \in Txs |-> None]
    /\ shared = {}
    /\ net = [t \in Txs |-> "absent"] /\ rivals = {}
    /\ monitor = Waiting
    /\ env \in Environments

-----------------------------------------------------------------------------
(***************************************************************************)
(* The network, external.  It holds no two transactions that spend the     *)
(* same coin, and none without the one that made its coin; a transaction   *)
(* is posted together with the ancestors the network may lack.             *)
(***************************************************************************)
Known(t) == net[t] # "absent"
SpentOnNet(c) == c \in rivals \/ \E t \in Txs : Known(t) /\ input[t] = c

\* S has with an action the one that made its coin.
WithParents(S) == \A u \in S : input[u] \in Txs => input[u] \in S

\* Transaction t and its ancestors: what every such set around t has in common.
Lineage(t) ==
    {u \in Txs : \A S \in SUBSET Txs : t \in S /\ WithParents(S) => u \in S}

Acceptable(t) == \A u \in Lineage(t) : Known(u) \/ ~SpentOnNet(input[u])
Accepted(t) == [u \in Txs |-> IF u \in Lineage(t) /\ ~Known(u) THEN "mempool" ELSE net[u]]

\* A shared transaction reaches the network, by whoever holds it.
NetAccept(t) ==
    /\ t \in shared /\ ~Known(t) /\ Acceptable(t)
    /\ net' = Accepted(t)
    /\ UNCHANGED <<db, input, shared, rivals, monitor, env>>

NetMine(t) ==
    /\ net[t] = "mempool"
    /\ input[t] \in Txs => net[input[t]] = "mined"
    /\ net' = [net EXCEPT ![t] = "mined"]
    /\ UNCHANGED <<db, input, shared, rivals, monitor, env>>

NetRival(c) ==
    /\ Rivals
    /\ c \in Funds /\ ~SpentOnNet(c)
    /\ rivals' = rivals \cup {c}
    /\ UNCHANGED <<db, input, shared, net, monitor, env>>

\* The UTXO services say of coin c that it is no UTXO.
NotUtxo(c) == SpentOnNet(c) \/ (c \in Txs /\ ~Known(c))

(***************************************************************************)
(* The aggregate result of posting transaction t.  confirmDoubleSpend lets *)
(* a reported double spend stand when the status service does not know t,  *)
(* or does not answer, and the input is no UTXO.  A service error hides    *)
(* whether the transaction was accepted.                                   *)
(***************************************************************************)
Results == {"success", "doubleSpend", "invalidTx", "serviceError"}

Posting(t, result) ==
    \/ result = "success" /\ Acceptable(t) /\ net' = Accepted(t)
    \/ /\ result = "doubleSpend" /\ (Known(t) => Outages)
       /\ Rejections \/ ~Acceptable(t)
       /\ NotUtxo(input[t])
       /\ UNCHANGED net
    \/ /\ result = "invalidTx" /\ ~Known(t)
       /\ Rejections \/ ~Acceptable(t)
       /\ UNCHANGED net
    \/ result = "serviceError" /\ UNCHANGED net
    \/ result = "serviceError" /\ Acceptable(t) /\ net' = Accepted(t)

\* What the services may answer, and whether they do.
Answers == {TRUE} \cup (IF Outages THEN {FALSE} ELSE {})
Verdicts(c) == {IF NotUtxo(c) THEN "spent" ELSE "unspent"}
                  \cup (IF Outages THEN {"unknown"} ELSE {})

-----------------------------------------------------------------------------
(***************************************************************************)
(* Storage primitives: what a call makes of the store d.                   *)
(***************************************************************************)
\* updateProvenTxReqDynamics: the whole row is written, a proof is never unset.
WriteReq(d, t, r) ==
    [d EXCEPT !.req[t] = [r EXCEPT !.proven = @ \/ d.req[t].proven]]

\* The setter of EntityProvenTxReq.status.
SetStatus(r, s) ==
    [r EXCEPT !.status = s, !.wasBroadcast = @ \/ s \in {"unmined", "completed"}]

Attempted(r) ==
    [r EXCEPT !.attempts = IF @ > ProofLimit THEN @ ELSE @ + 1]

\* updateTransactionStatus throws, or sets the status; failing frees the inputs.
MayUpdate(d, t, s) ==
    /\ ~d.linked[t]
    /\ d.tx[t] = "completed" => s = "completed"
    /\ d.tx[t] = "failed" => s = "failed"

\* With a mistake: the freed coin still names its spender.
FreeInputsHalf(d, t) ==
    [d EXCEPT !.spendable = [c \in Coins |-> d.spendable[c] \/ d.spentBy[c] = t]]

\* With a mistake: the spender is forgotten and the coin is not offered.
FreeInputsLosing(d, t) ==
    [d EXCEPT !.spentBy = [c \in Coins |-> IF d.spentBy[c] = t THEN None ELSE d.spentBy[c]]]

FreeInputs(d, t) ==
    [d EXCEPT !.spendable = [c \in Coins |-> d.spendable[c] \/ d.spentBy[c] = t],
              !.spentBy = [c \in Coins |-> IF d.spentBy[c] = t THEN None ELSE d.spentBy[c]]]

KillOutputs(d, t) ==
    [d EXCEPT !.spendable[t] = FALSE, !.spentBy[t] = None]

\* With a mistake: the outputs of a failed transaction are left as they are.
UpdateStatusAndInputs(d, t, s) ==
    IF ~MayUpdate(d, t, s) THEN d
    ELSE IF s = "failed" THEN FreeInputs([d EXCEPT !.tx[t] = s], t)
    ELSE [d EXCEPT !.tx[t] = s]

UpdateTransactionStatus(d, t, s) ==
    IF ~MayUpdate(d, t, s) THEN d
    ELSE IF s = "failed" THEN KillOutputs(FreeInputs([d EXCEPT !.tx[t] = s], t), t)
    ELSE [d EXCEPT !.tx[t] = s]

\* markKnownInputsSpent, markChangeInputsSpent, restoreProofRecoveryInputs.
Claim(d, t, c) == [d EXCEPT !.spendable[c] = FALSE, !.spentBy[c] = t]

(***************************************************************************)
(* attemptToPostReqsToNetwork with the request r that the caller holds:    *)
(* r is written with the notes of the posting, read back, and if it is not *)
(* yet unmined or completed the result is applied to both rows.  When the  *)
(* transaction's status may not be set the call throws at that point.      *)
(***************************************************************************)
ReqAfter(r, result) ==
    CASE result = "success" -> SetStatus(r, "unmined")
      [] result = "doubleSpend" -> SetStatus(r, "doubleSpend")
      [] result = "invalidTx" -> SetStatus(r, "invalid")
      [] result = "serviceError" -> SetStatus(Attempted(r), "sending")

TxAfter(result) ==
    CASE result = "success" -> "unproven"
      [] result = "serviceError" -> "sending"
      [] OTHER -> "failed"

AppliesResult(r) == r.status \notin {"unmined", "completed"}

ApplyResult(d, t, result, answered) ==
    LET s == TxAfter(result)
        written == WriteReq(d, t, ReqAfter(d.req[t], result))
        updated == UpdateTransactionStatus(written, t, s)
    IN IF s = "failed" /\ MayUpdate(written, t, s) /\ answered /\ NotUtxo(input[t])
       THEN [updated EXCEPT !.spendable[input[t]] = FALSE]
       ELSE updated

AttemptToPost(d, t, r, result, answered) ==
    LET noted == WriteReq(d, t, r)
    IN IF AppliesResult(noted.req[t]) THEN ApplyResult(noted, t, result, answered) ELSE noted

PostThrows(d, t, r, result) ==
    LET noted == WriteReq(d, t, r)
    IN AppliesResult(noted.req[t]) /\ ~MayUpdate(noted, t, TxAfter(result))

(***************************************************************************)
(* The same when the BEEF of the request cannot be merged: an attempt is   *)
(* counted, and after too many of them, or when the reason is an ancestor  *)
(* that storage does not know, the request is invalid, also a broadcast    *)
(* one.  Its transaction is left as it is; posting nothing then throws.    *)
(***************************************************************************)
KnownToStorage(d, t) ==
    d.req[t].proven \/ d.req[t].status \in {"unsent", "unmined", "sending", "nosend", "completed"}

Unmergeable(d, t) == \E u \in Lineage(t) \ {t} : ~KnownToStorage(d, u)

MergeFailed(d, t, r) ==
    {IF Attempted(r).attempts > MergeLimit THEN SetStatus(Attempted(r), "invalid") ELSE Attempted(r)}
        \cup (IF Unmergeable(d, t) THEN {SetStatus(Attempted(r), "invalid")} ELSE {})

-----------------------------------------------------------------------------
(***************************************************************************)
(* The calls of the wallet.                                                *)
(***************************************************************************)
\* With a mistake: coins reserved by another action are not skipped.
FundableTaken(c) ==
    c \in Txs => db.tx[c] \in {"completed", "unproven", "sending", "nosend"}

\* Change of a nosend action is spent only when the caller names it.
Fundable(c) ==
    /\ db.spendable[c] /\ db.spentBy[c] = None
    /\ c \in Txs => db.tx[c] \in {"completed", "unproven", "sending", "nosend"}

CreateAction(t, c) ==
    /\ db.tx[t] = None
    /\ Fundable(c)
    /\ input' = [input EXCEPT ![t] = c]
    /\ db' = [Claim(db, t, c) EXCEPT !.tx[t] = "unsigned", !.spendable[t] = TRUE]
    /\ UNCHANGED <<shared, network, monitor>>

Modes == {"noSend", "delayed", "immediate"}

\* commitNewTxToStorage, with the statuses of determineReqTxStatus; insertOrMerge
\* keeps the status of a request that is there already.
Committed(t, mode) ==
    LET tx == IF mode = "noSend" THEN "nosend" ELSE "unprocessed"
        req == CASE mode = "noSend" -> "nosend"
                 [] mode = "delayed" -> "unsent"
                 [] mode = "immediate" -> "unprocessed"
    IN [db EXCEPT !.tx[t] = tx, !.spendable[t] = TRUE,
                  !.req[t].status = IF @ = None THEN req ELSE @]

(***************************************************************************)
(* shareReqsWithWorld of one request, from the store d: schedule it, or    *)
(* post it at once.  It may stop before it does anything (the BEEF cannot  *)
(* be merged or verified, the process stops), or after the posting; or the *)
(* second merge, by attemptToPostReqsToNetwork, fails.                     *)
(***************************************************************************)
Scheduled(d, t) ==
    [d EXCEPT !.req[t].status = "unsent", !.tx[t] = "sending"]

Share(d, t, delayed) ==
    \/ /\ delayed
       /\ db' = Scheduled(d, t)
       /\ shared' = shared \cup {t}
       /\ UNCHANGED net
    \/ /\ ~delayed
       /\ \E result \in Results, answered \in Answers :
             /\ Posting(t, result)
             /\ db' = AttemptToPost(d, t, d.req[t], result, answered)
       /\ shared' = shared \cup {t}
    \/ /\ ~delayed /\ Merges
       /\ \E r \in MergeFailed(d, t, d.req[t]) : db' = WriteReq(d, t, r)
       /\ UNCHANGED <<shared, net>>
    \/ /\ (~delayed /\ (Outages \/ Merges)) \/ "call" \in Crashes
       /\ db' = d
       /\ UNCHANGED <<shared, net>>
    \/ /\ ~delayed /\ "call" \in Crashes
       /\ \E result \in Results : Posting(t, result)
       /\ db' = d
       /\ shared' = shared \cup {t}

\* classifyReqStatus; an action that is not ready to send is not shared.
ReadyToSend(d, t) ==
    /\ d.req[t].status \in {"sending", "unsent", "nosend", "unprocessed"}
    /\ ~d.req[t].proven

ProcessAction(t, mode) ==
    /\ db.tx[t] \in {"unsigned", "unprocessed"}
    /\ LET d == Committed(t, mode)
       IN IF mode # "noSend" /\ ReadyToSend(d, t)
          THEN Share(d, t, mode = "delayed")
          ELSE /\ db' = d
               /\ shared' = IF mode = "noSend" THEN shared \cup {t} ELSE shared
               /\ UNCHANGED net
    /\ UNCHANGED <<input, rivals, monitor, env>>

\* processAction without a new transaction: sendWith names a committed one.
SendWith(t, delayed) ==
    /\ ReadyToSend(db, t)
    /\ Share(db, t, delayed)
    /\ UNCHANGED <<input, rivals, monitor, env>>

\* With a mistake: an action that is shared or completed may be aborted.
AbortAny(t) ==
    /\ db.tx[t] \notin {None, "failed"}
    /\ LET failed == UpdateTransactionStatus(db, t, "failed")
       IN db' = IF db.req[t].status = None THEN failed
                ELSE WriteReq(failed, t, SetStatus(db.req[t], "invalid"))
    /\ UNCHANGED <<input, shared, network, monitor>>

\* A nosend action the network knows is not aborted, if the network can be asked.
AbortAction(t) ==
    /\ db.tx[t] \in {"unsigned", "unprocessed", "nosend", "unfail"}
    /\ db.tx[t] = "nosend" /\ Known(t) => Outages
    /\ LET failed == UpdateTransactionStatus(db, t, "failed")
       IN db' = IF db.req[t].status = None THEN failed
                ELSE WriteReq(failed, t, SetStatus(db.req[t], "invalid"))
    /\ UNCHANGED <<input, shared, network, monitor>>

\* listActions with the special operation for failed actions and label 'unfail'.
RequestUnfail(t) ==
    /\ db.tx[t] = "failed"
    /\ db' = [db EXCEPT !.tx[t] = "unfail"]
    /\ UNCHANGED <<input, shared, network, monitor>>

-----------------------------------------------------------------------------
(***************************************************************************)
(* The Monitor runs its tasks one after the other.                         *)
(***************************************************************************)
Wanted(task) ==
    CASE task = "SendWaiting" -> {"unsent", "sending"}
      [] task = "CheckForProofs" -> {"unmined", "sending"}
      [] task = "CheckNoSends" -> {"nosend"}
      [] task = "UnFail" -> {"unfail"}
      [] OTHER -> {}

\* Requests too young for SendWaiting or CheckNoSends are left for another run.
ReadPage(task) ==
    LET found == {t \in Txs : db.req[t].status \in Wanted(task)}
    IN /\ monitor = Waiting
       /\ task \in Tasks
       /\ \E page \in (SUBSET found) \ {{}} :
             /\ task \in {"CheckForProofs", "UnFail"} => page = found
             /\ monitor' = [task |-> task, page |-> [t \in page |-> db.req[t]], proof |-> None]
       /\ UNCHANGED <<db, input, shared, network>>

InHand(task, t) ==
    monitor.task = task /\ t \in DOMAIN monitor.page /\ monitor.proof = None

NextOfPage(t) ==
    LET rest == Restrict(monitor.page, DOMAIN monitor.page \ {t})
    IN IF DOMAIN rest = {} THEN Waiting ELSE [monitor EXCEPT !.page = rest, !.proof = None]

\* TaskSendWaiting posts the request it read; a throw ends the task.
SendWaiting(t) ==
    /\ InHand("SendWaiting", t)
    /\ \E result \in Results, answered \in Answers :
          /\ Posting(t, result)
          /\ db' = AttemptToPost(db, t, monitor.page[t], result, answered)
          /\ monitor' = IF PostThrows(db, t, monitor.page[t], result) THEN Waiting
                        ELSE NextOfPage(t)
    /\ shared' = shared \cup {t}
    /\ UNCHANGED <<input, rivals, env>>

\* Its BEEF cannot be merged: the request it read is written, and the task ends.
MergeFails(t) ==
    /\ Merges /\ InHand("SendWaiting", t)
    /\ \E r \in MergeFailed(db, t, monitor.page[t]) : db' = WriteReq(db, t, r)
    /\ monitor' = Waiting
    /\ UNCHANGED <<input, shared, network>>

(***************************************************************************)
(* getProofs, for TaskCheckForProofs and TaskCheckNoSends.  The request    *)
(* that was read is written back, with its fate or one more attempt.       *)
(***************************************************************************)
CheckingProof(t) == InHand("CheckForProofs", t) \/ InHand("CheckNoSends", t)

\* With a mistake: one rebroadcast too many.
TimedOutLate(r) ==
    IF ~r.wasBroadcast \/ (MaxRebroadcast > 0 /\ r.rebroadcasts > MaxRebroadcast)
    THEN [SetStatus(r, "invalid") EXCEPT !.notified = FALSE]
    ELSE [SetStatus(r, "unsent") EXCEPT !.notified = FALSE, !.attempts = 0,
             !.rebroadcasts = IF MaxRebroadcast > 0 THEN @ + 1 ELSE @]

\* With a mistake: a broadcast transaction is given up at the first timeout.
TimedOutAtOnce(r) == [SetStatus(r, "invalid") EXCEPT !.notified = FALSE]

\* EntityProvenTxReq.applyProofTimeout
TimedOut(r) ==
    IF ~r.wasBroadcast \/ (MaxRebroadcast > 0 /\ r.rebroadcasts >= MaxRebroadcast)
    THEN [SetStatus(r, "invalid") EXCEPT !.notified = FALSE]
    ELSE [SetStatus(r, "unsent") EXCEPT !.notified = FALSE, !.attempts = 0,
             !.rebroadcasts = IF MaxRebroadcast > 0 THEN @ + 1 ELSE @]

\* No proof is asked for: the request is linked already, or times out.
SettleWithoutProof(t) ==
    LET r == monitor.page[t]
    IN /\ CheckingProof(t)
       /\ r.proven \/ r.attempts > ProofLimit
       /\ db' = WriteReq(db, t, IF r.proven
                                THEN [SetStatus(r, "completed") EXCEPT !.notified = FALSE]
                                ELSE TimedOut(r))
       /\ monitor' = NextOfPage(t)
       /\ UNCHANGED <<input, shared, network>>

AsksProof(t) ==
    CheckingProof(t) /\ ~monitor.page[t].proven /\ monitor.page[t].attempts <= ProofLimit

\* The request as it is after a check that may count as an attempt.
Checked(r) == {r} \cup (IF r.status = "nosend" THEN {} ELSE {Attempted(r)})

\* EntityProvenTx.applyProofTimeoutIfExpired
GivenUp(r) == IF r.attempts > GiveUpLimit THEN {TimedOut(r)} ELSE {}

ProofMissing(t) ==
    /\ AsksProof(t)
    /\ \E r \in Checked(monitor.page[t]) \cup GivenUp(monitor.page[t]) :
          db' = WriteReq(db, t, r)
    /\ monitor' = NextOfPage(t)
    /\ UNCHANGED <<input, shared, network>>

\* The proof is in a block the wallet has not processed yet.
ProofTooNew(t) ==
    /\ AsksProof(t) /\ net[t] = "mined"
    /\ monitor' = NextOfPage(t)
    /\ UNCHANGED <<db, input, shared, network>>

\* applyProvenTransaction writes the request before it applies the proof.
ProofFound(t) ==
    /\ AsksProof(t) /\ net[t] = "mined"
    /\ \E r \in Checked(monitor.page[t]) : db' = WriteReq(db, t, r)
    /\ monitor' = [monitor EXCEPT !.proof = t]
    /\ UNCHANGED <<input, shared, network>>

(***************************************************************************)
(* restoreTransactionForProof, of each of the transactions S: they are on  *)
(* chain, so their inputs are spent, and an output is as the UTXO services *)
(* say.  No two transactions on chain spend one coin, and the output that  *)
(* one of them spends is no UTXO, so their order does not matter.          *)
(***************************************************************************)
VerdictsOn(S) ==
    {v \in [S -> {"spent", "unspent", "unknown"}] : \A t \in S : v[t] \in Verdicts(t)}

Spenders(S, c) == {t \in S : input[t] = c}

RestoreForProof(d, S, verdict) ==
    [d EXCEPT
        !.tx = [t \in Txs |-> IF t \in S THEN "unproven" ELSE d.tx[t]],
        !.spendable = [c \in Coins |->
            /\ Spenders(S, c) = {}
            /\ IF c \in S /\ verdict[c] # "unknown" THEN verdict[c] = "unspent"
               ELSE d.spendable[c]],
        !.spentBy = [c \in Coins |-> IF Spenders(S, c) = {} THEN d.spentBy[c]
                                     ELSE CHOOSE t \in Spenders(S, c) : TRUE]]

\* reconcileProvenTxReqTransactions, for each of the proven transactions S.
Reconcile(d, S, verdict) ==
    LET repaired == RestoreForProof(d, {t \in S : d.tx[t] = "failed"}, verdict)
    IN [repaired EXCEPT
           !.tx = [t \in Txs |-> IF t \in S THEN "completed" ELSE repaired.tx[t]],
           !.linked = [t \in Txs |-> t \in S \/ d.linked[t]],
           !.req = [t \in Txs |-> [d.req[t] EXCEPT !.notified = @ \/ t \in S]]]

\* updateProvenTxReqWithNewProvenTx, in two database transactions.
ApplyProof(t) ==
    LET linked == WriteReq(db, t, [SetStatus(db.req[t], "completed") EXCEPT !.proven = TRUE])
    IN /\ monitor.proof = t
       /\ \/ /\ \E v \in VerdictsOn({t}) : db' = Reconcile(linked, {t}, v)
             /\ monitor' = NextOfPage(t)
          \/ /\ "task" \in Crashes
             /\ db' = linked
             /\ monitor' = Waiting
       /\ UNCHANGED <<input, shared, network>>

\* TaskUnFail
UnFail(t) ==
    /\ InHand("UnFail", t)
    /\ \/ /\ net[t] = "mined"
          /\ \E v \in VerdictsOn({t}) :
                db' = [RestoreForProof(db, {t}, v) EXCEPT
                          !.req[t] = [SetStatus(db.req[t], "unmined") EXCEPT !.attempts = 0]]
       \/ db' = WriteReq(db, t, SetStatus(monitor.page[t], "invalid"))
    /\ monitor' = NextOfPage(t)
    /\ UNCHANGED <<input, shared, network>>

\* TaskReviewDoubleSpends: nothing else writes a doubleSpend request meanwhile.
ReviewDoubleSpend(t) ==
    /\ monitor = Waiting /\ "ReviewDoubleSpends" \in Tasks
    /\ db.req[t].status = "doubleSpend" /\ Known(t)
    /\ db' = [db EXCEPT !.req[t].status = "unfail"]
    /\ UNCHANGED <<input, shared, network, monitor>>

\* TaskFailAbandoned, for one of the actions that are old enough.
FailAbandoned(t) ==
    /\ monitor = Waiting /\ "FailAbandoned" \in Tasks
    /\ db.tx[t] \in {"unprocessed", "unsigned"}
    /\ db' = UpdateTransactionStatus(db, t, "failed")
    /\ UNCHANGED <<input, shared, network, monitor>>

(***************************************************************************)
(* TaskReviewStatus: reconcileCompletedProvenTxReqs, then the four updates *)
(* of reviewStatus, each on what the one before it left.                   *)
(***************************************************************************)
Unnotified ==
    {t \in Txs : db.req[t].status = "completed" /\ ~db.req[t].notified /\ db.req[t].proven}

FailInvalid(d) ==
    [d EXCEPT !.tx = [t \in Txs |-> IF d.req[t].status = "invalid" THEN "failed" ELSE d.tx[t]]]

\* A failed transaction that no request can bring back.
Dead(d, t) ==
    d.tx[t] = "failed" /\ d.req[t].status \in {None, "invalid", "doubleSpend"}

\* With a mistake: the inputs are found by what the dead action consumed.
FreeConsumed(d) ==
    LET freed == {c \in Coins : \E t \in Txs : Dead(d, t) /\ input[t] = c}
    IN [d EXCEPT !.spendable = [c \in Coins |-> d.spendable[c] \/ c \in freed],
                 !.spentBy = [c \in Coins |-> IF c \in freed THEN None ELSE d.spentBy[c]]]

FreeDeadInputs(d) ==
    LET freed == {c \in Coins : /\ d.spentBy[c] # None /\ Dead(d, d.spentBy[c])
                                /\ c \in Txs => d.tx[c] # "failed"}
    IN [d EXCEPT !.spendable = [c \in Coins |-> d.spendable[c] \/ c \in freed],
                 !.spentBy = [c \in Coins |-> IF c \in freed THEN None ELSE d.spentBy[c]]]

KillDeadOutputs(d) ==
    LET dead == {t \in Txs : Dead(d, t)}
    IN [d EXCEPT !.spendable = [c \in Coins |-> d.spendable[c] /\ c \notin dead],
                 !.spentBy = [c \in Coins |-> IF c \in dead THEN None ELSE d.spentBy[c]]]

CompleteProven(d) ==
    LET found == {t \in Txs : d.req[t].proven /\ ~d.linked[t]}
    IN [d EXCEPT !.tx = [t \in Txs |-> IF t \in found THEN "completed" ELSE d.tx[t]],
                 !.linked = [t \in Txs |-> d.linked[t] \/ t \in found]]

ReviewStatus ==
    /\ monitor = Waiting /\ "ReviewStatus" \in Tasks
    /\ \E verdict \in VerdictsOn(Unnotified) :
          LET reconciled == Reconcile(db, Unnotified, verdict)
          IN db' = CompleteProven(KillDeadOutputs(FreeDeadInputs(FailInvalid(reconciled))))
    /\ UNCHANGED <<input, shared, network, monitor>>

\* The process stops between two steps of a task.
Crash ==
    /\ "task" \in Crashes /\ monitor # Waiting
    /\ monitor' = Waiting
    /\ UNCHANGED <<db, input, shared, network>>

-----------------------------------------------------------------------------
Calls(t) ==
    \/ \E c \in Coins : CreateAction(t, c)
    \/ \E mode \in Modes : ProcessAction(t, mode)
    \/ \E delayed \in BOOLEAN : SendWith(t, delayed)
    \/ AbortAction(t)
    \/ RequestUnfail(t)

TaskStep(t) ==
    \/ SendWaiting(t) \/ MergeFails(t) \/ SettleWithoutProof(t) \/ ProofMissing(t) \/ ProofTooNew(t)
    \/ ProofFound(t) \/ ApplyProof(t) \/ UnFail(t)

Next ==
    \/ \E t \in Txs : \/ Calls(t) \/ TaskStep(t)
                      \/ ReviewDoubleSpend(t) \/ FailAbandoned(t)
                      \/ NetAccept(t) \/ NetMine(t)
    \/ \E task \in TaskNames : ReadPage(task)
    \/ ReviewStatus
    \/ \E c \in Funds : NetRival(c)
    \/ Crash

Spec == Init /\ [][Next]_vars

(***************************************************************************)
(* Fairness.  The Monitor's loop comes back to every task, a task that has *)
(* a page in hand goes through it, and a proof that is looked up again and *)
(* again is found.  At some point the broadcasters are reachable for good, *)
(* and callers have sent what they wanted to send.                         *)
(***************************************************************************)
Unsteady(t) ==
    \/ \E delayed \in BOOLEAN : SendWith(t, delayed)
    \/ SendWaiting(t) /\ db'.req[t].status = "sending"

FairSpec ==
    /\ Spec
    /\ \A task \in TaskNames : SF_vars(ReadPage(task))
    /\ WF_vars(ReviewStatus)
    /\ \A t \in Txs : WF_vars(TaskStep(t)) /\ SF_vars(ProofFound(t)) /\ SF_vars(ReviewDoubleSpend(t))
    /\ <>[][\A t \in Txs : ~Unsteady(t)]_vars

-----------------------------------------------------------------------------
(***************************************************************************)
(* Properties.                                                             *)
(***************************************************************************)
Live == {"unsigned", "unprocessed", "nosend", "sending", "unproven", "completed"}

\* Change of a failed action is never offered as funding, whichever of the
\* rejection, the abort, the Monitor's review or a late proof came last.
FailedOutputsDead == \A t \in Txs : db.tx[t] = "failed" => ~db.spendable[t]

\* A coin that names a spender is off the market, its spender consumes it, and
\* the spender has not failed: failing an action leaves no coin behind.
ReservationsSound ==
    \A c \in Coins, t \in Txs :
        db.spentBy[c] = t => ~db.spendable[c] /\ input[t] = c /\ db.tx[t] # "failed"

\* A coin nobody has spent is reserved by an action or offered: no sequence of
\* failures, recoveries and crashes makes the wallet lose sight of it.
NoCoinForgotten ==
    \A c \in Funds : db.spentBy[c] = None /\ ~SpentOnNet(c) => db.spendable[c]

\* A coin set aside because somebody else has spent it is never offered again,
\* which would send createAction into a loop of missing inputs.
StaleInputsStayDead ==
    [][\A c \in rivals : db.spentBy[c] = None /\ ~db.spendable[c] => ~db'.spendable[c]]_vars

\* An action with a proof is completed in both rows, although the two are
\* written in different database transactions and by different tasks.
ProofSettled ==
    \A t \in Txs : db.linked[t] => /\ db.tx[t] = "completed" /\ net[t] = "mined"
                                   /\ db.req[t].status = "completed" /\ db.req[t].proven

\* The services answer and accept, BEEFs are merged, no call is interrupted and no
\* task looks for nosend actions that were broadcast elsewhere.
Calm == ~Rejections /\ ~Outages /\ ~Merges /\ Crashes = {} /\ "CheckNoSends" \notin Tasks

\* In a calm environment no two live actions consume the same coin, although
\* funding, aborting and the Monitor's reviews take coins and give them back.
NoDoubleAllocation ==
    Calm => \A t, u \in Txs : t # u /\ {db.tx[t], db.tx[u]} \subseteq Live => input[t] # input[u]

\* In a calm environment the input of a transaction the network has accepted is
\* not offered again, also when a nosend action is aborted late.
BroadcastInputHeld ==
    Calm => \A t \in Txs : db.req[t].wasBroadcast => ~db.spendable[input[t]]

\* A broadcast request is given up for good: its rebroadcasts are used up, or its
\* BEEF could not be merged for another rebroadcast.
GivenUpFor(t) ==
    /\ db.req[t].status = "invalid"
    /\ \/ MaxRebroadcast > 0 /\ db.req[t].rebroadcasts = MaxRebroadcast
       \/ Merges /\ (db.req[t].attempts > MergeLimit \/ input[t] \in Txs)

\* A mined transaction the wallet knows to be accepted is completed in the end,
\* through proof timeouts, rebroadcasts, outages and interrupted calls, unless the
\* wallet gives it up, or a stale write makes it forget that it was accepted.
MinedCompletes ==
    \A t \in Txs :
        (net[t] = "mined" /\ db.req[t].status = "unmined" /\ db.tx[t] = "unproven")
           ~> db.tx[t] = "completed" \/ ~db.req[t].wasBroadcast \/ GivenUpFor(t)

\* What docs/architecture/wallet-utxo-lifecycle.md says of a late broadcast
\* result: it never moves a request back that is unmined or completed.
LateResultKeepsProgress ==
    [][\A t \in Txs : SendWaiting(t) /\ db.req[t].status \in {"unmined", "completed"}
                         => db'.req[t].status \in {"unmined", "completed"}]_vars
=============================================================================
