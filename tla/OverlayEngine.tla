---------------------------- MODULE OverlayEngine ----------------------------
(***************************************************************************)
(* The overlay engine's submissions (overlays/overlay/src/Engine.ts) over  *)
(* the Knex storage.  A transaction is submitted to topics; each topic's   *)
(* manager says which of its outputs to admit and which of the topic's     *)
(* coins it spends to retain as history.  submit() calls take turns on     *)
(* submissionTail; a turn validates every topic, broadcasts, and then      *)
(* changes the storage one awaited call at a time.  Outputs no longer      *)
(* needed are pruned concurrently, evictions do not take a turn, the       *)
(* process may stop between any two awaits, and any storage call of the    *)
(* last phase may throw.                                                   *)
(*                                                                         *)
(* Topic managers, lookup services and the broadcaster are outside         *)
(* programs: a manager answers anything validateAdmittanceInstructions     *)
(* lets through, or throws.                                                *)
(***************************************************************************)
EXTENDS Integers, Sequences, FiniteSets, SequencesExt

CONSTANTS
  Topics,       \* the topics with a manager
  Txs,          \* transactions
  Outs,         \* their outputs
  Maker,        \* Outs -> Txs: the transaction an output belongs to
  Ins,          \* Txs -> SUBSET Outs: the outputs a transaction spends
  Subs,         \* calls of submit
  TxOf,         \* Subs -> Txs
  TopicsOf,     \* Subs -> sequences of topics
  Workloads,    \* the sets of calls considered, one to a behaviour
  Historical,   \* the calls with mode 'historical-tx'
  Evictable,    \* the transactions an operator may evict
  Strictness,   \* the values of throwOnBroadcastFailure considered
  MaxFaults,    \* bound on crashes, failed calls and evictions
  MaxWaiting,   \* bound on the calls waiting at a time
  NoRow,        \* no such row in the outputs table
  Idle          \* no submission has the turn

ASSUME EngineAssumption ==
  /\ Maker \in [Outs -> Txs]
  /\ Ins \in [Txs -> SUBSET Outs]
  /\ TxOf \in [Subs -> Txs]
  /\ \A s \in Subs : TopicsOf[s] \in Seq(Topics) /\ TopicsOf[s] # <<>>
  /\ Workloads \subseteq SUBSET Subs
  /\ Historical \subseteq Subs
  /\ Evictable \subseteq Txs
  /\ Strictness \subseteq BOOLEAN
  /\ MaxFaults \in Nat /\ MaxWaiting \in Nat

\* A submission that names a topic twice is refused before it takes its turn
\* ("Tagged BEEF contains duplicate topics").
ASSUME TopicsAssumption ==
  \A s \in Subs : \A i, j \in 1..Len(TopicsOf[s]) :
    TopicsOf[s][i] = TopicsOf[s][j] => i = j

\* A row of the outputs table: its spender, the outputs that refer to it
\* (consumedBy) and those it refers to (outputsConsumed).
Rows == [spentBy : SUBSET Txs, by : SUBSET Outs, consumed : SUBSET Outs]

\* What a manager says of a submission, with the coins it was asked about.
Verdicts == [coins : SUBSET Outs, admit : SUBSET Outs, retain : SUBSET Outs]

\* A submission that has the turn: what is left of the step it is in, what
\* the validations found, and the topics whose storage is still to change.
Jobs == [sub : Subs,
         step : {"validate", "mark", "prune", "admit", "record"},
         todo : SUBSET (Topics \cup (Topics \X Outs) \cup Outs \cup Txs),
         dupes : SUBSET Topics, failed : SUBSET Topics,
         verdict : [Topics -> Verdicts], topics : Seq(Topics)]

ASSUME ValuesAssumption ==
  /\ NoRow \notin Rows
  /\ Idle \notin Jobs
  /\ Outs \cap Txs = {}

VARIABLES
  \* the storage
  rows,         \* [topic -> [output -> NoRow or its row]]: table outputs
  applied,      \* [topic -> transactions]: table applied_transactions
  \* the outside world
  index,        \* [topic -> outputs]: what the lookup services answer with
  net,          \* transactions the broadcaster has taken
  \* the process
  line,         \* submit calls waiting for submissionTail
  job,          \* the submission whose turn it is, or Idle
  prunes,       \* the deleteUTXODeep calls under way
  evictions,    \* the evictAppliedTransaction calls under way
  call,         \* [sub -> where the call of submit is]
  strict,       \* throwOnBroadcastFailure, fixed for a run
  \* history
  faults,       \* faults so far
  torn,         \* transactions whose storage changes were interrupted
  evicted,      \* transactions somebody began to evict
  unheard,      \* a lookup service missed a notification
  crossed,      \* two prunes have worked on the same ancestor at once
  used,         \* [topic -> outputs ever marked spent]
  written,      \* [topic -> outputs ever inserted]
  due,          \* [topic -> outputs that recorded submissions were to admit]
  welcome       \* transactions some manager admitted, retained for or let spend

storage == <<rows, applied>>
history == <<torn, evicted, unheard, crossed, used, written, due, welcome>>
vars == <<storage, index, net, line, job, prunes, evictions, call, strict,
          faults, history>>

Made(tx) == {o \in Outs : Maker[o] = tx}

Stored(t, o) == rows[t][o] # NoRow

\* findOutput(..., spent = false): the coins of topic t that tx spends.
Coins(t, tx) == {o \in Ins[tx] : Stored(t, o) /\ rows[t][o].spentBy = {}}

Nothing == [coins |-> {}, admit |-> {}, retain |-> {}]

Init ==
  /\ rows = [t \in Topics |-> [o \in Outs |-> NoRow]]
  /\ applied = [t \in Topics |-> {}]
  /\ index = [t \in Topics |-> {}]
  /\ net = {} /\ line = <<>> /\ job = Idle
  /\ prunes = {} /\ evictions = {}
  /\ \E calls \in Workloads :
       call = [s \in Subs |-> IF s \in calls THEN "new" ELSE "never"]
  /\ strict \in Strictness
  /\ faults = 0 /\ torn = {} /\ evicted = {}
  /\ unheard = FALSE /\ crossed = FALSE
  /\ used = [t \in Topics |-> {}]
  /\ written = [t \in Topics |-> {}]
  /\ due = [t \in Topics |-> {}]
  /\ welcome = {}

-----------------------------------------------------------------------------
(* submit: the turn.                                                       *)

\* A client calls submit; a call after a stop of the process is a new call.
Submit(s) ==
  /\ call[s] = "new" /\ Len(line) < MaxWaiting
  /\ call' = [call EXCEPT ![s] = "waiting"]
  /\ line' = Append(line, s)
  /\ UNCHANGED <<storage, index, net, job, prunes, evictions, strict, faults,
                 history>>

\* The predecessor released the turn; the arguments are in order, and SPV
\* verification succeeds.
Start ==
  /\ job = Idle /\ line # <<>>
  /\ LET s == Head(line) IN
       /\ job' = [sub |-> s, step |-> "validate",
                  todo |-> Range(TopicsOf[s]), dupes |-> {}, failed |-> {},
                  verdict |-> [t \in Topics |-> Nothing], topics |-> <<>>]
       /\ call' = [call EXCEPT ![s] = "running"]
  /\ line' = Tail(line)
  /\ UNCHANGED <<storage, index, net, prunes, evictions, strict, faults, history>>

\* A plausible slip: only a call that returns releases the turn.
FinishSilently(result) ==
  /\ job' = IF result = "failed" THEN [job EXCEPT !.step = "stuck"] ELSE Idle
  /\ call' = [call EXCEPT ![job.sub] = result]

\* The call returns or throws: the finally releases the turn either way.
Finish(result) ==
  /\ job' = Idle
  /\ call' = [call EXCEPT ![job.sub] = result]

\* Malformed arguments, an unsupported topic, or SPV verification fails.
Refuse ==
  /\ job # Idle /\ job.step = "validate" /\ job.todo = Range(TopicsOf[job.sub])
  /\ Finish("failed")
  /\ UNCHANGED <<storage, index, net, line, prunes, evictions, strict, faults,
                 history>>

-----------------------------------------------------------------------------
(* Phase 1: validate.                                                      *)

\* A plausible slip: every submission is new.
DupeNever(t, tx) == FALSE

\* doesAppliedTransactionExist
Dupe(t, tx) == tx \in applied[t]

\* One topic's validation.  Its reads are of this transaction's own applied
\* record and of its inputs' rows, which only an eviction changes meanwhile.
ValidateTopic(t) ==
  LET tx == TxOf[job.sub]
      rest == [job EXCEPT !.todo = @ \ {t}]
      coins == Coins(t, tx)
  IN  /\ job # Idle /\ job.step = "validate" /\ t \in job.todo
      /\ \/ /\ Dupe(t, tx)
            /\ job' = [rest EXCEPT !.dupes = @ \cup {t}]
            /\ UNCHANGED welcome
         \/ /\ ~Dupe(t, tx)             \* the manager throws
            /\ job' = [rest EXCEPT !.failed = @ \cup {t}]
            /\ UNCHANGED welcome
         \/ /\ ~Dupe(t, tx)
            /\ \E admit \in SUBSET Made(tx), retain \in SUBSET coins :
                 /\ job' = [rest EXCEPT
                              !.verdict[t] = [coins |-> coins, admit |-> admit,
                                              retain |-> retain]]
                 /\ welcome' = IF admit \cup coins # {}
                                 THEN welcome \cup {tx} ELSE welcome
      /\ UNCHANGED <<storage, index, net, line, prunes, evictions, call, strict,
                     faults, torn, evicted, unheard, crossed, used, written,
                     due>>

\* isTopicSubmissionAccepted
Accepted(t) ==
  /\ t \notin job.failed
  /\ \/ t \in job.dupes
     \/ job.verdict[t].admit # {}
     \/ job.verdict[t].retain # {}
     \/ job.verdict[t].coins # {}

\* The submission changes the topic's storage.
Changing(t) == t \notin job.dupes \cup job.failed

-----------------------------------------------------------------------------
(* Phase 2: broadcast.                                                     *)

\* Every previous coin of every topic that neither failed nor is a dupe.
ToMark ==
  {x \in Range(TopicsOf[job.sub]) \X Outs :
     Changing(x[1]) /\ x[2] \in job.verdict[x[1]].coins}

Proceed ==
  /\ job' = [job EXCEPT !.step = "mark", !.todo = ToMark,
                        !.topics = TopicsOf[job.sub]]
  /\ UNCHANGED call

\* Nothing is broadcast for a historical transaction or one no topic accepts.
ToBroadcast ==
  /\ job.sub \notin Historical
  /\ \E t \in Range(TopicsOf[job.sub]) : Accepted(t)

\* broadcastAcceptedSubmission.  A failed broadcast may have reached the
\* network.  abortProvisionalAdmissions only tells the managers.
Broadcast ==
  /\ job # Idle /\ job.step = "validate" /\ job.todo = {}
  /\ \/ /\ ~ToBroadcast
        /\ Proceed
        /\ UNCHANGED net
     \/ /\ ToBroadcast
        /\ net' = net \cup {TxOf[job.sub]}
        /\ Proceed
     \/ /\ ToBroadcast
        /\ net' \in {net, net \cup {TxOf[job.sub]}}
        /\ IF strict THEN Finish("failed") ELSE Proceed
  /\ UNCHANGED <<storage, index, line, prunes, evictions, strict, faults, history>>

-----------------------------------------------------------------------------
(* Phase 3: change the storage, call by call.                              *)

Mutating == job # Idle /\ job.step \in {"mark", "prune", "admit", "record"}

\* A lookup service hears of a change, or its hook throws and is only logged.
Notify(answers) ==
  \/ index' = answers /\ UNCHANGED <<unheard, faults>>
  \/ /\ faults < MaxFaults
     /\ faults' = faults + 1 /\ unheard' = TRUE
     /\ UNCHANGED index

\* A storage call throws: the submission fails with what it has written.
Throw ==
  /\ Finish("failed")
  /\ torn' = torn \cup {TxOf[job.sub]}

\* markUTXOAsSpent updates an unspent row, or finds its own earlier mark.
Markable(t, o, tx) == Stored(t, o) /\ rows[t][o].spentBy \subseteq {tx}

MarkPreviousOutputSpent(t, o) ==
  LET tx == TxOf[job.sub] IN
  /\ Mutating /\ job.step = "mark" /\ <<t, o>> \in job.todo
  /\ IF Markable(t, o, tx)
       THEN /\ rows' = [rows EXCEPT ![t][o].spentBy = {tx}]
            /\ used' = [used EXCEPT ![t] = @ \cup {o}]
            /\ job' = [job EXCEPT !.todo = @ \ {<<t, o>>}]
            /\ Notify([index EXCEPT ![t] = @ \ {o}])
            /\ UNCHANGED <<call, torn>>
       ELSE /\ Throw
            /\ UNCHANGED <<rows, used, index, unheard, faults>>
  /\ UNCHANGED <<applied, net, line, prunes, evictions, strict, evicted, crossed,
                 written, due, welcome>>

\* The coins of the topic that its manager does not retain.
Stale(t) == job.verdict[t].coins \ job.verdict[t].retain

\* deleteUTXODeep(output), with the row as removeStaleOutputs read it.
PruneOf(t, o) ==
  [sub |-> job.sub, topic |-> t, root |-> o, last |-> o,
   queue |-> <<[out |-> o, by |-> rows[t][o].by, consumed |-> rows[t][o].consumed]>>,
   refs |-> {}, held |-> {}]

\* applyStorageMutations comes to its next topic, which it may have to leave
\* alone, or the submission returns.
NextTopic ==
  /\ Mutating /\ job.step = "mark" /\ job.todo = {}
  /\ \/ /\ job.topics = <<>>
        /\ Finish("done") /\ UNCHANGED prunes
     \/ /\ job.topics # <<>> /\ ~Changing(Head(job.topics))
        /\ job' = [job EXCEPT !.topics = Tail(@)]
        /\ UNCHANGED <<prunes, call>>
     \/ /\ job.topics # <<>> /\ Changing(Head(job.topics))
        /\ LET t == Head(job.topics) IN
             prunes' = prunes \cup {PruneOf(t, o) : o \in {x \in Stale(t) : Stored(t, x)}}
        /\ job' = [job EXCEPT !.step = "prune"]
        /\ UNCHANGED call
  /\ UNCHANGED <<storage, index, net, line, evictions, strict, faults, history>>

\* A plausible slip: the transaction is recorded before its outputs.
StaleRemovedRecording ==
  /\ Mutating /\ job.step = "prune"
  /\ ~\E p \in prunes : p.sub = job.sub
  /\ job' = [job EXCEPT !.step = "admit", !.todo = @ \cup job.verdict[Head(job.topics)].admit]
  /\ applied' = [applied EXCEPT ![Head(job.topics)] = @ \cup {TxOf[job.sub]}]
  /\ due' = [due EXCEPT ![Head(job.topics)] = @ \cup job.verdict[Head(job.topics)].admit]
  /\ UNCHANGED <<rows, index, net, line, prunes, evictions, call, strict, faults,
                 torn, evicted, unheard, crossed, used, written, welcome>>

\* The Promise.all of removeStaleOutputs resolves.
StaleRemoved ==
  /\ Mutating /\ job.step = "prune"
  /\ ~\E p \in prunes : p.sub = job.sub
  /\ job' = [job EXCEPT !.step = "admit", !.todo = @ \cup job.verdict[Head(job.topics)].admit]
  /\ UNCHANGED <<storage, index, net, line, prunes, evictions, call, strict,
                 faults, history>>

\* insertOutput, which leaves a row that is already there alone, and the
\* notification, which is sent all the same.
AdmitOutput(o) ==
  LET t == Head(job.topics) IN
  /\ Mutating /\ job.step = "admit" /\ o \in job.todo
  /\ rows' = IF Stored(t, o) THEN rows
             ELSE [rows EXCEPT ![t][o] = [spentBy |-> {}, by |-> {},
                                          consumed |-> job.verdict[t].retain]]
  /\ written' = [written EXCEPT ![t] = @ \cup {o}]
  /\ job' = [job EXCEPT !.todo = @ \ {o}]
  /\ Notify([index EXCEPT ![t] = @ \cup {o}])
  /\ UNCHANGED <<applied, net, line, prunes, evictions, call, strict, torn,
                 evicted, crossed, used, due, welcome>>

\* The outputs are in; what remains is done concurrently: each retained coin's
\* references, and the applied record (the transaction stands for it).
AllAdmitted ==
  /\ Mutating /\ job.step = "admit" /\ job.todo = {}
  /\ job' = [job EXCEPT !.step = "record",
                        !.todo = job.verdict[Head(job.topics)].retain
                                 \cup {TxOf[job.sub]}]
  /\ UNCHANGED <<storage, index, net, line, prunes, evictions, call, strict,
                 faults, history>>

\* updateConsumedOutput
UpdateConsumedOutput(o) ==
  LET t == Head(job.topics) IN
  /\ Mutating /\ job.step = "record" /\ o \in job.todo \cap Outs
  /\ rows' = IF ~Stored(t, o) THEN rows
             ELSE [rows EXCEPT ![t][o].by = @ \cup job.verdict[t].admit]
  /\ job' = [job EXCEPT !.todo = @ \ {o}]
  /\ UNCHANGED <<applied, index, net, line, prunes, evictions, call, strict,
                 faults, history>>

InsertAppliedTransaction ==
  LET t == Head(job.topics) tx == TxOf[job.sub] IN
  /\ Mutating /\ job.step = "record" /\ tx \in job.todo
  /\ applied' = [applied EXCEPT ![t] = @ \cup {tx}]
  /\ due' = [due EXCEPT ![t] = @ \cup job.verdict[t].admit]
  /\ job' = [job EXCEPT !.todo = @ \ {tx}]
  /\ UNCHANGED <<rows, index, net, line, prunes, evictions, call, strict, faults,
                 torn, evicted, unheard, crossed, used, written, welcome>>

TopicApplied ==
  /\ Mutating /\ job.step = "record" /\ job.todo = {}
  /\ job' = [job EXCEPT !.step = "mark", !.topics = Tail(@)]
  /\ UNCHANGED <<storage, index, net, line, prunes, evictions, call, strict,
                 faults, history>>

-----------------------------------------------------------------------------
(* deleteUTXODeep: delete the output if nothing refers to it, take its      *)
(* reference off each output it consumed, and go on with those left bare.  *)

Over(p) == p.queue = <<>> /\ p.refs = {} /\ p.held = {}

Becomes(p, q) == prunes' = (prunes \ {p}) \cup (IF Over(q) THEN {} ELSE {q})

\* A plausible slip: prune through outputs that are still referenced.
BareAlways(row) == TRUE

\* The check of the row as it was read: a referenced output stays.
Bare(row) == row.by = {}

PruneDelete(p) ==
  LET row == Head(p.queue)
      rest == [p EXCEPT !.queue = Tail(@)]
  IN  /\ p.queue # <<>> /\ p.refs = {} /\ p.held = {}
      /\ IF Bare(row)
           THEN /\ rows' = [rows EXCEPT ![p.topic][row.out] = NoRow]
                /\ Becomes(p, [rest EXCEPT !.last = row.out, !.refs = row.consumed])
                /\ Notify([index EXCEPT ![p.topic] = @ \ {row.out}])
           ELSE Becomes(p, rest) /\ UNCHANGED <<rows, index, unheard, faults>>
      /\ UNCHANGED <<applied, net, line, job, evictions, call, strict, torn, evicted,
                     crossed, used, written, due, welcome>>

\* findOutput of a consumed output; only a recorded consumer may go on.
PruneRead(p, o) ==
  LET row == rows[p.topic][o]
      rest == [p EXCEPT !.refs = @ \ {o}]
      mine == Stored(p.topic, o) /\ p.last \in row.by
      read == [out |-> o, by |-> row.by \ {p.last}, consumed |-> row.consumed]
  IN  /\ o \in p.refs /\ p.held = {}
      /\ Becomes(p, IF mine THEN [rest EXCEPT !.held = {read}] ELSE rest)
      /\ crossed' = (crossed \/ \E q \in prunes \ {p} :
                       q.topic = p.topic /\ \E h \in q.held : h.out = o)
      /\ UNCHANGED <<storage, index, net, line, job, evictions, call, strict, faults,
                     torn, evicted, unheard, used, written, due, welcome>>

\* A plausible slip: the references are written back only when none is left.
PruneWriteLast(p) ==
  \E read \in p.held :
    /\ rows' = IF Stored(p.topic, read.out) /\ Bare(read)
                 THEN [rows EXCEPT ![p.topic][read.out].by = {}] ELSE rows
    /\ Becomes(p, [p EXCEPT !.held = {},
                            !.queue = IF Bare(read) THEN Append(@, read) ELSE @])
    /\ UNCHANGED <<applied, index, net, line, job, evictions, call, strict, faults,
                   history>>

\* updateConsumedBy with the references read before.
PruneWrite(p) ==
  \E read \in p.held :
    /\ rows' = IF ~Stored(p.topic, read.out) THEN rows
               ELSE [rows EXCEPT ![p.topic][read.out].by = read.by]
    /\ Becomes(p, [p EXCEPT !.held = {},
                            !.queue = IF Bare(read) THEN Append(@, read) ELSE @])
    /\ UNCHANGED <<applied, index, net, line, job, evictions, call, strict, faults,
                   history>>

Prune(p) == PruneDelete(p) \/ (\E o \in Outs : PruneRead(p, o)) \/ PruneWrite(p)

-----------------------------------------------------------------------------
(* Evictions, which do not wait for the turn.                              *)

\* evictAppliedTransaction(txid, { topic? }) finds the outputs.
Evict(tx, scope) ==
  LET outs == {x \in scope \X Made(tx) : Stored(x[1], x[2])} IN
  /\ tx \in Evictable /\ faults < MaxFaults /\ outs # {}
  /\ evictions' = evictions \cup
       {[tx |-> tx, outs |-> outs, topics |-> {x[1] : x \in outs}]}
  /\ evicted' = evicted \cup {tx}
  /\ faults' = faults + 1
  /\ UNCHANGED <<storage, index, net, line, job, prunes, call, strict, torn, unheard,
                 crossed, used, written, due, welcome>>

\* outputEvicted, which names no topic, and deleteOutput.
EvictOutput(e, t, o) ==
  /\ <<t, o>> \in e.outs
  /\ Notify([u \in Topics |-> index[u] \ {o}])
  /\ rows' = [rows EXCEPT ![t][o] = NoRow]
  /\ evictions' = (evictions \ {e}) \cup {[e EXCEPT !.outs = @ \ {<<t, o>>}]}
  /\ UNCHANGED <<applied, net, line, job, prunes, call, strict, torn, evicted, crossed,
                 used, written, due, welcome>>

\* deleteAppliedTransaction, topic by topic.
EvictApplied(e, t) ==
  /\ e.outs = {} /\ t \in e.topics
  /\ applied' = [applied EXCEPT ![t] = @ \ {e.tx}]
  /\ evictions' = (evictions \ {e}) \cup
       (IF e.topics = {t} THEN {} ELSE {[e EXCEPT !.topics = @ \ {t}]})
  /\ UNCHANGED <<rows, index, net, line, job, prunes, call, strict, faults, history>>

-----------------------------------------------------------------------------
(* Faults.                                                                 *)

\* A storage call of phase 3 throws.  Of the calls made concurrently the
\* others still land: prunes go on, and an applied record may be written.
StorageFails ==
  /\ Mutating /\ faults < MaxFaults
  /\ faults' = faults + 1
  /\ Throw
  /\ \/ UNCHANGED <<applied, due>>
     \/ /\ job.step = "record" /\ TxOf[job.sub] \in job.todo
        /\ applied' = [applied EXCEPT ![Head(job.topics)] = @ \cup {TxOf[job.sub]}]
        /\ due' = [due EXCEPT ![Head(job.topics)] =
                               @ \cup job.verdict[Head(job.topics)].admit]
  /\ UNCHANGED <<rows, index, net, line, prunes, evictions, strict, evicted, unheard,
                 crossed, used, written, welcome>>

\* A prune's storage call throws, and with it the submission that waits for it.
PruneFails(p) ==
  /\ faults < MaxFaults /\ faults' = faults + 1
  /\ prunes' = prunes \ {p}
  /\ torn' = torn \cup {TxOf[p.sub]}
  /\ IF job # Idle /\ job.sub = p.sub THEN Finish("failed")
     ELSE UNCHANGED <<job, call>>
  /\ UNCHANGED <<storage, index, net, line, evictions, strict, evicted, unheard,
                 crossed, used, written, due, welcome>>

\* The process stops and starts again: only the storage is left.
Crash ==
  /\ job # Idle \/ prunes # {} \/ evictions # {}
  /\ faults < MaxFaults /\ faults' = faults + 1
  /\ line' = <<>> /\ job' = Idle /\ prunes' = {} /\ evictions' = {}
  /\ call' = [s \in Subs |-> IF call[s] \in {"waiting", "running"} THEN "lost"
                             ELSE call[s]]
  /\ torn' = IF Mutating THEN torn \cup {TxOf[job.sub]} ELSE torn
  /\ UNCHANGED <<storage, index, net, strict, evicted, unheard, crossed, used,
                 written, due, welcome>>

-----------------------------------------------------------------------------
\* What the engine itself does once called.
EngineStep ==
  \/ Start \/ Broadcast \/ NextTopic \/ StaleRemoved \/ AllAdmitted
  \/ InsertAppliedTransaction \/ TopicApplied
  \/ \E t \in Topics : ValidateTopic(t)
  \/ \E t \in Topics, o \in Outs : MarkPreviousOutputSpent(t, o)
  \/ \E o \in Outs : AdmitOutput(o) \/ UpdateConsumedOutput(o)
  \/ \E p \in prunes : Prune(p)
  \/ \E e \in evictions, t \in Topics :
       EvictApplied(e, t) \/ \E o \in Outs : EvictOutput(e, t, o)

Next ==
  \/ EngineStep
  \/ Refuse \/ StorageFails \/ Crash
  \/ \E s \in Subs : Submit(s)
  \/ \E p \in prunes : PruneFails(p)
  \/ \E tx \in Txs, scope \in {Topics} \cup {{t} : t \in Topics} : Evict(tx, scope)

Spec == Init /\ [][Next]_vars

\* Every promise the engine awaits settles: managers, lookup services, the
\* broadcaster and the database answer or throw.
FairSpec == Spec /\ WF_vars(EngineStep)

-----------------------------------------------------------------------------
(* Properties.                                                             *)

\* The state has the shape of the tables and of the engine's local variables,
\* and an output has at most one spender in a topic (markUTXOAsSpent).
TypeOK ==
  /\ \A t \in Topics, o \in Outs :
       Stored(t, o) => rows[t][o] \in Rows /\ Cardinality(rows[t][o].spentBy) <= 1
  /\ applied \in [Topics -> SUBSET Txs]
  /\ index \in [Topics -> SUBSET Outs]
  /\ net \subseteq Txs
  /\ call \in [Subs -> {"never", "new", "waiting", "running", "done", "failed", "lost"}]
  /\ job # Idle => call[job.sub] = "running"
  /\ {s \in Subs : call[s] = "waiting"} = Range(line)
  /\ faults \in 0..MaxFaults

\* deleteUTXODeep never takes an output that a stored output was built on:
\* concurrent prunes, interrupted submissions and retries included, only an
\* eviction leaves a stored output without its retained history.
HistoryKept ==
  \A t \in Topics, o \in Outs : Stored(t, o) =>
    \A c \in rows[t][o].consumed : Stored(t, c) \/ Maker[c] \in evicted

\* The references in outputs.consumedBy are exactly the stored outputs that
\* consumed the row (updateConsumedOutput, deleteUTXODeep), whenever the engine
\* rests, nothing was interrupted or evicted, and no two prunes of one
\* submission held the same ancestor.
ReferencesExact ==
  (job = Idle /\ prunes = {} /\ torn = {} /\ evicted = {} /\ ~crossed) =>
    \A t \in Topics, o \in Outs : Stored(t, o) =>
      rows[t][o].by = {c \in Outs : Stored(t, c) /\ o \in rows[t][c].consumed}

\* A coin once marked spent in a topic is not offered as unspent again, by a
\* resubmission of the transaction that made it for instance, unless that
\* transaction was interrupted or evicted.
NoResurrection ==
  \A t \in Topics : \A o \in used[t] :
    (Stored(t, o) /\ rows[t][o].spentBy = {}) => Maker[o] \in torn \cup evicted

\* The lookup services answer with the unspent outputs of the storage, as long
\* as they heard every notification: admitOutput, markPreviousOutputSpent and
\* deleteUTXODeep tell them of every change, and of nothing else.
LookupAgrees ==
  ~unheard => \A t \in Topics, o \in Outs : Maker[o] \notin torn \cup evicted =>
    (o \in index[t] <=> (Stored(t, o) /\ rows[t][o].spentBy = {}))

\* A retry of a transaction recorded as applied is a dupe and repairs nothing,
\* so whenever the engine rests, and after any stop of it, the outputs the
\* recorded submission was to admit have been stored.
DupesComplete ==
  job = Idle => \A t \in Topics : due[t] \subseteq written[t]

\* Every submission gets its turn and ends: whatever throws before it, the
\* finally of submit releases submissionTail.
EverySubmissionEnds ==
  \A s \in Subs :
    call[s] \in {"waiting", "running"} ~> call[s] \in {"done", "failed", "lost"}

\* Engine.ts:1806, "A transaction every topic rejected must never reach the
\* network": whatever is broadcast, some topic once admitted an output of it or
\* let it spend a coin.
RejectedNotBroadcast == net \subseteq welcome
=============================================================================
