------------------------ MODULE OverlayEngine_proofs ------------------------
(***************************************************************************)
(* Proofs about the overlay engine's submissions, for any topics,          *)
(* transactions, outputs and calls and any number of faults.               *)
(***************************************************************************)
EXTENDS OverlayEngine, FiniteSetTheorems, TLAPS

Reads == [out : Outs, by : SUBSET Outs, consumed : SUBSET Outs]
Prunes == [sub : Subs, topic : Topics, root : Outs, last : Outs, queue : Seq(Reads),
           refs : SUBSET Outs, held : SUBSET Reads]
Evictions == [tx : Txs, outs : SUBSET (Topics \X Outs), topics : SUBSET Topics]

\* A coin that findOutput returns as unspent.
Unspent(t, o) == Stored(t, o) /\ rows[t][o].spentBy = {}

(***************************************************************************)
(* The shape of the tables, of the outside world and of the history.       *)
(***************************************************************************)
RowsTyped ==
    /\ rows \in [Topics -> [Outs -> Rows \cup {NoRow}]]
    /\ \A t \in Topics, o \in Outs : Stored(t, o) =>
          rows[t][o].spentBy = {} \/ \E tx \in Txs : rows[t][o].spentBy = {tx}

TablesTyped ==
    /\ applied \in [Topics -> SUBSET Txs]
    /\ index \in [Topics -> SUBSET Outs]
    /\ net \subseteq Txs
    /\ used \in [Topics -> SUBSET Outs]
    /\ written \in [Topics -> SUBSET Outs]
    /\ due \in [Topics -> SUBSET Outs]
    /\ torn \subseteq Txs /\ evicted \subseteq Txs
    /\ faults \in 0..MaxFaults

PrunesTyped == prunes \subseteq Prunes

\* An eviction works on the outputs of the transaction it was called for.
EvictionsTyped ==
    /\ evictions \subseteq Evictions
    /\ \A e \in evictions : e.tx \in evicted /\ \A x \in e.outs : Maker[x[2]] = e.tx

(***************************************************************************)
(* The turn: no call waits twice, and one that has the turn does not wait. *)
(***************************************************************************)
Distinct(s) == \A i, j \in 1..Len(s) : s[i] = s[j] => i = j

Turns ==
    /\ call \in [Subs -> {"never", "new", "waiting", "running", "done", "failed", "lost"}]
    /\ line \in Seq(Subs) /\ Distinct(line)
    /\ \A s \in Subs : call[s] = "waiting" <=> \E i \in 1..Len(line) : line[i] = s
    /\ job # Idle => call[job.sub] = "running"

(***************************************************************************)
(* The submission that has the turn.                                       *)
(***************************************************************************)
\* The topics whose storage it is still to change.
Pending(j) ==
    IF j.step = "validate"
      THEN Range(TopicsOf[j.sub]) \ (j.todo \cup j.dupes \cup j.failed)
      ELSE {j.topics[i] : i \in
              {k \in 1..Len(j.topics) :
                 /\ j.topics[k] \notin j.dupes \cup j.failed
                 /\ k > 1 \/ j.step # "record" \/ TxOf[j.sub] \in j.todo}}

Phase(j) ==
    /\ \A t \in Topics : j.verdict[t].admit \subseteq Made(TxOf[j.sub])
    /\ j.step # "validate" => Distinct(j.topics)
    /\ j.step \in {"prune", "admit", "record"} =>
          j.topics # <<>> /\ Head(j.topics) \notin j.dupes \cup j.failed
    /\ j.step = "prune" => j.todo = {}
    /\ j.step = "admit" => j.todo \subseteq j.verdict[Head(j.topics)].admit
    /\ j.step = "record" => j.todo \subseteq Outs \cup {TxOf[j.sub]}

\* A topic it is still to change has not recorded the transaction, and what
\* it has admitted to the present one is written.
Unrecorded(j) == \A t \in Pending(j) : TxOf[j.sub] \notin applied[t]
Admitted(j) ==
    /\ j.step = "admit" =>
          j.verdict[Head(j.topics)].admit \subseteq written[Head(j.topics)] \cup j.todo
    /\ j.step = "record" =>
          j.verdict[Head(j.topics)].admit \subseteq written[Head(j.topics)]

JobInv ==
    /\ job \in Jobs \cup {Idle}
    /\ job # Idle => Phase(job) /\ Unrecorded(job) /\ Admitted(job)

(***************************************************************************)
(* An output of a topic.  What was ever written belongs to a transaction   *)
(* that is recorded, was interrupted or evicted, or is being admitted now. *)
(***************************************************************************)
Admitting(t, o) ==
    /\ job # Idle /\ Maker[o] = TxOf[job.sub]
    /\ \/ job.step = "admit" /\ o \notin job.todo
       \/ job.step = "record" /\ TxOf[job.sub] \in job.todo
    /\ t = Head(job.topics)

Sound(t, o) ==
    /\ Stored(t, o) \/ o \in used[t] \/ o \in due[t] => o \in written[t]
    /\ o \in written[t] => Maker[o] \in torn \cup evicted \cup applied[t] \/ Admitting(t, o)
    /\ o \in used[t] /\ Unspent(t, o) => Maker[o] \in torn \cup evicted
    /\ ~unheard /\ Maker[o] \notin torn \cup evicted => (o \in index[t] <=> Unspent(t, o))

OutputsSound == \A t \in Topics, o \in Outs : Sound(t, o)

Shape == RowsTyped /\ TablesTyped /\ PrunesTyped /\ EvictionsTyped

EngineInv == Shape /\ Turns /\ JobInv /\ OutputsSound

-----------------------------------------------------------------------------
(***************************************************************************)
(* What the steps do to the table of outputs.                              *)
(***************************************************************************)
RowsKept ==
    \A t \in Topics, o \in Outs :
      (Stored(t, o)' <=> Stored(t, o)) /\ (Unspent(t, o)' <=> Unspent(t, o))

OthersKept(t, o) ==
    \A u \in Topics, x \in Outs : <<u, x>> # <<t, o>> =>
      (Stored(u, x)' <=> Stored(u, x)) /\ (Unspent(u, x)' <=> Unspent(u, x))

Single(r) == r = NoRow \/ (r \in Rows /\ (r.spentBy = {} \/ \E tx \in Txs : r.spentBy = {tx}))

LEMMA PutRow ==
    ASSUME RowsTyped, NEW t \in Topics, NEW o \in Outs, NEW r, Single(r),
           rows' = [rows EXCEPT ![t] = [@ EXCEPT ![o] = r]]
    PROVE  RowsTyped' /\ OthersKept(t, o) /\ rows'[t][o] = r
<1>1. /\ rows[t] \in [Outs -> Rows \cup {NoRow}]
      /\ r \in Rows \cup {NoRow}
  BY DEF RowsTyped, Single
<1>2. [rows[t] EXCEPT ![o] = r] \in [Outs -> Rows \cup {NoRow}]
  BY <1>1
<1>3. rows' \in [Topics -> [Outs -> Rows \cup {NoRow}]]
  BY <1>2 DEF RowsTyped
<1>4. rows'[t][o] = r
  BY <1>1 DEF RowsTyped
<1>5. \A u \in Topics, x \in Outs : <<u, x>> # <<t, o>> => rows'[u][x] = rows[u][x]
  BY <1>1 DEF RowsTyped
<1>6. OthersKept(t, o)
  BY <1>5 DEF OthersKept, Stored, Unspent
<1>7. ASSUME NEW u \in Topics, NEW x \in Outs, Stored(u, x)'
      PROVE  (rows[u][x].spentBy = {})' \/ \E tx \in Txs : (rows[u][x].spentBy = {tx})'
  <2>1. CASE <<u, x>> = <<t, o>>
    BY <2>1, <1>4, <1>7 DEF Single, Stored
  <2>2. CASE <<u, x>> # <<t, o>>
    <3>1. rows'[u][x] = rows[u][x]
      BY <2>2, <1>5
    <3>2. Stored(u, x)
      BY <3>1, <1>7 DEF Stored
    <3> QED BY <3>1, <3>2 DEF RowsTyped
  <2> QED BY <2>1, <2>2
<1> QED BY <1>3, <1>4, <1>6, <1>7 DEF RowsTyped

LEMMA SameRows ==
    ASSUME RowsTyped, rows' = rows
    PROVE  RowsTyped' /\ RowsKept
BY DEF RowsTyped, RowsKept, Stored, Unspent

\* A row's references change.
LEMMA PutReferences ==
    ASSUME RowsTyped, NEW t \in Topics, NEW o \in Outs, NEW by \in SUBSET Outs, Stored(t, o),
           rows' = [rows EXCEPT ![t][o].by = by]
    PROVE  RowsTyped' /\ RowsKept
<1>1. PICK r : r = [rows[t][o] EXCEPT !.by = by]
  OBVIOUS
<1>2. rows[t][o] \in Rows
  BY DEF RowsTyped, Stored
<1>3. r \in Rows /\ r.spentBy = rows[t][o].spentBy
  BY <1>1, <1>2 DEF Rows
<1>4. Single(r)
  BY <1>3 DEF Single, RowsTyped
<1>5. rows' = [rows EXCEPT ![t] = [@ EXCEPT ![o] = r]]
  BY <1>1
<1>6. RowsTyped' /\ OthersKept(t, o) /\ rows'[t][o] = r
  BY <1>4, <1>5, PutRow
<1>7. r # NoRow
  BY <1>3, ValuesAssumption
<1>8. (Stored(t, o)' <=> Stored(t, o)) /\ (Unspent(t, o)' <=> Unspent(t, o))
  BY <1>3, <1>6, <1>7 DEF Stored, Unspent
<1> QED BY <1>6, <1>8 DEF OthersKept, RowsKept

\* markUTXOAsSpent
LEMMA MarkRow ==
    ASSUME RowsTyped, NEW t \in Topics, NEW o \in Outs, NEW tx \in Txs, Stored(t, o),
           rows' = [rows EXCEPT ![t][o].spentBy = {tx}]
    PROVE  RowsTyped' /\ OthersKept(t, o) /\ Stored(t, o)' /\ ~Unspent(t, o)'
<1>1. PICK r : r = [rows[t][o] EXCEPT !.spentBy = {tx}]
  OBVIOUS
<1>2. rows[t][o] \in Rows
  BY DEF RowsTyped, Stored
<1>3. r \in Rows /\ r.spentBy = {tx}
  BY <1>1, <1>2 DEF Rows
<1>4. Single(r)
  BY <1>3 DEF Single
<1>5. rows' = [rows EXCEPT ![t] = [@ EXCEPT ![o] = r]]
  BY <1>1
<1>6. RowsTyped' /\ OthersKept(t, o) /\ rows'[t][o] = r
  BY <1>4, <1>5, PutRow
<1>7. r # NoRow /\ r.spentBy # {}
  BY <1>3, ValuesAssumption
<1> QED BY <1>6, <1>7 DEF Stored, Unspent

\* deleteOutput
LEMMA DropRow ==
    ASSUME RowsTyped, NEW t \in Topics, NEW o \in Outs,
           rows' = [rows EXCEPT ![t][o] = NoRow]
    PROVE  RowsTyped' /\ OthersKept(t, o) /\ ~Stored(t, o)'
<1>1. Single(NoRow)
  BY DEF Single
<1>2. RowsTyped' /\ OthersKept(t, o) /\ rows'[t][o] = NoRow
  BY <1>1, PutRow
<1> QED BY <1>2 DEF Stored

\* insertOutput
LEMMA InsertRow ==
    ASSUME RowsTyped, NEW t \in Topics, NEW o \in Outs, NEW consumed \in SUBSET Outs,
           rows' = [rows EXCEPT ![t][o] = [spentBy |-> {}, by |-> {}, consumed |-> consumed]]
    PROVE  RowsTyped' /\ OthersKept(t, o) /\ Unspent(t, o)'
<1>1. PICK r : r = [spentBy |-> {}, by |-> {}, consumed |-> consumed]
  OBVIOUS
<1>2. r \in Rows /\ r.spentBy = {}
  BY <1>1 DEF Rows
<1>3. Single(r)
  BY <1>2 DEF Single
<1>4. rows' = [rows EXCEPT ![t] = [@ EXCEPT ![o] = r]]
  BY <1>1
<1>5. RowsTyped' /\ OthersKept(t, o) /\ rows'[t][o] = r
  BY <1>3, <1>4, PutRow
<1> QED BY <1>2, <1>5, ValuesAssumption DEF Stored, Unspent

-----------------------------------------------------------------------------
(***************************************************************************)
(* Each action, with the types of what it works on.                        *)
(***************************************************************************)
LEMMA JobTyped ==
    ASSUME JobInv, job # Idle
    PROVE  /\ job \in Jobs
           /\ job.sub \in Subs /\ TxOf[job.sub] \in Txs
           /\ \A t \in Topics : job.verdict[t] \in Verdicts
           /\ job.step # "validate" /\ job.topics # <<>> => Head(job.topics) \in Topics
BY EngineAssumption DEF JobInv, Jobs

MarkEffect(t, o) ==
    /\ Mutating /\ job.step = "mark" /\ <<t, o>> \in job.todo
    /\ Stored(t, o) /\ Stored(t, o)' /\ ~Unspent(t, o)' /\ OthersKept(t, o)
    /\ used' = [used EXCEPT ![t] = @ \cup {o}]
    /\ job' = [job EXCEPT !.todo = @ \ {<<t, o>>}]
    /\ Notify([index EXCEPT ![t] = @ \ {o}])
    /\ UNCHANGED <<applied, evictions, torn, evicted, written, due>>

LEMMA Marks ==
    ASSUME RowsTyped, JobInv, NEW t \in Topics, NEW o \in Outs,
           MarkPreviousOutputSpent(t, o), Markable(t, o, TxOf[job.sub])
    PROVE  RowsTyped' /\ MarkEffect(t, o)
<1>1. PICK tx : tx = TxOf[job.sub]
  OBVIOUS
<1>2. tx \in Txs
  BY <1>1, JobTyped DEF MarkPreviousOutputSpent, Mutating
<1>3. Stored(t, o)
  BY DEF Markable
<1>4. rows' = [rows EXCEPT ![t][o].spentBy = {tx}]
  BY <1>1 DEF MarkPreviousOutputSpent
<1>5. RowsTyped' /\ OthersKept(t, o) /\ Stored(t, o)' /\ ~Unspent(t, o)'
  BY <1>2, <1>3, <1>4, MarkRow
<1> QED BY <1>3, <1>5 DEF MarkPreviousOutputSpent, MarkEffect

AdmitEffect(t, o) ==
    /\ job # Idle /\ job.step = "admit" /\ t = Head(job.topics) /\ o \in job.todo
    /\ OthersKept(t, o) /\ Stored(t, o)'
    /\ IF Stored(t, o) THEN Unspent(t, o)' <=> Unspent(t, o) ELSE Unspent(t, o)'
    /\ written' = [written EXCEPT ![t] = @ \cup {o}]
    /\ job' = [job EXCEPT !.todo = @ \ {o}]
    /\ Notify([index EXCEPT ![t] = @ \cup {o}])
    /\ UNCHANGED <<applied, torn, evicted, used, due>>

LEMMA Admits ==
    ASSUME RowsTyped, JobInv, NEW o \in Outs, AdmitOutput(o)
    PROVE  /\ RowsTyped'
           /\ \E t \in Topics : AdmitEffect(t, o)
<1>1. PICK t : t = Head(job.topics)
  OBVIOUS
<1>2. /\ job \in Jobs /\ t \in Topics
      /\ job # Idle /\ job.step = "admit" /\ job.step \in {"prune", "admit", "record"}
  BY <1>1, JobTyped DEF AdmitOutput, Mutating, JobInv, Phase
<1>3. job.verdict[t].retain \in SUBSET Outs
  BY <1>2, JobTyped DEF Verdicts
<1>4. ASSUME Stored(t, o)
      PROVE  /\ RowsTyped' /\ OthersKept(t, o) /\ Stored(t, o)'
             /\ Unspent(t, o)' <=> Unspent(t, o)
  <2>1. rows' = rows
    BY <1>1, <1>4 DEF AdmitOutput
  <2>2. RowsTyped' /\ RowsKept
    BY <2>1, SameRows
  <2> QED BY <2>2, <1>2, <1>4 DEF RowsKept, OthersKept
<1>5. ASSUME ~Stored(t, o)
      PROVE  RowsTyped' /\ OthersKept(t, o) /\ Stored(t, o)' /\ Unspent(t, o)'
  <2>1. PICK c : c = job.verdict[t].retain
    OBVIOUS
  <2>2. rows' = [rows EXCEPT ![t][o] = [spentBy |-> {}, by |-> {}, consumed |-> c]]
    BY <1>1, <1>5, <2>1 DEF AdmitOutput
  <2>3. RowsTyped' /\ OthersKept(t, o) /\ Unspent(t, o)'
    BY <1>2, <1>3, <2>1, <2>2, InsertRow
  <2> QED BY <2>3 DEF Unspent
<1>6. AdmitEffect(t, o)
  BY <1>1, <1>2, <1>4, <1>5 DEF AdmitOutput, AdmitEffect
<1> QED BY <1>2, <1>4, <1>5, <1>6

LEMMA References ==
    ASSUME RowsTyped, JobInv, NEW o \in Outs, UpdateConsumedOutput(o)
    PROVE  RowsTyped' /\ RowsKept
<1>1. PICK t : t = Head(job.topics)
  OBVIOUS
<1>2. job # Idle /\ job \in Jobs /\ t \in Topics
  BY <1>1, JobTyped DEF UpdateConsumedOutput, Mutating, JobInv, Phase
<1>3. CASE ~Stored(t, o)
  BY <1>1, <1>3, SameRows DEF UpdateConsumedOutput
<1>4. CASE Stored(t, o)
  <2>1. PICK by : by = rows[t][o].by \cup job.verdict[t].admit
    OBVIOUS
  <2>2. rows[t][o] \in Rows
    BY <1>2, <1>4 DEF RowsTyped, Stored
  <2>3. by \in SUBSET Outs
    BY <1>2, <2>1, <2>2, JobTyped DEF Verdicts, Rows
  <2>4. rows' = [rows EXCEPT ![t][o].by = by]
    BY <1>1, <1>4, <2>1 DEF UpdateConsumedOutput
  <2> QED BY <1>2, <1>4, <2>3, <2>4, PutReferences
<1> QED BY <1>3, <1>4

\* An output goes, and whoever is told of it drops it: of the topic only when
\* deleteUTXODeep deletes it, of every topic when it is evicted.
DropEffect(t, o) ==
    /\ OthersKept(t, o) /\ ~Stored(t, o)'
    /\ \/ Notify([index EXCEPT ![t] = @ \ {o}])
       \/ Maker[o] \in evicted /\ Notify([u \in Topics |-> index[u] \ {o}])
    /\ UNCHANGED <<applied, job, torn, evicted, used, written, due>>

LEMMA Deletes ==
    ASSUME RowsTyped, PrunesTyped, NEW p \in prunes, PruneDelete(p)
    PROVE  /\ RowsTyped'
           /\ \/ RowsKept /\ UNCHANGED <<index, unheard, faults>>
              \/ \E t \in Topics, o \in Outs : DropEffect(t, o)
<1>1. p \in Prunes /\ p.queue # <<>>
  BY DEF PrunesTyped, PruneDelete
<1>2. PICK row : row = Head(p.queue)
  OBVIOUS
<1>3. row.out \in Outs /\ p.topic \in Topics
  <2>1. p.queue \in Seq(Reads) /\ p.topic \in Topics
    BY <1>1 DEF Prunes
  <2>2. row \in Reads
    BY <1>1, <1>2, <2>1
  <2> QED BY <2>1, <2>2 DEF Reads
<1>4. CASE ~Bare(row)
  <2>1. rows' = rows /\ UNCHANGED <<index, unheard, faults>>
    BY <1>2, <1>4 DEF PruneDelete
  <2> QED BY <2>1, SameRows
<1>5. CASE Bare(row)
  <2>1. PICK t \in Topics, o \in Outs : t = p.topic /\ o = row.out
    BY <1>3
  <2>2. rows' = [rows EXCEPT ![t][o] = NoRow] /\ Notify([index EXCEPT ![t] = @ \ {o}])
    BY <1>2, <1>5, <2>1 DEF PruneDelete
  <2>3. RowsTyped' /\ OthersKept(t, o) /\ ~Stored(t, o)'
    BY <2>2, DropRow
  <2>4. UNCHANGED <<applied, job, torn, evicted, used, written, due>>
    BY DEF PruneDelete
  <2> QED BY <2>2, <2>3, <2>4 DEF DropEffect
<1> QED BY <1>4, <1>5

LEMMA WritesBack ==
    ASSUME RowsTyped, PrunesTyped, NEW p \in prunes, PruneWrite(p)
    PROVE  RowsTyped' /\ RowsKept
<1>1. PICK read \in p.held :
        rows' = IF ~Stored(p.topic, read.out) THEN rows
                ELSE [rows EXCEPT ![p.topic][read.out].by = read.by]
  BY DEF PruneWrite
<1>2. p \in Prunes
  BY DEF PrunesTyped
<1>3. PICK t \in Topics, o \in Outs, by \in SUBSET Outs :
        t = p.topic /\ o = read.out /\ by = read.by
  BY <1>2 DEF Prunes, Reads
<1>4. CASE ~Stored(t, o)
  BY <1>1, <1>3, <1>4, SameRows
<1>5. CASE Stored(t, o)
  BY <1>1, <1>3, <1>5, PutReferences
<1> QED BY <1>4, <1>5

LEMMA Evicts ==
    ASSUME RowsTyped, EvictionsTyped, NEW e \in evictions, NEW t \in Topics, NEW o \in Outs,
           EvictOutput(e, t, o)
    PROVE  RowsTyped' /\ DropEffect(t, o)
<1>1. RowsTyped' /\ OthersKept(t, o) /\ ~Stored(t, o)'
  BY DropRow DEF EvictOutput
<1>2. Maker[<<t, o>>[2]] \in evicted
  BY DEF EvictionsTyped, EvictOutput
<1>3. /\ Notify([u \in Topics |-> index[u] \ {o}])
      /\ UNCHANGED <<applied, job, torn, evicted, used, written, due>>
  BY DEF EvictOutput
<1> QED BY <1>1, <1>2, <1>3 DEF DropEffect

-----------------------------------------------------------------------------
(***************************************************************************)
(* The submission that has the turn.                                       *)
(***************************************************************************)
LEMMA JobBecomes ==
    ASSUME NEW j, job' = j, j \in Jobs, Phase(j), Unrecorded(j)', Admitted(j)'
    PROVE  JobInv'
<1>1. Phase(job)'
  BY DEF Phase, Distinct
<1>2. Unrecorded(job)'
  BY DEF Unrecorded, Pending
<1>3. Admitted(job)'
  BY DEF Admitted
<1> QED BY <1>1, <1>2, <1>3 DEF JobInv

LEMMA JobGone ==
    ASSUME job' = Idle
    PROVE  JobInv'
BY DEF JobInv

\* What others do to the tables: records are only taken back, and outputs
\* ever written stay so.
LEMMA JobStays ==
    ASSUME JobInv, job' = job,
           \A t \in Topics : applied'[t] \subseteq applied[t] /\ written[t] \subseteq written'[t]
    PROVE  JobInv'
<1>1. CASE job = Idle
  BY <1>1, JobGone
<1>2. CASE job # Idle
  <2>1. PICK j : j = job
    OBVIOUS
  <2>2. j \in Jobs /\ Phase(j) /\ Unrecorded(j) /\ Admitted(j)
    BY <1>2, <2>1 DEF JobInv
  <2>3. j.sub \in Subs
    BY <2>2 DEF Jobs
  <2>4. Pending(j) \subseteq Topics
    BY <2>2, <2>3, EngineAssumption DEF Pending, Jobs, Range
  <2>5. Unrecorded(j)'
    BY <2>2, <2>4 DEF Unrecorded
  <2>6. j.step \in {"admit", "record"} => Head(j.topics) \in Topics
    BY <2>2 DEF Jobs, Phase
  <2>7. Admitted(j)'
    BY <2>2, <2>6 DEF Admitted
  <2> QED BY <2>1, <2>2, <2>5, <2>7, JobBecomes
<1> QED BY <1>1, <1>2

LEMMA JobStart ==
    ASSUME Start, line \in Seq(Subs)
    PROVE  JobInv'
<1>1. PICK s : s = Head(line)
  OBVIOUS
<1>2. s \in Subs
  BY <1>1 DEF Start
<1>3. PICK j : j = [sub |-> s, step |-> "validate",
                    todo |-> Range(TopicsOf[s]), dupes |-> {}, failed |-> {},
                    verdict |-> [t \in Topics |-> Nothing], topics |-> <<>>]
  OBVIOUS
<1>4. job' = j
  BY <1>1, <1>3 DEF Start
<1>5. Range(TopicsOf[s]) \subseteq Topics
  BY <1>2, EngineAssumption DEF Range
<1>6. Nothing \in Verdicts /\ Nothing.admit = {}
  BY DEF Nothing, Verdicts
<1>7. j.verdict \in [Topics -> Verdicts] /\ \A t \in Topics : j.verdict[t].admit = {}
  BY <1>3, <1>6
<1>8. /\ j.sub = s /\ j.step = "validate" /\ j.todo = Range(TopicsOf[s])
      /\ j.dupes = {} /\ j.failed = {} /\ j.topics = <<>>
  BY <1>3
<1>9. j \in Jobs
  BY <1>2, <1>3, <1>5, <1>6 DEF Jobs
<1>10. Phase(j)
  BY <1>7, <1>8 DEF Phase
<1>11. Unrecorded(j)' /\ Admitted(j)'
  BY <1>8 DEF Unrecorded, Pending, Admitted
<1> QED BY <1>4, <1>9, <1>10, <1>11, JobBecomes

\* A topic is validated: it is a dupe, it failed, or it has not recorded the
\* transaction.
LEMMA JobValidate ==
    ASSUME JobInv, NEW t \in Topics, ValidateTopic(t)
    PROVE  JobInv'
<1> DEFINE tx == TxOf[job.sub]
<1>1. /\ job \in Jobs /\ Phase(job) /\ Unrecorded(job)
      /\ job # Idle /\ job.step = "validate" /\ t \in job.todo /\ applied' = applied
  BY DEF JobInv, ValidateTopic, storage
<1>2. ASSUME NEW j, job' = j, j \in Jobs, j.sub = job.sub, j.step = "validate",
             j.todo = job.todo \ {t}, job.dupes \subseteq j.dupes, job.failed \subseteq j.failed,
             t \in j.dupes \cup j.failed \/ tx \notin applied[t],
             \A u \in Topics : j.verdict[u].admit \subseteq Made(tx)
      PROVE  JobInv'
  <2>1. Pending(j) \subseteq Pending(job) \cup {t}
    BY <1>1, <1>2 DEF Pending
  <2>2. t \in Pending(j) => tx \notin applied[t]
    BY <1>2 DEF Pending
  <2>3. Unrecorded(j)'
    BY <1>1, <1>2, <2>1, <2>2 DEF Unrecorded
  <2>4. Phase(j)
    BY <1>2 DEF Phase
  <2>5. Admitted(j)'
    BY <1>2 DEF Admitted
  <2> QED BY <1>2, <2>3, <2>4, <2>5, JobBecomes
<1> DEFINE rest == [job EXCEPT !.todo = @ \ {t}]
<1>3. /\ rest.todo = job.todo \ {t} /\ rest.sub = job.sub /\ rest.step = "validate"
      /\ rest.dupes = job.dupes /\ rest.failed = job.failed /\ rest.verdict = job.verdict
      /\ rest \in Jobs
  BY <1>1 DEF Jobs
<1>4. \A u \in Topics : job.verdict[u].admit \subseteq Made(tx)
  BY <1>1 DEF Phase
<1>5. \/ job' = [rest EXCEPT !.dupes = @ \cup {t}]
      \/ job' = [rest EXCEPT !.failed = @ \cup {t}]
      \/ /\ ~Dupe(t, tx)
         /\ \E admit \in SUBSET Made(tx), retain \in SUBSET Coins(t, tx) :
              job' = [rest EXCEPT !.verdict[t] = [coins |-> Coins(t, tx), admit |-> admit,
                                                  retain |-> retain]]
  BY DEF ValidateTopic
<1> HIDE DEF rest, tx
<1>6. CASE job' = [rest EXCEPT !.dupes = @ \cup {t}]
  <2>1. PICK j : j = [rest EXCEPT !.dupes = @ \cup {t}]
    OBVIOUS
  <2>2. /\ j \in Jobs /\ j.sub = job.sub /\ j.step = "validate" /\ j.todo = job.todo \ {t}
        /\ j.dupes = job.dupes \cup {t} /\ j.failed = job.failed /\ j.verdict = job.verdict
    BY <1>3, <2>1 DEF Jobs
  <2> QED BY <1>2, <1>4, <1>6, <2>1, <2>2
<1>7. CASE job' = [rest EXCEPT !.failed = @ \cup {t}]
  <2>1. PICK j : j = [rest EXCEPT !.failed = @ \cup {t}]
    OBVIOUS
  <2>2. /\ j \in Jobs /\ j.sub = job.sub /\ j.step = "validate" /\ j.todo = job.todo \ {t}
        /\ j.dupes = job.dupes /\ j.failed = job.failed \cup {t} /\ j.verdict = job.verdict
    BY <1>3, <2>1 DEF Jobs
  <2> QED BY <1>2, <1>4, <1>7, <2>1, <2>2
<1>8. ASSUME NEW admit \in SUBSET Made(tx), NEW retain \in SUBSET Coins(t, tx), ~Dupe(t, tx),
             job' = [rest EXCEPT !.verdict[t] = [coins |-> Coins(t, tx), admit |-> admit,
                                                 retain |-> retain]]
      PROVE  JobInv'
  <2>1. PICK v : v = [coins |-> Coins(t, tx), admit |-> admit, retain |-> retain]
    OBVIOUS
  <2>2. Coins(t, tx) \subseteq Outs /\ Made(tx) \subseteq Outs
    BY <1>1, JobTyped, EngineAssumption DEF Coins, Made, tx
  <2>3. v \in Verdicts /\ v.admit = admit
    BY <2>1, <2>2 DEF Verdicts
  <2>4. PICK j : j = [rest EXCEPT !.verdict[t] = v]
    OBVIOUS
  <2>5. /\ j \in Jobs /\ j.sub = job.sub /\ j.step = "validate" /\ j.todo = job.todo \ {t}
        /\ j.dupes = job.dupes /\ j.failed = job.failed
        /\ j.verdict = [job.verdict EXCEPT ![t] = v]
    BY <1>3, <2>3, <2>4 DEF Jobs
  <2>6. job.verdict \in [Topics -> Verdicts]
    BY <1>1 DEF Jobs
  <2>7. \A u \in Topics : j.verdict[u].admit \subseteq Made(tx)
    BY <1>4, <2>3, <2>5, <2>6
  <2>8. tx \notin applied[t]
    BY <1>8 DEF Dupe
  <2> QED BY <1>2, <1>8, <2>1, <2>4, <2>5, <2>7, <2>8
<1> QED BY <1>5, <1>6, <1>7, <1>8

\* Every topic is validated; those that neither failed nor are dupes have not
\* recorded the transaction.
LEMMA JobProceed ==
    ASSUME JobInv, job # Idle, job.step = "validate", job.todo = {}, Proceed,
           applied' = applied
    PROVE  JobInv'
<1>1. job \in Jobs /\ Phase(job) /\ Unrecorded(job) /\ job.sub \in Subs
  BY DEF JobInv, Jobs
<1>2. PICK s : s = TopicsOf[job.sub]
  OBVIOUS
<1>3. s \in Seq(Topics) /\ Distinct(s)
  BY <1>1, <1>2, EngineAssumption, TopicsAssumption DEF Distinct
<1>4. ToMark \subseteq Topics \X Outs
  BY <1>2, <1>3 DEF ToMark, Range
<1>5. PICK j : j = [job EXCEPT !.step = "mark", !.todo = ToMark, !.topics = TopicsOf[job.sub]]
  OBVIOUS
<1>6. job' = j
  BY <1>5 DEF Proceed
<1>7. /\ j \in Jobs /\ j.sub = job.sub /\ j.step = "mark" /\ j.topics = s
      /\ j.dupes = job.dupes /\ j.failed = job.failed /\ j.verdict = job.verdict
  BY <1>1, <1>2, <1>3, <1>4, <1>5 DEF Jobs
<1>8. Pending(j) \subseteq Pending(job)
  BY <1>2, <1>3, <1>7 DEF Pending, Range
<1>9. Phase(j)
  BY <1>1, <1>3, <1>7 DEF Phase
<1>10. Unrecorded(j)'
  BY <1>1, <1>7, <1>8 DEF Unrecorded
<1>11. Admitted(j)'
  BY <1>7 DEF Admitted
<1> QED BY <1>6, <1>7, <1>9, <1>10, <1>11, JobBecomes

\* The calls of phase 3 within a topic: they change the step and what is left
\* of it.
LEMMA JobWithin ==
    ASSUME JobInv, job # Idle, job.step # "validate",
           NEW step \in {"mark", "prune", "admit", "record"},
           NEW todo \in SUBSET (Topics \cup (Topics \X Outs) \cup Outs \cup Txs),
           job' = [job EXCEPT !.step = step, !.todo = todo],
           job.step = "record" => step = "record" /\ (TxOf[job.sub] \in todo <=> TxOf[job.sub] \in job.todo),
           step # "mark" => job.topics # <<>> /\ Changing(Head(job.topics)),
           step = "prune" => todo = {},
           step = "admit" => todo \subseteq job.verdict[Head(job.topics)].admit,
           step = "record" => todo \subseteq Outs \cup {TxOf[job.sub]},
           step = "admit" => job.verdict[Head(job.topics)].admit
                               \subseteq written'[Head(job.topics)] \cup todo,
           step = "record" => job.verdict[Head(job.topics)].admit
                               \subseteq written'[Head(job.topics)],
           applied' = applied
    PROVE  JobInv'
<1>1. job \in Jobs /\ Phase(job) /\ Unrecorded(job)
  BY DEF JobInv
<1>2. PICK j : j = [job EXCEPT !.step = step, !.todo = todo]
  OBVIOUS
<1>3. /\ j \in Jobs /\ j.sub = job.sub /\ j.step = step /\ j.topics = job.topics
      /\ j.dupes = job.dupes /\ j.failed = job.failed /\ j.verdict = job.verdict
      /\ j.todo = todo
  BY <1>1, <1>2 DEF Jobs
<1>4. Pending(j) \subseteq Pending(job)
  BY <1>3 DEF Pending
<1>5. Phase(j)
  BY <1>1, <1>3 DEF Phase, Changing
<1>6. Unrecorded(j)'
  BY <1>1, <1>3, <1>4 DEF Unrecorded
<1>7. Admitted(j)'
  BY <1>3 DEF Admitted
<1> QED BY <1>2, <1>3, <1>5, <1>6, <1>7, JobBecomes

\* applyStorageMutations goes on to the next topic.
LEMMA JobNext ==
    ASSUME JobInv, job # Idle, job.step \in {"mark", "record"}, job.topics # <<>>,
           job' = [job EXCEPT !.step = "mark", !.topics = Tail(@)],
           applied' = applied
    PROVE  JobInv'
<1>1. job \in Jobs /\ Phase(job) /\ Unrecorded(job)
  BY DEF JobInv
<1>2. PICK j : j = [job EXCEPT !.step = "mark", !.topics = Tail(@)]
  OBVIOUS
<1>3. job.topics \in Seq(Topics) /\ Distinct(job.topics)
  BY <1>1 DEF Jobs, Phase
<1>4. PICK r : r = Tail(job.topics)
  OBVIOUS
<1>5. /\ r \in Seq(Topics) /\ Len(r) = Len(job.topics) - 1
      /\ \A i \in 1..Len(r) : i + 1 \in 1..Len(job.topics) /\ r[i] = job.topics[i + 1]
  BY <1>3, <1>4
<1>6. Distinct(r)
  BY <1>3, <1>5 DEF Distinct
<1>7. /\ j \in Jobs /\ j.sub = job.sub /\ j.step = "mark" /\ j.topics = r
      /\ j.dupes = job.dupes /\ j.failed = job.failed /\ j.verdict = job.verdict
  BY <1>1, <1>2, <1>4, <1>5 DEF Jobs
<1>8. Pending(j) \subseteq Pending(job)
  <2> SUFFICES ASSUME NEW i \in 1..Len(r), r[i] \notin job.dupes \cup job.failed
               PROVE  r[i] \in Pending(job)
    BY <1>7 DEF Pending
  <2>1. i + 1 \in 1..Len(job.topics) /\ i + 1 > 1 /\ job.topics[i + 1] = r[i]
    BY <1>3, <1>5
  <2> QED BY <2>1 DEF Pending
<1>9. Phase(j)
  BY <1>1, <1>6, <1>7 DEF Phase
<1>10. Unrecorded(j)' /\ Admitted(j)'
  BY <1>1, <1>7, <1>8 DEF Unrecorded, Admitted
<1> QED BY <1>2, <1>7, <1>9, <1>10, JobBecomes

\* The topic is recorded, and no longer pending; the others are not it.
LEMMA JobRecords ==
    ASSUME JobInv, InsertAppliedTransaction, TablesTyped
    PROVE  JobInv'
<1>1. /\ job \in Jobs /\ Phase(job) /\ Unrecorded(job) /\ Admitted(job)
      /\ job # Idle /\ job.step = "record" /\ TxOf[job.sub] \in job.todo
      /\ job.topics # <<>> /\ written' = written
  BY DEF JobInv, InsertAppliedTransaction, Mutating, Phase
<1>2. PICK tx : tx = TxOf[job.sub]
  OBVIOUS
<1>3. PICK j : j = [job EXCEPT !.todo = @ \ {tx}]
  OBVIOUS
<1>4. job' = j
  BY <1>2, <1>3 DEF InsertAppliedTransaction
<1>5. /\ j \in Jobs /\ j.sub = job.sub /\ j.step = "record" /\ j.topics = job.topics
      /\ j.dupes = job.dupes /\ j.failed = job.failed /\ j.verdict = job.verdict
      /\ j.todo = job.todo \ {tx}
  BY <1>1, <1>3 DEF Jobs
<1>6. PICK t : t = Head(job.topics)
  OBVIOUS
<1>7. t \in Topics /\ t = job.topics[1] /\ job.topics \in Seq(Topics) /\ Distinct(job.topics)
  BY <1>1, <1>6 DEF Jobs, Phase
<1>8. applied' = [applied EXCEPT ![t] = @ \cup {tx}]
  BY <1>2, <1>6 DEF InsertAppliedTransaction
<1>9. ASSUME NEW k \in 1..Len(job.topics), k > 1,
             job.topics[k] \notin job.dupes \cup job.failed
      PROVE  tx \notin applied'[job.topics[k]]
  <2>1. job.topics[k] # t
    BY <1>7, <1>9 DEF Distinct
  <2>2. job.topics[k] \in Pending(job)
    BY <1>1, <1>9 DEF Pending
  <2>3. tx \notin applied[job.topics[k]] /\ job.topics[k] \in Topics
    BY <1>1, <1>2, <1>7, <2>2 DEF Unrecorded
  <2> QED BY <1>8, <2>1, <2>3 DEF TablesTyped
<1>10. Unrecorded(j)'
  BY <1>2, <1>5, <1>9 DEF Unrecorded, Pending
<1>11. Phase(j)
  BY <1>1, <1>5 DEF Phase
<1>12. Admitted(j)'
  BY <1>1, <1>5 DEF Admitted
<1> QED BY <1>4, <1>5, <1>10, <1>11, <1>12, JobBecomes

LEMMA JobStep ==
    ASSUME Shape, JobInv, line \in Seq(Subs), Next
    PROVE  JobInv'
<1> USE DEF Shape, storage, history
<1>1. ASSUME job' = job, applied' = applied, written' = written
      PROVE  JobInv'
  BY <1>1, JobStays
<1>2. CASE Start
  BY <1>2, JobStart
<1>3. CASE \E t \in Topics : ValidateTopic(t)
  BY <1>3, JobValidate
<1>4. CASE Broadcast
  <2>1. job # Idle /\ job.step = "validate" /\ job.todo = {} /\ applied' = applied
    BY <1>4 DEF Broadcast
  <2>2. Proceed \/ job' = Idle
    BY <1>4 DEF Broadcast, Finish
  <2> QED BY <2>1, <2>2, JobProceed, JobGone
<1>5. ASSUME NEW t \in Topics, NEW o \in Outs, MarkPreviousOutputSpent(t, o)
      PROVE  JobInv'
  <2>1. CASE ~Markable(t, o, TxOf[job.sub])
    BY <1>5, <2>1, JobGone DEF MarkPreviousOutputSpent, Throw, Finish
  <2>2. CASE Markable(t, o, TxOf[job.sub])
    <3>1. PICK todo : todo = job.todo \ {<<t, o>>}
      OBVIOUS
    <3>2. /\ job \in Jobs /\ job # Idle /\ job.step = "mark" /\ applied' = applied
          /\ job' = [job EXCEPT !.todo = todo]
      BY <1>5, <2>2, <3>1 DEF MarkPreviousOutputSpent, Mutating, JobInv
    <3>3. job' = [job EXCEPT !.step = "mark", !.todo = todo]
      BY <3>2 DEF Jobs
    <3>4. todo \in SUBSET (Topics \cup (Topics \X Outs) \cup Outs \cup Txs)
      BY <3>1, <3>2 DEF Jobs
    <3> QED BY <3>2, <3>3, <3>4, JobWithin
  <2> QED BY <2>1, <2>2
<1>6. CASE NextTopic
  <2>1. job # Idle /\ job \in Jobs /\ job.step = "mark" /\ job.todo = {} /\ applied' = applied
    BY <1>6 DEF NextTopic, Mutating, JobInv
  <2>2. \/ job' = Idle
        \/ job.topics # <<>> /\ job' = [job EXCEPT !.topics = Tail(@)]
        \/ /\ job.topics # <<>> /\ Changing(Head(job.topics))
           /\ job' = [job EXCEPT !.step = "prune"]
    BY <1>6 DEF NextTopic, Finish
  <2>3. CASE job.topics # <<>> /\ job' = [job EXCEPT !.topics = Tail(@)]
    <3>1. job' = [job EXCEPT !.step = "mark", !.topics = Tail(@)]
      BY <2>1, <2>3 DEF Jobs
    <3> QED BY <2>1, <2>3, <3>1, JobNext
  <2>4. CASE /\ job.topics # <<>> /\ Changing(Head(job.topics))
             /\ job' = [job EXCEPT !.step = "prune"]
    <3>1. job' = [job EXCEPT !.step = "prune", !.todo = {}]
      BY <2>1, <2>4 DEF Jobs
    <3> QED BY <2>1, <2>4, <3>1, JobWithin
  <2> QED BY <2>2, <2>3, <2>4, JobGone
<1>7. ASSUME job # Idle, job.step \in {"prune", "admit", "record"}
      PROVE  /\ job \in Jobs /\ job.topics # <<>> /\ Changing(Head(job.topics))
             /\ Head(job.topics) \in Topics /\ job.sub \in Subs
             /\ job.verdict[Head(job.topics)] \in Verdicts
             /\ TxOf[job.sub] \in Txs /\ Phase(job) /\ Admitted(job)
  BY <1>7, JobTyped DEF JobInv, Phase, Changing
<1>8. CASE StaleRemoved
  <2>1. /\ job # Idle /\ job.step = "prune" /\ job.todo = {} /\ applied' = applied
        /\ job.step \in {"prune", "admit", "record"} /\ job \in Jobs
    BY <1>7, <1>8 DEF StaleRemoved, Mutating, Phase
  <2>2. PICK todo : todo = job.verdict[Head(job.topics)].admit
    OBVIOUS
  <2>3. job' = [job EXCEPT !.step = "admit", !.todo = todo]
    BY <1>8, <2>1, <2>2 DEF StaleRemoved, Jobs
  <2>4. todo \in SUBSET (Topics \cup (Topics \X Outs) \cup Outs \cup Txs)
    BY <1>7, <2>1, <2>2 DEF Verdicts
  <2> QED BY <1>7, <2>1, <2>2, <2>3, <2>4, JobWithin
<1>9. ASSUME NEW o \in Outs, AdmitOutput(o)
      PROVE  JobInv'
  <2>1. PICK todo : todo = job.todo \ {o}
    OBVIOUS
  <2>2. PICK t : t = Head(job.topics)
    OBVIOUS
  <2>3. /\ job # Idle /\ job.step = "admit" /\ applied' = applied /\ t \in Topics
        /\ job.step \in {"prune", "admit", "record"} /\ job \in Jobs
        /\ written' = [written EXCEPT ![t] = @ \cup {o}]
    BY <1>7, <1>9, <2>2 DEF AdmitOutput, Mutating
  <2>4. job' = [job EXCEPT !.step = "admit", !.todo = todo]
    BY <1>9, <2>1, <2>3 DEF AdmitOutput, Jobs
  <2>5. todo \in SUBSET (Topics \cup (Topics \X Outs) \cup Outs \cup Txs)
    BY <2>1, <2>3 DEF Jobs
  <2>6. written'[t] = written[t] \cup {o}
    BY <2>3 DEF TablesTyped
  <2>7. /\ job.todo \subseteq job.verdict[t].admit
        /\ job.verdict[t].admit \subseteq written[t] \cup job.todo
    BY <1>7, <2>2, <2>3 DEF Phase, Admitted
  <2>8. /\ todo \subseteq job.verdict[t].admit
        /\ job.verdict[t].admit \subseteq written'[t] \cup todo
    BY <2>1, <2>6, <2>7
  <2> QED BY <1>7, <2>2, <2>3, <2>4, <2>5, <2>8, JobWithin
<1>10. CASE AllAdmitted
  <2>1. PICK todo : todo = job.verdict[Head(job.topics)].retain \cup {TxOf[job.sub]}
    OBVIOUS
  <2>2. /\ job # Idle /\ job.step = "admit" /\ job.todo = {}
        /\ applied' = applied /\ written' = written
        /\ job.step \in {"prune", "admit", "record"} /\ job \in Jobs
    BY <1>7, <1>10 DEF AllAdmitted, Mutating
  <2>3. job' = [job EXCEPT !.step = "record", !.todo = todo]
    BY <1>10, <2>1 DEF AllAdmitted
  <2>4. /\ todo \in SUBSET (Topics \cup (Topics \X Outs) \cup Outs \cup Txs)
        /\ todo \subseteq Outs \cup {TxOf[job.sub]}
    BY <1>7, <2>1, <2>2 DEF Verdicts
  <2>5. job.verdict[Head(job.topics)].admit \subseteq written[Head(job.topics)]
    BY <1>7, <2>2 DEF Admitted
  <2> QED BY <1>7, <2>2, <2>3, <2>4, <2>5, JobWithin
<1>11. ASSUME NEW o \in Outs, UpdateConsumedOutput(o)
       PROVE  JobInv'
  <2>1. PICK todo : todo = job.todo \ {o}
    OBVIOUS
  <2>2. /\ job # Idle /\ job.step = "record" /\ applied' = applied /\ written' = written
        /\ job.step \in {"prune", "admit", "record"} /\ job \in Jobs
    BY <1>7, <1>11 DEF UpdateConsumedOutput, Mutating
  <2>3. job' = [job EXCEPT !.step = "record", !.todo = todo]
    BY <1>11, <2>1, <2>2 DEF UpdateConsumedOutput, Jobs
  <2>4. todo \in SUBSET (Topics \cup (Topics \X Outs) \cup Outs \cup Txs)
    BY <2>1, <2>2 DEF Jobs
  <2>5. TxOf[job.sub] # o
    BY <1>7, <2>2, ValuesAssumption
  <2>6. todo \subseteq Outs \cup {TxOf[job.sub]}
    BY <1>7, <2>1, <2>2 DEF Phase
  <2>7. job.verdict[Head(job.topics)].admit \subseteq written[Head(job.topics)]
    BY <1>7, <2>2 DEF Admitted
  <2>8. TxOf[job.sub] \in todo <=> TxOf[job.sub] \in job.todo
    BY <2>1, <2>5
  <2> QED BY <1>7, <2>2, <2>3, <2>4, <2>6, <2>7, <2>8, JobWithin
<1>12. CASE InsertAppliedTransaction
  BY <1>12, JobRecords
<1>13. CASE TopicApplied
  <2>1. /\ job # Idle /\ job.step = "record" /\ applied' = applied /\ job.topics # <<>>
        /\ job.step \in {"mark", "record"}
        /\ job' = [job EXCEPT !.step = "mark", !.topics = Tail(@)]
    BY <1>7, <1>13 DEF TopicApplied, Mutating
  <2> QED BY <2>1, JobNext
<1>14. ASSUME NEW p \in prunes, Prune(p)
       PROVE  JobInv'
  BY <1>1, <1>14 DEF Prune, PruneDelete, PruneRead, PruneWrite
<1>15. ASSUME NEW e \in evictions, NEW t \in Topics, EvictApplied(e, t)
       PROVE  JobInv'
  <2>1. job' = job /\ applied' = [applied EXCEPT ![t] = @ \ {e.tx}] /\ written' = written
    BY <1>15 DEF EvictApplied
  <2>2. \A u \in Topics : applied'[u] \subseteq applied[u]
    BY <2>1 DEF TablesTyped
  <2> QED BY <2>1, <2>2, JobStays
<1>16. ASSUME NEW e \in evictions, NEW t \in Topics, NEW o \in Outs, EvictOutput(e, t, o)
       PROVE  JobInv'
  BY <1>1, <1>16 DEF EvictOutput
<1>17. CASE Refuse \/ StorageFails \/ Crash
  BY <1>17, JobGone DEF Refuse, StorageFails, Crash, Throw, Finish
<1>18. ASSUME NEW s \in Subs, Submit(s)
       PROVE  JobInv'
  BY <1>1, <1>18 DEF Submit
<1>19. ASSUME NEW p \in prunes, PruneFails(p)
       PROVE  JobInv'
  <2>1. (job' = job \/ job' = Idle) /\ applied' = applied /\ written' = written
    BY <1>19 DEF PruneFails, Finish
  <2> QED BY <1>1, <2>1, JobGone
<1>20. ASSUME NEW tx \in Txs, NEW scope, Evict(tx, scope)
       PROVE  JobInv'
  BY <1>1, <1>20 DEF Evict
<1> QED
  BY <1>2, <1>3, <1>4, <1>5, <1>6, <1>8, <1>9, <1>10, <1>11, <1>12, <1>13, <1>14, <1>15,
     <1>16, <1>17, <1>18, <1>19, <1>20
     DEF Next, EngineStep

-----------------------------------------------------------------------------
(***************************************************************************)
(* The tables, the prunes and the evictions keep their shape.              *)
(***************************************************************************)
LEMMA RowsStep ==
    ASSUME Shape, JobInv, Next
    PROVE  RowsTyped'
<1> USE DEF Shape, storage, history
<1>1. ASSUME rows' = rows
      PROVE  RowsTyped'
  BY <1>1, SameRows
<1>2. ASSUME NEW t \in Topics, NEW o \in Outs, MarkPreviousOutputSpent(t, o)
      PROVE  RowsTyped'
  <2>1. CASE Markable(t, o, TxOf[job.sub])
    BY <1>2, <2>1, Marks
  <2>2. CASE ~Markable(t, o, TxOf[job.sub])
    BY <1>1, <1>2, <2>2 DEF MarkPreviousOutputSpent
  <2> QED BY <2>1, <2>2
<1>3. ASSUME NEW o \in Outs, AdmitOutput(o) \/ UpdateConsumedOutput(o)
      PROVE  RowsTyped'
  BY <1>3, Admits, References
<1>4. ASSUME NEW p \in prunes, Prune(p)
      PROVE  RowsTyped'
  BY <1>1, <1>4, Deletes, WritesBack DEF Prune, PruneRead
<1>5. ASSUME NEW e \in evictions, NEW t \in Topics,
             EvictApplied(e, t) \/ \E o \in Outs : EvictOutput(e, t, o)
      PROVE  RowsTyped'
  BY <1>1, <1>5, Evicts DEF EvictApplied
<1>6. CASE \/ Start \/ Broadcast \/ NextTopic \/ StaleRemoved \/ AllAdmitted
           \/ InsertAppliedTransaction \/ TopicApplied
           \/ \E t \in Topics : ValidateTopic(t)
  BY <1>1, <1>6 DEF Start, Broadcast, NextTopic, StaleRemoved, AllAdmitted,
     InsertAppliedTransaction, TopicApplied, ValidateTopic
<1>7. CASE \/ Refuse \/ StorageFails \/ Crash
           \/ \E s \in Subs : Submit(s)
           \/ \E p \in prunes : PruneFails(p)
           \/ \E tx \in Txs, scope \in {Topics} \cup {{t} : t \in Topics} : Evict(tx, scope)
  BY <1>1, <1>7 DEF Refuse, StorageFails, Crash, Submit, PruneFails, Evict
<1> QED
  BY <1>2, <1>3, <1>4, <1>5, <1>6, <1>7 DEF Next, EngineStep

LEMMA Notified ==
    ASSUME TablesTyped, NEW answers, answers \in [Topics -> SUBSET Outs], Notify(answers)
    PROVE  index' \in [Topics -> SUBSET Outs] /\ faults' \in 0..MaxFaults
BY EngineAssumption DEF TablesTyped, Notify

LEMMA TablesStep ==
    ASSUME Shape, JobInv, Next
    PROVE  TablesTyped'
<1> USE DEF Shape, storage, history
<1>1. ASSUME UNCHANGED <<applied, index, net, used, written, due, torn, evicted, unheard, faults>>
      PROVE  TablesTyped'
  BY <1>1 DEF TablesTyped
<1>2. job # Idle => TxOf[job.sub] \in Txs
  BY JobTyped
<1>3. ASSUME NEW t \in Topics, NEW o \in Outs, MarkPreviousOutputSpent(t, o)
      PROVE  TablesTyped'
  <2>1. job # Idle /\ UNCHANGED <<applied, net, evicted, written, due>>
    BY <1>3 DEF MarkPreviousOutputSpent, Mutating
  <2>2. CASE Markable(t, o, TxOf[job.sub])
    <3>1. PICK answers : answers = [index EXCEPT ![t] = @ \ {o}]
      OBVIOUS
    <3>2. /\ Notify(answers) /\ used' = [used EXCEPT ![t] = @ \cup {o}] /\ torn' = torn
      BY <1>3, <2>2, <3>1 DEF MarkPreviousOutputSpent
    <3>3. answers \in [Topics -> SUBSET Outs]
      BY <3>1 DEF TablesTyped
    <3>4. index' \in [Topics -> SUBSET Outs] /\ faults' \in 0..MaxFaults
      BY <3>2, <3>3, Notified
    <3> QED BY <2>1, <3>2, <3>4 DEF TablesTyped
  <2>3. CASE ~Markable(t, o, TxOf[job.sub])
    BY <1>2, <1>3, <2>1, <2>3 DEF MarkPreviousOutputSpent, Throw, TablesTyped
  <2> QED BY <2>2, <2>3
<1>4. ASSUME NEW o \in Outs, AdmitOutput(o)
      PROVE  TablesTyped'
  <2>1. PICK t \in Topics : AdmitEffect(t, o)
    BY <1>4, Admits
  <2>2. PICK answers : answers = [index EXCEPT ![t] = @ \cup {o}]
    OBVIOUS
  <2>3. /\ Notify(answers) /\ written' = [written EXCEPT ![t] = @ \cup {o}]
        /\ UNCHANGED <<applied, torn, evicted, used, due>>
    BY <2>1, <2>2 DEF AdmitEffect
  <2>4. answers \in [Topics -> SUBSET Outs]
    BY <2>2 DEF TablesTyped
  <2>5. index' \in [Topics -> SUBSET Outs] /\ faults' \in 0..MaxFaults
    BY <2>3, <2>4, Notified
  <2>6. net' = net
    BY <1>4 DEF AdmitOutput
  <2> QED BY <2>3, <2>5, <2>6 DEF TablesTyped
<1>5. ASSUME NEW p \in prunes, Prune(p)
      PROVE  TablesTyped'
  <2>1. CASE (\E o \in Outs : PruneRead(p, o)) \/ PruneWrite(p)
    BY <1>1, <2>1 DEF PruneRead, PruneWrite
  <2>2. CASE PruneDelete(p)
    <3>1. UNCHANGED <<applied, net, torn, evicted, used, written, due>>
      BY <2>2 DEF PruneDelete
    <3>2. CASE UNCHANGED <<index, unheard, faults>>
      BY <1>1, <3>1, <3>2
    <3>3. ASSUME ~UNCHANGED <<index, unheard, faults>>
          PROVE  TablesTyped'
      <4>1. PICK answers : answers = [index EXCEPT ![p.topic] = @ \ {Head(p.queue).out}]
        OBVIOUS
      <4>2. Notify(answers)
        BY <2>2, <3>3, <4>1 DEF PruneDelete
      <4>3. answers \in [Topics -> SUBSET Outs]
        BY <4>1 DEF TablesTyped, PrunesTyped, Prunes
      <4> QED BY <3>1, <4>2, <4>3, Notified DEF TablesTyped
    <3> QED BY <3>2, <3>3
  <2> QED BY <1>5, <2>1, <2>2 DEF Prune
<1>6. ASSUME NEW e \in evictions, NEW t \in Topics, NEW o \in Outs, EvictOutput(e, t, o)
      PROVE  TablesTyped'
  <2>1. PICK answers : answers = [u \in Topics |-> index[u] \ {o}]
    OBVIOUS
  <2>2. /\ Notify(answers)
        /\ UNCHANGED <<applied, net, torn, evicted, used, written, due>>
    BY <1>6, <2>1 DEF EvictOutput
  <2>3. answers \in [Topics -> SUBSET Outs]
    BY <2>1 DEF TablesTyped
  <2> QED BY <2>2, <2>3, Notified DEF TablesTyped
<1>7. ASSUME NEW e \in evictions, NEW t \in Topics, EvictApplied(e, t)
      PROVE  TablesTyped'
  BY <1>7 DEF EvictApplied, TablesTyped
<1>8. CASE InsertAppliedTransaction \/ StorageFails
  <2>1. PICK tx : tx = TxOf[job.sub]
    OBVIOUS
  <2>2. PICK t : t = Head(job.topics)
    OBVIOUS
  <2>3. PICK admit : admit = job.verdict[t].admit
    OBVIOUS
  <2>4. /\ job # Idle /\ tx \in Txs
        /\ job.step = "record" => t \in Topics /\ admit \subseteq Outs
    BY <1>2, <1>8, <2>1, <2>2, <2>3, JobTyped
       DEF InsertAppliedTransaction, StorageFails, Mutating, JobInv, Phase, Verdicts
  <2>5. \/ UNCHANGED <<applied, due>>
        \/ /\ job.step = "record"
           /\ applied' = [applied EXCEPT ![t] = @ \cup {tx}]
           /\ due' = [due EXCEPT ![t] = @ \cup admit]
    BY <1>8, <2>1, <2>2, <2>3 DEF InsertAppliedTransaction, StorageFails
  <2>6. applied' \in [Topics -> SUBSET Txs] /\ due' \in [Topics -> SUBSET Outs]
    BY <2>4, <2>5 DEF TablesTyped
  <2>7. UNCHANGED <<index, net, used, written, evicted, unheard>>
    BY <1>8 DEF InsertAppliedTransaction, StorageFails
  <2>8. faults' \in 0..MaxFaults /\ torn' \subseteq Txs
    BY <1>8, <2>1, <2>4, EngineAssumption
       DEF InsertAppliedTransaction, StorageFails, Throw, TablesTyped
  <2> QED BY <2>6, <2>7, <2>8 DEF TablesTyped
<1>9. CASE Broadcast
  BY <1>2, <1>9 DEF Broadcast, TablesTyped
<1>10. CASE \/ Start \/ NextTopic \/ StaleRemoved \/ AllAdmitted \/ TopicApplied \/ Refuse
            \/ \E o \in Outs : UpdateConsumedOutput(o)
            \/ \E t \in Topics : ValidateTopic(t)
            \/ \E s \in Subs : Submit(s)
  BY <1>1, <1>10 DEF Start, NextTopic, StaleRemoved, AllAdmitted, TopicApplied, Refuse,
     UpdateConsumedOutput, ValidateTopic, Submit
<1>11. CASE Crash
  BY <1>2, <1>11, EngineAssumption DEF Crash, Mutating, TablesTyped
<1>12. ASSUME NEW p \in prunes, PruneFails(p)
       PROVE  TablesTyped'
  <2>1. TxOf[p.sub] \in Txs
    BY EngineAssumption DEF PrunesTyped, Prunes
  <2> QED BY <1>12, <2>1, EngineAssumption DEF PruneFails, TablesTyped
<1>13. ASSUME NEW tx \in Txs, NEW scope, Evict(tx, scope)
       PROVE  TablesTyped'
  BY <1>13, EngineAssumption DEF Evict, TablesTyped
<1> QED
  BY <1>3, <1>4, <1>5, <1>6, <1>7, <1>8, <1>9, <1>10, <1>11, <1>12, <1>13
     DEF Next, EngineStep

LEMMA PrunesStep ==
    ASSUME Shape, JobInv, Next
    PROVE  PrunesTyped'
<1> USE DEF Shape
<1>1. ASSUME prunes' \subseteq prunes
      PROVE  PrunesTyped'
  BY <1>1 DEF PrunesTyped
<1>2. ASSUME NEW p \in prunes, NEW q \in Prunes, Becomes(p, q)
      PROVE  PrunesTyped'
  BY <1>2 DEF Becomes, PrunesTyped
<1>3. CASE NextTopic
  <2>1. CASE prunes' = prunes
    BY <1>1, <2>1
  <2>2. CASE prunes' # prunes
    <3>1. PICK t : t = Head(job.topics)
      OBVIOUS
    <3>2. /\ job # Idle /\ job \in Jobs /\ job.sub \in Subs /\ t \in Topics
          /\ prunes' = prunes \cup {PruneOf(t, o) : o \in {x \in Stale(t) : Stored(t, x)}}
      BY <1>3, <2>2, <3>1, JobTyped DEF NextTopic, Mutating
    <3>3. Stale(t) \subseteq Outs
      BY <3>2, JobTyped DEF Stale, Verdicts
    <3>4. ASSUME NEW o \in Outs, Stored(t, o)
          PROVE  PruneOf(t, o) \in Prunes
      <4>1. rows[t][o] \in Rows
        BY <3>2, <3>4 DEF RowsTyped, Stored
      <4>2. PICK r : r = [out |-> o, by |-> rows[t][o].by, consumed |-> rows[t][o].consumed]
        OBVIOUS
      <4>3. r \in Reads
        BY <4>1, <4>2 DEF Reads, Rows
      <4>4. PruneOf(t, o) = [sub |-> job.sub, topic |-> t, root |-> o, last |-> o,
                             queue |-> <<r>>, refs |-> {}, held |-> {}]
        BY <4>2 DEF PruneOf
      <4> QED BY <3>2, <4>3, <4>4 DEF Prunes
    <3> QED BY <3>2, <3>3, <3>4 DEF PrunesTyped
  <2> QED BY <2>1, <2>2
<1>4. ASSUME NEW p \in prunes, PruneDelete(p)
      PROVE  PrunesTyped'
  <2>1. p \in Prunes /\ p.queue # <<>> /\ p.queue \in Seq(Reads)
    BY <1>4 DEF PrunesTyped, PruneDelete, Prunes
  <2>2. PICK row \in Reads : row = Head(p.queue)
    BY <2>1
  <2>3. PICK rest : rest = [p EXCEPT !.queue = Tail(@)]
    OBVIOUS
  <2>4. rest \in Prunes
    <3>1. Tail(p.queue) \in Seq(Reads)
      BY <2>1
    <3> QED BY <2>1, <2>3, <3>1 DEF Prunes
  <2>5. Becomes(p, [rest EXCEPT !.last = row.out, !.refs = row.consumed]) \/ Becomes(p, rest)
    BY <1>4, <2>2, <2>3 DEF PruneDelete
  <2>6. [rest EXCEPT !.last = row.out, !.refs = row.consumed] \in Prunes
    BY <2>2, <2>4 DEF Prunes, Reads
  <2> QED BY <1>2, <2>4, <2>5, <2>6
<1>5. ASSUME NEW p \in prunes, NEW o \in Outs, PruneRead(p, o)
      PROVE  PrunesTyped'
  <2>1. p \in Prunes /\ p.topic \in Topics /\ p.last \in Outs
    BY DEF PrunesTyped, Prunes
  <2>2. PICK row : row = rows[p.topic][o]
    OBVIOUS
  <2>3. PICK read : read = [out |-> o, by |-> row.by \ {p.last}, consumed |-> row.consumed]
    OBVIOUS
  <2>4. PICK rest : rest = [p EXCEPT !.refs = @ \ {o}]
    OBVIOUS
  <2>5. rest \in Prunes
    BY <2>1, <2>4 DEF Prunes
  <2>6. \/ Becomes(p, rest)
        \/ Stored(p.topic, o) /\ Becomes(p, [rest EXCEPT !.held = {read}])
    BY <1>5, <2>2, <2>3, <2>4 DEF PruneRead
  <2>7. ASSUME Stored(p.topic, o)
        PROVE  [rest EXCEPT !.held = {read}] \in Prunes
    <3>1. row \in Rows
      BY <2>1, <2>2, <2>7 DEF RowsTyped, Stored
    <3>2. read \in Reads
      BY <2>3, <3>1 DEF Reads, Rows
    <3> QED BY <2>5, <3>2 DEF Prunes
  <2> QED BY <1>2, <2>5, <2>6, <2>7
<1>6. ASSUME NEW p \in prunes, PruneWrite(p)
      PROVE  PrunesTyped'
  <2>1. PICK read \in p.held :
          Becomes(p, [p EXCEPT !.held = {},
                               !.queue = IF Bare(read) THEN Append(@, read) ELSE @])
    BY <1>6 DEF PruneWrite
  <2>2. p \in Prunes /\ read \in Reads
    BY DEF PrunesTyped, Prunes
  <2>3. PICK queue : queue = IF Bare(read) THEN Append(p.queue, read) ELSE p.queue
    OBVIOUS
  <2>4. queue \in Seq(Reads)
    BY <2>2, <2>3 DEF Prunes
  <2>5. PICK q : q = [p EXCEPT !.held = {}, !.queue = queue]
    OBVIOUS
  <2>6. q \in Prunes
    BY <2>2, <2>4, <2>5 DEF Prunes
  <2>7. Becomes(p, q)
    BY <2>1, <2>3, <2>5
  <2> QED BY <1>2, <2>6, <2>7
<1>7. CASE \/ Start \/ Broadcast \/ StaleRemoved \/ AllAdmitted
           \/ InsertAppliedTransaction \/ TopicApplied
           \/ \E t \in Topics : ValidateTopic(t)
           \/ \E t \in Topics, o \in Outs : MarkPreviousOutputSpent(t, o)
           \/ \E o \in Outs : AdmitOutput(o) \/ UpdateConsumedOutput(o)
           \/ \E e \in evictions, t \in Topics :
                EvictApplied(e, t) \/ \E o \in Outs : EvictOutput(e, t, o)
  BY <1>1, <1>7 DEF Start, Broadcast, StaleRemoved, AllAdmitted, InsertAppliedTransaction,
     TopicApplied, ValidateTopic, MarkPreviousOutputSpent, AdmitOutput, UpdateConsumedOutput,
     EvictApplied, EvictOutput
<1>8. CASE \/ Refuse \/ StorageFails \/ Crash
           \/ \E s \in Subs : Submit(s)
           \/ \E p \in prunes : PruneFails(p)
           \/ \E tx \in Txs, scope \in {Topics} \cup {{t} : t \in Topics} : Evict(tx, scope)
  BY <1>1, <1>8 DEF Refuse, StorageFails, Crash, Submit, PruneFails, Evict
<1> QED
  BY <1>3, <1>4, <1>5, <1>6, <1>7, <1>8 DEF Next, EngineStep, Prune

LEMMA EvictionsStep ==
    ASSUME Shape, JobInv, Next
    PROVE  EvictionsTyped'
<1> USE DEF Shape, history
<1>1. ASSUME evictions' \subseteq evictions, evicted \subseteq evicted'
      PROVE  EvictionsTyped'
  BY <1>1 DEF EvictionsTyped
<1>2. ASSUME NEW tx \in Txs, NEW scope \in {Topics} \cup {{t} : t \in Topics}, Evict(tx, scope)
      PROVE  EvictionsTyped'
  <2>1. PICK outs : outs = {x \in scope \X Made(tx) : Stored(x[1], x[2])}
    OBVIOUS
  <2>2. outs \subseteq Topics \X Outs /\ \A x \in outs : Maker[x[2]] = tx
    BY <2>1 DEF Made
  <2>3. PICK e : e = [tx |-> tx, outs |-> outs, topics |-> {x[1] : x \in outs}]
    OBVIOUS
  <2>4. e \in Evictions /\ e.tx = tx /\ e.outs = outs
    BY <2>2, <2>3 DEF Evictions
  <2>5. evictions' = evictions \cup {e} /\ evicted' = evicted \cup {tx}
    BY <1>2, <2>1, <2>3 DEF Evict
  <2> QED BY <2>2, <2>4, <2>5 DEF EvictionsTyped
<1>3. ASSUME NEW e \in evictions, NEW f \in Evictions, f.tx = e.tx, f.outs \subseteq e.outs,
             evictions' \subseteq evictions \cup {f}, evicted' = evicted
      PROVE  EvictionsTyped'
  BY <1>3 DEF EvictionsTyped
<1>4. ASSUME NEW e \in evictions, NEW t \in Topics, NEW o \in Outs, EvictOutput(e, t, o)
      PROVE  EvictionsTyped'
  <2>1. PICK f : f = [e EXCEPT !.outs = @ \ {<<t, o>>}]
    OBVIOUS
  <2>2. e \in Evictions
    BY DEF EvictionsTyped
  <2>3. f \in Evictions /\ f.tx = e.tx /\ f.outs \subseteq e.outs
    BY <2>1, <2>2 DEF Evictions
  <2>4. evictions' \subseteq evictions \cup {f} /\ evicted' = evicted
    BY <1>4, <2>1 DEF EvictOutput
  <2> QED BY <1>3, <2>3, <2>4
<1>5. ASSUME NEW e \in evictions, NEW t \in Topics, EvictApplied(e, t)
      PROVE  EvictionsTyped'
  <2>1. PICK f : f = [e EXCEPT !.topics = @ \ {t}]
    OBVIOUS
  <2>2. e \in Evictions
    BY DEF EvictionsTyped
  <2>3. f \in Evictions /\ f.tx = e.tx /\ f.outs \subseteq e.outs
    BY <2>1, <2>2 DEF Evictions
  <2>4. evictions' \subseteq evictions \cup {f} /\ evicted' = evicted
    BY <1>5, <2>1 DEF EvictApplied
  <2> QED BY <1>3, <2>3, <2>4
<1>6. CASE \/ Start \/ Broadcast \/ NextTopic \/ StaleRemoved \/ AllAdmitted
           \/ InsertAppliedTransaction \/ TopicApplied
           \/ \E t \in Topics : ValidateTopic(t)
           \/ \E t \in Topics, o \in Outs : MarkPreviousOutputSpent(t, o)
           \/ \E o \in Outs : AdmitOutput(o) \/ UpdateConsumedOutput(o)
  BY <1>1, <1>6 DEF Start, Broadcast, NextTopic, StaleRemoved, AllAdmitted,
     InsertAppliedTransaction, TopicApplied, ValidateTopic, MarkPreviousOutputSpent, AdmitOutput,
     UpdateConsumedOutput
<1>7. ASSUME NEW p \in prunes, Prune(p)
      PROVE  EvictionsTyped'
  BY <1>1, <1>7 DEF Prune, PruneDelete, PruneRead, PruneWrite
<1>8. CASE \/ Refuse \/ StorageFails \/ Crash
           \/ \E s \in Subs : Submit(s)
           \/ \E p \in prunes : PruneFails(p)
  BY <1>1, <1>8 DEF Refuse, StorageFails, Crash, Submit, PruneFails
<1> QED
  BY <1>2, <1>4, <1>5, <1>6, <1>7, <1>8 DEF Next, EngineStep

-----------------------------------------------------------------------------
(***************************************************************************)
(* The turn.                                                               *)
(***************************************************************************)
LEMMA TurnsStep ==
    ASSUME JobInv, Turns, Next
    PROVE  Turns'
<1>1. ASSUME UNCHANGED <<line, call>>, job' = Idle \/ (job # Idle /\ job'.sub = job.sub) \/ job' = job
      PROVE  Turns'
  BY <1>1 DEF Turns
<1>2. ASSUME job # Idle, NEW result \in {"done", "failed"}, Finish(result), line' = line
      PROVE  Turns'
  <2>1. job.sub \in Subs /\ call[job.sub] = "running"
    BY <1>2, JobTyped DEF Turns
  <2> QED BY <1>2, <2>1 DEF Turns, Finish
<1>3. ASSUME NEW s \in Subs, Submit(s)
      PROVE  Turns'
  <2>1. /\ call[s] = "new" /\ call' = [call EXCEPT ![s] = "waiting"]
        /\ line' = Append(line, s) /\ job' = job
    BY <1>3 DEF Submit
  <2>2. /\ line \in Seq(Subs) /\ line' \in Seq(Subs) /\ Len(line') = Len(line) + 1
        /\ \A i \in 1..Len(line) : line'[i] = line[i]
        /\ line'[Len(line) + 1] = s
    BY <2>1 DEF Turns
  <2>3. \A i \in 1..Len(line) : line[i] # s
    BY <2>1 DEF Turns
  <2>4. Distinct(line)'
    BY <2>2, <2>3 DEF Distinct, Turns
  <2>5. \A x \in Subs : (call[x] = "waiting" <=> \E i \in 1..Len(line) : line[i] = x)'
    <3> SUFFICES ASSUME NEW x \in Subs
                 PROVE  call'[x] = "waiting" <=> \E i \in 1..Len(line') : line'[i] = x
      OBVIOUS
    <3>1. CASE x = s
      BY <2>1, <2>2, <3>1 DEF Turns
    <3>2. CASE x # s
      BY <2>1, <2>2, <3>2 DEF Turns
    <3> QED BY <3>1, <3>2
  <2>6. job' # Idle => call'[job'.sub] = "running"
    BY <2>1, JobTyped DEF Turns
  <2> QED BY <2>1, <2>2, <2>4, <2>5, <2>6 DEF Turns
<1>4. CASE Start
  <2>1. PICK s : s = Head(line)
    OBVIOUS
  <2>2. /\ line # <<>> /\ line' = Tail(line) /\ job'.sub = s
        /\ call' = [call EXCEPT ![s] = "running"]
    BY <1>4, <2>1 DEF Start
  <2>3. /\ line \in Seq(Subs) /\ line' \in Seq(Subs) /\ Len(line') = Len(line) - 1
        /\ s = line[1] /\ s \in Subs /\ Len(line) \in Nat /\ Len(line) > 0
        /\ \A i \in 1..Len(line') : line'[i] = line[i + 1]
    BY <2>1, <2>2 DEF Turns
  <2>4. Distinct(line)'
    BY <2>3 DEF Distinct, Turns
  <2>5. \A x \in Subs : (call[x] = "waiting" <=> \E i \in 1..Len(line) : line[i] = x)'
    <3> SUFFICES ASSUME NEW x \in Subs
                 PROVE  call'[x] = "waiting" <=> \E i \in 1..Len(line') : line'[i] = x
      OBVIOUS
    <3>1. CASE x = s
      BY <2>2, <2>3, <3>1 DEF Turns, Distinct
    <3>2. CASE x # s
      <4>1. call'[x] = call[x]
        BY <2>2, <3>2 DEF Turns
      <4>2. ASSUME NEW i \in 1..Len(line), line[i] = x
            PROVE  \E k \in 1..Len(line') : line'[k] = x
        <5>1. i - 1 \in 1..Len(line') /\ (i - 1) + 1 = i
          BY <2>3, <3>2, <4>2
        <5> QED BY <2>3, <4>2, <5>1
      <4>3. ASSUME NEW k \in 1..Len(line'), line'[k] = x
            PROVE  \E i \in 1..Len(line) : line[i] = x
        <5>1. k + 1 \in 1..Len(line)
          BY <2>3
        <5> QED BY <2>3, <4>3, <5>1
      <4> QED BY <4>1, <4>2, <4>3 DEF Turns
    <3> QED BY <3>1, <3>2
  <2> QED BY <2>2, <2>3, <2>4, <2>5 DEF Turns
<1>5. CASE Refuse
  BY <1>2, <1>5 DEF Refuse
<1>6. CASE Broadcast
  BY <1>1, <1>2, <1>6 DEF Broadcast, Proceed, JobInv, Jobs
<1>7. CASE NextTopic
  BY <1>1, <1>2, <1>7 DEF NextTopic, Mutating, JobInv, Jobs
<1>8. CASE \/ StaleRemoved \/ AllAdmitted \/ InsertAppliedTransaction \/ TopicApplied
           \/ \E o \in Outs : AdmitOutput(o) \/ UpdateConsumedOutput(o)
  BY <1>1, <1>8 DEF StaleRemoved, AllAdmitted, InsertAppliedTransaction, TopicApplied,
     AdmitOutput, UpdateConsumedOutput, Mutating, JobInv, Jobs
<1>9. ASSUME NEW t \in Topics, ValidateTopic(t)
      PROVE  Turns'
  <2>1. UNCHANGED <<line, call>> /\ job # Idle
    BY <1>9 DEF ValidateTopic
  <2>2. job \in Jobs
    BY <2>1 DEF JobInv
  <2>3. job'.sub = job.sub
    BY <1>9, <2>2 DEF ValidateTopic, Jobs
  <2> QED BY <1>1, <2>1, <2>3
<1>10. ASSUME NEW t \in Topics, NEW o \in Outs, MarkPreviousOutputSpent(t, o)
       PROVE  Turns'
  BY <1>1, <1>2, <1>10 DEF MarkPreviousOutputSpent, Throw, Mutating, JobInv, Jobs
<1>11. ASSUME NEW p \in prunes, Prune(p)
       PROVE  Turns'
  BY <1>1, <1>11 DEF Prune, PruneDelete, PruneRead, PruneWrite
<1>12. ASSUME NEW e \in evictions, NEW t \in Topics,
              EvictApplied(e, t) \/ \E o \in Outs : EvictOutput(e, t, o)
       PROVE  Turns'
  BY <1>1, <1>12 DEF EvictApplied, EvictOutput
<1>13. CASE StorageFails
  BY <1>2, <1>13 DEF StorageFails, Throw, Mutating
<1>14. CASE Crash
  <2>1. /\ line' = <<>> /\ job' = Idle
        /\ call' = [s \in Subs |-> IF call[s] \in {"waiting", "running"} THEN "lost" ELSE call[s]]
    BY <1>14 DEF Crash
  <2>2. line' \in Seq(Subs) /\ Len(line') = 0
    BY <2>1
  <2>3. \A x \in Subs : call'[x] # "waiting"
    BY <2>1
  <2>4. call' \in [Subs -> {"never", "new", "waiting", "running", "done", "failed", "lost"}]
    BY <2>1 DEF Turns
  <2>5. Distinct(line)'
    BY <2>2 DEF Distinct
  <2> QED BY <2>1, <2>2, <2>3, <2>4, <2>5 DEF Turns
<1>15. ASSUME NEW p \in prunes, PruneFails(p)
       PROVE  Turns'
  BY <1>1, <1>2, <1>15 DEF PruneFails
<1>16. ASSUME NEW tx \in Txs, NEW scope, Evict(tx, scope)
       PROVE  Turns'
  BY <1>1, <1>16 DEF Evict
<1> QED
  BY <1>3, <1>4, <1>5, <1>6, <1>7, <1>8, <1>9, <1>10, <1>11, <1>12, <1>13, <1>14, <1>15, <1>16
     DEF Next, EngineStep

-----------------------------------------------------------------------------
(***************************************************************************)
(* The outputs.                                                            *)
(***************************************************************************)
\* A lookup service that missed nothing answers as it was told.
LEMMA Heard ==
    ASSUME NEW answers, Notify(answers)
    PROVE  ~unheard' => ~unheard /\ index' = answers
BY DEF Notify

\* A marked coin is stored, hence written, and no longer unspent.
LEMMA MarkSound ==
    ASSUME Shape, JobInv, OutputsSound, NEW t \in Topics, NEW o \in Outs, MarkEffect(t, o)
    PROVE  OutputsSound'
<1>1. SUFFICES ASSUME NEW u \in Topics, NEW x \in Outs
               PROVE  Sound(u, x)'
  BY DEF OutputsSound
<1>2. Sound(u, x) /\ ~Admitting(u, x)
  BY DEF OutputsSound, Admitting, MarkEffect
<1>3. /\ UNCHANGED <<applied, torn, evicted, written, due>>
      /\ used' = [used EXCEPT ![t] = @ \cup {o}]
      /\ ~unheard' => ~unheard /\ index' = [index EXCEPT ![t] = @ \ {o}]
  BY Heard DEF MarkEffect
<1>4. CASE u = t /\ x = o
  <2>1. Stored(u, x) /\ ~Unspent(u, x)'
    BY <1>4 DEF MarkEffect
  <2> QED BY <1>2, <1>3, <1>4, <2>1 DEF Sound, Shape, TablesTyped
<1>5. CASE <<u, x>> # <<t, o>>
  <2>1. (Stored(u, x)' <=> Stored(u, x)) /\ (Unspent(u, x)' <=> Unspent(u, x))
    BY <1>5 DEF MarkEffect, OthersKept
  <2>2. /\ x \in used'[u] <=> x \in used[u]
        /\ ~unheard' => ~unheard /\ (x \in index'[u] <=> x \in index[u])
    BY <1>3, <1>5 DEF Shape, TablesTyped
  <2> QED BY <1>2, <1>3, <2>1, <2>2 DEF Sound
<1> QED BY <1>4, <1>5

\* The topic has not recorded the transaction, so an output still to be
\* admitted was not written before unless the transaction was interrupted or
\* evicted: it was never spent either.
LEMMA AdmitSound ==
    ASSUME Shape, JobInv, OutputsSound, NEW t \in Topics, NEW o \in Outs, AdmitEffect(t, o)
    PROVE  OutputsSound'
<1>1. SUFFICES ASSUME NEW u \in Topics, NEW x \in Outs
               PROVE  Sound(u, x)'
  BY DEF OutputsSound
<1>2. Sound(u, x) /\ Sound(t, o)
  BY DEF OutputsSound
<1>3. /\ UNCHANGED <<applied, torn, evicted, used, due>>
      /\ written' = [written EXCEPT ![t] = @ \cup {o}]
      /\ ~unheard' => ~unheard /\ index' = [index EXCEPT ![t] = @ \cup {o}]
  BY Heard DEF AdmitEffect
<1>4. /\ job \in Jobs /\ Phase(job) /\ Unrecorded(job) /\ job # Idle
      /\ job.step = "admit" /\ t = Head(job.topics) /\ o \in job.todo
      /\ job' = [job EXCEPT !.todo = @ \ {o}]
  BY DEF JobInv, AdmitEffect
<1>5. /\ job'.step = "admit" /\ job'.topics = job.topics /\ job'.sub = job.sub
      /\ job'.todo = job.todo \ {o} /\ job' \in Jobs
  BY <1>4 DEF Jobs
<1>6. job' # Idle
  BY <1>5, ValuesAssumption
<1>7. Maker[o] = TxOf[job.sub]
  BY <1>4 DEF Phase, Made
<1>8. t \in Pending(job)
  <2>1. /\ job.topics # <<>> /\ job.topics \in Seq(Topics)
        /\ Head(job.topics) \notin job.dupes \cup job.failed
    BY <1>4 DEF Phase, Jobs
  <2>2. 1 \in 1..Len(job.topics) /\ job.topics[1] = t
    BY <1>4, <2>1
  <2> QED BY <1>4, <2>1, <2>2 DEF Pending
<1>9. TxOf[job.sub] \notin applied[t]
  BY <1>4, <1>8 DEF Unrecorded
<1>10. CASE u = t /\ x = o
  <2>1. Admitting(u, x)'
    BY <1>4, <1>5, <1>6, <1>7, <1>10 DEF Admitting
  <2>2. ~Admitting(u, x)
    BY <1>4, <1>10 DEF Admitting
  <2>3. Maker[x] \notin torn \cup evicted => x \notin written[u]
    BY <1>2, <1>7, <1>9, <1>10, <2>2 DEF Sound
  <2>4. Maker[x] \notin torn \cup evicted => ~Stored(u, x) /\ x \notin used[u]
    BY <1>2, <2>3 DEF Sound
  <2>5. ~Stored(u, x) => Unspent(u, x)'
    BY <1>10 DEF AdmitEffect
  <2> QED BY <1>3, <1>10, <2>1, <2>4, <2>5 DEF Sound, Shape, TablesTyped
<1>11. CASE <<u, x>> # <<t, o>>
  <2>1. (Stored(u, x)' <=> Stored(u, x)) /\ (Unspent(u, x)' <=> Unspent(u, x))
    BY <1>11 DEF AdmitEffect, OthersKept
  <2>2. Admitting(u, x) => Admitting(u, x)'
    BY <1>4, <1>5, <1>6 DEF Admitting
  <2>3. /\ x \in written'[u] <=> x \in written[u]
        /\ ~unheard' => ~unheard /\ (x \in index'[u] <=> x \in index[u])
    BY <1>3, <1>11 DEF Shape, TablesTyped
  <2> QED BY <1>2, <1>3, <2>1, <2>2, <2>3 DEF Sound
<1> QED BY <1>10, <1>11

LEMMA DropSound ==
    ASSUME Shape, OutputsSound, NEW t \in Topics, NEW o \in Outs, DropEffect(t, o)
    PROVE  OutputsSound'
<1>1. SUFFICES ASSUME NEW u \in Topics, NEW x \in Outs
               PROVE  Sound(u, x)'
  BY DEF OutputsSound
<1>2. Sound(u, x)
  BY DEF OutputsSound
<1>3. /\ UNCHANGED <<applied, job, torn, evicted, used, written, due>>
      /\ \/ ~unheard' => ~unheard /\ index' = [index EXCEPT ![t] = @ \ {o}]
         \/ /\ Maker[o] \in evicted
            /\ ~unheard' => ~unheard /\ index' = [v \in Topics |-> index[v] \ {o}]
  BY Heard DEF DropEffect
<1>4. Admitting(u, x)' <=> Admitting(u, x)
  BY <1>3 DEF Admitting
<1>5. CASE u = t /\ x = o
  <2>1. ~Stored(u, x)' /\ ~Unspent(u, x)'
    BY <1>5 DEF DropEffect, Unspent
  <2> QED BY <1>2, <1>3, <1>4, <1>5, <2>1 DEF Sound, Shape, TablesTyped
<1>6. CASE <<u, x>> # <<t, o>>
  <2>1. (Stored(u, x)' <=> Stored(u, x)) /\ (Unspent(u, x)' <=> Unspent(u, x))
    BY <1>6 DEF DropEffect, OthersKept
  <2>2. ~unheard' /\ Maker[x] \notin evicted => ~unheard /\ (x \in index'[u] <=> x \in index[u])
    BY <1>3, <1>6 DEF Shape, TablesTyped
  <2> QED BY <1>2, <1>3, <1>4, <2>1, <2>2 DEF Sound
<1> QED BY <1>5, <1>6

\* The applied record is written when every output of the topic is.
RecordEffect ==
    /\ job # Idle /\ job.step = "record"
    /\ applied' = [applied EXCEPT ![Head(job.topics)] = @ \cup {TxOf[job.sub]}]
    /\ due' = [due EXCEPT ![Head(job.topics)] =
                           @ \cup job.verdict[Head(job.topics)].admit]
    /\ RowsKept /\ torn \subseteq torn'
    /\ UNCHANGED <<index, evicted, unheard, used, written>>

LEMMA RecordSound ==
    ASSUME Shape, JobInv, OutputsSound, RecordEffect
    PROVE  OutputsSound'
<1>1. SUFFICES ASSUME NEW u \in Topics, NEW x \in Outs
               PROVE  Sound(u, x)'
  BY DEF OutputsSound
<1>2. Sound(u, x) /\ (Stored(u, x)' <=> Stored(u, x)) /\ (Unspent(u, x)' <=> Unspent(u, x))
  BY DEF OutputsSound, RecordEffect, RowsKept
<1>3. PICK t : t = Head(job.topics)
  OBVIOUS
<1>4. t \in Topics /\ job.verdict[t].admit \subseteq written[t]
  BY <1>3, JobTyped DEF RecordEffect, JobInv, Phase, Admitted
<1>5. /\ applied' = [applied EXCEPT ![t] = @ \cup {TxOf[job.sub]}]
      /\ due' = [due EXCEPT ![t] = @ \cup job.verdict[t].admit]
      /\ torn \subseteq torn' /\ UNCHANGED <<index, evicted, unheard, used, written>>
  BY <1>3 DEF RecordEffect
<1>6. x \in due'[u] => x \in written[u]
  BY <1>2, <1>4, <1>5 DEF Sound, Shape, TablesTyped
<1>7. applied[u] \subseteq applied'[u]
  BY <1>4, <1>5 DEF Shape, TablesTyped
<1>8. Admitting(u, x) => Maker[x] \in applied'[u]
  BY <1>3, <1>4, <1>5 DEF Admitting, Shape, TablesTyped
<1> QED BY <1>2, <1>5, <1>6, <1>7, <1>8 DEF Sound

\* A record goes only when its transaction is evicted.
UnapplyEffect ==
    /\ \A t \in Topics : applied[t] \subseteq applied'[t] \cup evicted
    /\ RowsKept
    /\ UNCHANGED <<index, job, torn, evicted, unheard, used, written, due>>

LEMMA UnapplySound ==
    ASSUME OutputsSound, UnapplyEffect
    PROVE  OutputsSound'
<1>1. SUFFICES ASSUME NEW u \in Topics, NEW x \in Outs
               PROVE  Sound(u, x)'
  BY DEF OutputsSound
<1>2. Sound(u, x) /\ (Stored(u, x)' <=> Stored(u, x)) /\ (Unspent(u, x)' <=> Unspent(u, x))
  BY DEF OutputsSound, UnapplyEffect, RowsKept
<1>3. (Admitting(u, x)' <=> Admitting(u, x)) /\ applied[u] \subseteq applied'[u] \cup evicted
  BY DEF Admitting, UnapplyEffect
<1> QED BY <1>2, <1>3 DEF Sound, UnapplyEffect

\* Every other step leaves the outputs alone: a submission gives an admission
\* up only by being interrupted.
MoveEffect ==
    /\ RowsKept
    /\ torn \subseteq torn' /\ evicted \subseteq evicted'
    /\ \A t \in Topics, o \in Outs : Admitting(t, o) => Admitting(t, o)' \/ Maker[o] \in torn'
    /\ UNCHANGED <<applied, index, unheard, used, written, due>>

LEMMA MoveSound ==
    ASSUME OutputsSound, MoveEffect
    PROVE  OutputsSound'
<1>1. SUFFICES ASSUME NEW u \in Topics, NEW x \in Outs
               PROVE  Sound(u, x)'
  BY DEF OutputsSound
<1>2. Sound(u, x) /\ (Stored(u, x)' <=> Stored(u, x)) /\ (Unspent(u, x)' <=> Unspent(u, x))
  BY DEF OutputsSound, MoveEffect, RowsKept
<1>3. Admitting(u, x) => Admitting(u, x)' \/ Maker[x] \in torn'
  BY DEF MoveEffect
<1> QED BY <1>2, <1>3 DEF Sound, MoveEffect

LEMMA OutputsStep ==
    ASSUME Shape, JobInv, OutputsSound, Next
    PROVE  OutputsSound'
<1> USE DEF Shape, storage, history
<1>1. ASSUME RowsKept, UNCHANGED <<applied, index, unheard, used, written, due>>,
             torn \subseteq torn', evicted \subseteq evicted',
             \/ job' = job
             \/ job = Idle
             \/ job.step \notin {"admit", "record"}
             \/ TxOf[job.sub] \in torn'
      PROVE  OutputsSound'
  <2>1. \A t \in Topics, o \in Outs : Admitting(t, o) => Admitting(t, o)' \/ Maker[o] \in torn'
    BY <1>1 DEF Admitting
  <2> QED BY <1>1, <2>1, MoveSound DEF MoveEffect
<1>2. rows' = rows => RowsKept
  BY SameRows
<1>3. ASSUME NEW t \in Topics, NEW o \in Outs, MarkPreviousOutputSpent(t, o)
      PROVE  OutputsSound'
  <2>1. CASE Markable(t, o, TxOf[job.sub])
    BY <1>3, <2>1, Marks, MarkSound
  <2>2. CASE ~Markable(t, o, TxOf[job.sub])
    BY <1>1, <1>2, <1>3, <2>2 DEF MarkPreviousOutputSpent, Throw
  <2> QED BY <2>1, <2>2
<1>4. ASSUME NEW o \in Outs, AdmitOutput(o)
      PROVE  OutputsSound'
  <2>1. PICK t \in Topics : AdmitEffect(t, o)
    BY <1>4, Admits
  <2> QED BY <2>1, AdmitSound
<1>5. CASE AllAdmitted
  <2>1. /\ job # Idle /\ job \in Jobs /\ job.step = "admit"
        /\ job' = [job EXCEPT !.step = "record",
                              !.todo = job.verdict[Head(job.topics)].retain \cup {TxOf[job.sub]}]
        /\ rows' = rows
        /\ UNCHANGED <<applied, index, unheard, used, written, due, torn, evicted>>
    BY <1>5 DEF AllAdmitted, Mutating, JobInv
  <2>2. /\ job'.step = "record" /\ job'.sub = job.sub /\ job'.topics = job.topics
        /\ TxOf[job.sub] \in job'.todo
    BY <2>1 DEF Jobs
  <2>3. job' # Idle
    <3>1. PICK todo : todo = job.verdict[Head(job.topics)].retain \cup {TxOf[job.sub]}
      OBVIOUS
    <3>2. Head(job.topics) \in Topics
      BY <2>1, JobTyped DEF JobInv, Phase
    <3>3. todo \subseteq Outs \cup Txs
      BY <2>1, <3>1, <3>2, JobTyped DEF Verdicts
    <3>4. job' = [job EXCEPT !.step = "record", !.todo = todo]
      BY <2>1, <3>1
    <3>5. job \in Jobs /\ todo \in SUBSET (Topics \cup (Topics \X Outs) \cup Outs \cup Txs)
      BY <2>1, <3>3
    <3>6. job' \in Jobs
      BY <3>4, <3>5 DEF Jobs
    <3> QED BY <3>6, ValuesAssumption
  <2>4. \A t \in Topics, o \in Outs : Admitting(t, o) => Admitting(t, o)'
    BY <2>2, <2>3 DEF Admitting
  <2> QED BY <1>2, <2>1, <2>4, MoveSound DEF MoveEffect
<1>6. ASSUME NEW o \in Outs, UpdateConsumedOutput(o)
      PROVE  OutputsSound'
  <2>1. /\ job # Idle /\ job \in Jobs /\ job.step = "record"
        /\ job' = [job EXCEPT !.todo = @ \ {o}]
        /\ UNCHANGED <<applied, index, unheard, used, written, due, torn, evicted>>
    BY <1>6 DEF UpdateConsumedOutput, Mutating, JobInv
  <2>2. /\ job'.step = "record" /\ job'.sub = job.sub /\ job'.topics = job.topics
        /\ job'.todo = job.todo \ {o} /\ job' \in Jobs
    BY <2>1 DEF Jobs
  <2>3. TxOf[job.sub] # o
    BY <2>1, JobTyped, ValuesAssumption
  <2>4. job' # Idle
    BY <2>2, ValuesAssumption
  <2>5. \A t \in Topics, x \in Outs : Admitting(t, x) => Admitting(t, x)'
    BY <2>1, <2>2, <2>3, <2>4 DEF Admitting
  <2>6. RowsKept
    BY <1>6, References
  <2> QED BY <2>1, <2>5, <2>6, MoveSound DEF MoveEffect
<1>7. CASE InsertAppliedTransaction
  BY <1>2, <1>7, RecordSound DEF InsertAppliedTransaction, Mutating, RecordEffect
<1>8. CASE TopicApplied
  <2>1. /\ job.step = "record" /\ job.todo = {} /\ rows' = rows
        /\ UNCHANGED <<applied, index, unheard, used, written, due, torn, evicted>>
    BY <1>8 DEF TopicApplied
  <2>2. \A t \in Topics, o \in Outs : ~Admitting(t, o)
    BY <2>1 DEF Admitting
  <2> QED BY <1>2, <2>1, <2>2, MoveSound DEF MoveEffect
<1>9. CASE Start \/ \E s \in Subs : Submit(s)
  BY <1>1, <1>2, <1>9 DEF Start, Submit
<1>10. CASE Broadcast \/ Refuse \/ \E t \in Topics : ValidateTopic(t)
  BY <1>1, <1>2, <1>10 DEF Broadcast, Refuse, ValidateTopic
<1>11. CASE NextTopic \/ StaleRemoved
  BY <1>1, <1>2, <1>11 DEF NextTopic, StaleRemoved
<1>12. ASSUME NEW p \in prunes, PruneDelete(p)
       PROVE  OutputsSound'
  <2>1. CASE RowsKept /\ UNCHANGED <<index, unheard, faults>>
    BY <1>1, <1>12, <2>1 DEF PruneDelete
  <2>2. CASE \E t \in Topics, o \in Outs : DropEffect(t, o)
    BY <2>2, DropSound
  <2> QED BY <1>12, <2>1, <2>2, Deletes
<1>13. ASSUME NEW p \in prunes, (\E o \in Outs : PruneRead(p, o)) \/ PruneWrite(p)
       PROVE  OutputsSound'
  <2>1. RowsKept
    BY <1>2, <1>13, WritesBack DEF PruneRead
  <2> QED BY <1>1, <1>13, <2>1 DEF PruneRead, PruneWrite
<1>14. ASSUME NEW e \in evictions, NEW t \in Topics, EvictApplied(e, t)
       PROVE  OutputsSound'
  <2>1. /\ applied' = [applied EXCEPT ![t] = @ \ {e.tx}] /\ rows' = rows
        /\ UNCHANGED <<index, job, torn, evicted, unheard, used, written, due>>
    BY <1>14 DEF EvictApplied
  <2>2. e.tx \in evicted
    BY DEF EvictionsTyped
  <2>3. \A u \in Topics : applied[u] \subseteq applied'[u] \cup evicted
    BY <2>1, <2>2 DEF TablesTyped
  <2> QED BY <1>2, <2>1, <2>3, UnapplySound DEF UnapplyEffect
<1>15. ASSUME NEW e \in evictions, NEW t \in Topics, NEW o \in Outs, EvictOutput(e, t, o)
       PROVE  OutputsSound'
  BY <1>15, Evicts, DropSound
<1>16. CASE StorageFails
  <2>1. /\ job # Idle /\ rows' = rows /\ TxOf[job.sub] \in torn' /\ torn \subseteq torn'
        /\ UNCHANGED <<index, evicted, unheard, used, written>>
    BY <1>16 DEF StorageFails, Throw, Mutating
  <2>2. CASE UNCHANGED <<applied, due>>
    BY <1>1, <1>2, <2>1, <2>2
  <2>3. CASE ~UNCHANGED <<applied, due>>
    <3>1. /\ job.step = "record"
          /\ applied' = [applied EXCEPT ![Head(job.topics)] = @ \cup {TxOf[job.sub]}]
          /\ due' = [due EXCEPT ![Head(job.topics)] =
                                 @ \cup job.verdict[Head(job.topics)].admit]
      BY <1>16, <2>3 DEF StorageFails
    <3> QED BY <1>2, <2>1, <3>1, RecordSound DEF RecordEffect
  <2> QED BY <2>2, <2>3
<1>17. CASE Crash
  <2>1. /\ rows' = rows /\ torn \subseteq torn'
        /\ UNCHANGED <<applied, index, evicted, unheard, used, written, due>>
        /\ Mutating => TxOf[job.sub] \in torn'
    BY <1>17 DEF Crash
  <2> QED BY <1>1, <1>2, <2>1 DEF Mutating
<1>18. ASSUME NEW p \in prunes, PruneFails(p)
       PROVE  OutputsSound'
  BY <1>1, <1>2, <1>18 DEF PruneFails
<1>19. ASSUME NEW tx \in Txs, NEW scope, Evict(tx, scope)
       PROVE  OutputsSound'
  BY <1>1, <1>2, <1>19 DEF Evict
<1> QED
  BY <1>3, <1>4, <1>5, <1>6, <1>7, <1>8, <1>9, <1>10, <1>11, <1>12, <1>13, <1>14, <1>15,
     <1>16, <1>17, <1>18, <1>19
     DEF Next, EngineStep, Prune

-----------------------------------------------------------------------------
(***************************************************************************)
(* The theorems.                                                           *)
(***************************************************************************)
LEMMA EngineInit ==
    ASSUME Init
    PROVE  EngineInv
<1>1. Shape
  BY EngineAssumption
     DEF Init, Shape, RowsTyped, TablesTyped, PrunesTyped, EvictionsTyped, Stored
<1>2. JobInv
  BY DEF Init, JobInv
<1>3. Turns
  <2>1. PICK calls \in Workloads :
          call = [s \in Subs |-> IF s \in calls THEN "new" ELSE "never"]
    BY DEF Init
  <2>2. line \in Seq(Subs) /\ Len(line) = 0 /\ job = Idle
    BY DEF Init
  <2> QED BY <2>1, <2>2 DEF Turns, Distinct
<1>4. OutputsSound
  BY DEF Init, OutputsSound, Sound, Stored, Unspent
<1> QED BY <1>1, <1>2, <1>3, <1>4 DEF EngineInv

LEMMA EngineStays ==
    ASSUME EngineInv, UNCHANGED vars
    PROVE  EngineInv'
<1> USE DEF vars, storage, history
<1>1. Shape'
  BY DEF EngineInv, Shape, RowsTyped, TablesTyped, PrunesTyped, EvictionsTyped, Stored
<1>2. JobInv'
  BY JobStays DEF EngineInv
<1>3. Turns'
  BY DEF EngineInv, Turns, Distinct
<1>4. OutputsSound'
  BY DEF EngineInv, OutputsSound, Sound, Stored, Unspent, Admitting
<1> QED BY <1>1, <1>2, <1>3, <1>4 DEF EngineInv

\* The engine's inductive invariant: the shape of everything, the turn, what
\* the submission that has it may assume, and what is known of every output
\* of every topic.
THEOREM EngineSound == Spec => []EngineInv
<1>1. Init => EngineInv
  BY EngineInit
<1>2. EngineInv /\ [Next]_vars => EngineInv'
  <2>1. ASSUME EngineInv, Next
        PROVE  EngineInv'
    <3>1. Shape /\ JobInv /\ Turns /\ OutputsSound /\ line \in Seq(Subs)
      BY <2>1 DEF EngineInv, Turns
    <3> QED BY <2>1, <3>1, RowsStep, TablesStep, PrunesStep, EvictionsStep, TurnsStep,
               JobStep, OutputsStep
            DEF EngineInv, Shape
  <2> QED BY <2>1, EngineStays
<1> QED BY <1>1, <1>2, PTL DEF Spec

\* The tables, the calls and the line keep their shape, an output has at most
\* one spender in a topic, and the calls that wait are those in the line.
THEOREM TypeCorrect == Spec => []TypeOK
<1>1. EngineInv => TypeOK
  <2> SUFFICES ASSUME EngineInv
               PROVE  TypeOK
    OBVIOUS
  <2>1. Shape /\ Turns /\ JobInv
    BY DEF EngineInv
  <2>2. ASSUME NEW t \in Topics, NEW o \in Outs, Stored(t, o)
        PROVE  rows[t][o] \in Rows /\ Cardinality(rows[t][o].spentBy) <= 1
    <3>1. rows[t][o] \in Rows
      BY <2>1, <2>2 DEF Shape, RowsTyped, Stored
    <3>2. rows[t][o].spentBy = {} \/ \E tx \in Txs : rows[t][o].spentBy = {tx}
      BY <2>1, <2>2 DEF Shape, RowsTyped
    <3>3. Cardinality({}) = 0 /\ \A tx \in Txs : Cardinality({tx}) = 1
      BY FS_EmptySet, FS_Singleton
    <3> QED BY <3>1, <3>2, <3>3
  <2>3. {s \in Subs : call[s] = "waiting"} = Range(line)
    BY <2>1 DEF Turns, Range
  <2> QED BY <2>1, <2>2, <2>3 DEF TypeOK, Shape, TablesTyped, Turns
<1> QED BY <1>1, EngineSound, PTL

\* The outputs a recorded submission was to admit have been stored, and after
\* any stop of the process, so that a retry that is taken for a dupe has
\* nothing to repair.
THEOREM RecordsComplete == Spec => []DupesComplete
<1>1. EngineInv => DupesComplete
  BY DEF EngineInv, Shape, TablesTyped, OutputsSound, Sound, DupesComplete
<1> QED BY <1>1, EngineSound, PTL

\* A coin once marked spent is not offered as unspent again unless the
\* transaction that made it was interrupted or evicted.
THEOREM SpentStaysSpent == Spec => []NoResurrection
<1>1. EngineInv => NoResurrection
  BY DEF EngineInv, Shape, TablesTyped, OutputsSound, Sound, NoResurrection, Unspent
<1> QED BY <1>1, EngineSound, PTL

\* The lookup services answer with the unspent outputs of the storage, as long
\* as they heard every notification.
THEOREM LookupsFollow == Spec => []LookupAgrees
<1>1. EngineInv => LookupAgrees
  BY DEF EngineInv, OutputsSound, Sound, LookupAgrees, Unspent
<1> QED BY <1>1, EngineSound, PTL
=============================================================================
