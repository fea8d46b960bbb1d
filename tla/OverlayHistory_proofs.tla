------------------------ MODULE OverlayHistory_proofs ------------------------
(***************************************************************************)
(* Proofs about the retained history of the overlay engine: what           *)
(* deleteUTXODeep may take, with any number of prunes at once, interrupted *)
(* submissions and retries, as long as nothing is evicted; and that the    *)
(* references it goes by are exact, as long as nothing is interrupted      *)
(* either and no two prunes hold the same ancestor.                        *)
(***************************************************************************)
EXTENDS OverlayEngine_proofs

\* Output x is stored and was built on c.
Uses(t, x, c) == Stored(t, x) /\ c \in rows[t][x].consumed

\* Prune p is still to look at c, has read c and is to write it back, and is
\* to delete c.
Seeks(p, t, c) == p.topic = t /\ c \in p.refs
Holds(p, t, c) == p.topic = t /\ \E h \in p.held : h.out = c
Queues(p, t, c) == p.topic = t /\ \E i \in 1..Len(p.queue) : p.queue[i].out = c
Works(p, t, c) == Seeks(p, t, c) \/ Holds(p, t, c)

\* No output refers to c and no prune is at work on it.
Quiet(t, c) ==
    /\ Stored(t, c) => rows[t][c].by = {}
    /\ \A p \in prunes : ~Holds(p, t, c) /\ ~Queues(p, t, c)

\* Besides, nobody was built on c and nobody is to look at it.
Free(t, c) ==
    /\ Quiet(t, c)
    /\ \A p \in prunes : ~Seeks(p, t, c)
    /\ \A x \in Outs : ~Uses(t, x, c)

(***************************************************************************)
(* What is known of an output c of topic t.                                *)
(***************************************************************************)
\* An output that is gone or a coin that is unspent is nobody's ancestor.
Fresh(t, c) == ~Stored(t, c) \/ Unspent(t, c) => Free(t, c)

\* An output built on c is in its references, unless they were never written,
\* and every prune that has read them will write it back.
Spares(p, t, x, c) ==
    /\ p.last = x => ~Works(p, t, c)
    /\ ~Queues(p, t, c)
    /\ \A h \in p.held : p.topic = t /\ h.out = c => x \in h.by

UserKept(t, c) ==
    \A x \in Outs : Uses(t, x, c) =>
      /\ x \in rows[t][c].by \/ Quiet(t, c)
      /\ \A p \in prunes : Spares(p, t, x, c)

\* A prune takes off c the reference of the output it deleted last, which
\* nobody else takes off.
Entitled(p, t, c) ==
    /\ Seeks(p, t, c) => p.last \in rows[t][c].by \/ Quiet(t, c)
    /\ \A h \in p.held : p.topic = t /\ h.out = c =>
         /\ p.last \in rows[t][c].by /\ c \notin p.refs
         /\ h.consumed = rows[t][c].consumed

Apart(p, q, t, c) ==
    Works(p, t, c) =>
      /\ Works(q, t, c) => p.last # q.last
      /\ \A h \in q.held : q.topic = t /\ h.out = c => p.last \in h.by

PruneKept(t, c) ==
    \A p \in prunes : Entitled(p, t, c) /\ \A q \in prunes : p # q => Apart(p, q, t, c)

\* What is to be deleted is stored as it was read, bare, and left to one prune.
QueueKept(t, c) ==
    \A p \in prunes : \A i \in 1..Len(p.queue) :
      p.topic = t /\ p.queue[i].out = c =>
        /\ Stored(t, c) /\ rows[t][c].by = {} /\ p.queue[i].by = {}
        /\ p.queue[i].consumed = rows[t][c].consumed
        /\ \A q \in prunes : ~Works(q, t, c)
        /\ \A q \in prunes : \A j \in 1..Len(q.queue) :
             q.topic = t /\ q.queue[j].out = c => q = p /\ j = i

OutputKept(t, c) == Fresh(t, c) /\ UserKept(t, c) /\ PruneKept(t, c) /\ QueueKept(t, c)

(***************************************************************************)
(* The coins of the submission that has the turn: those of a topic it has  *)
(* not come to are free, and those it retains of the present one are its   *)
(* own until it writes their references.                                   *)
(***************************************************************************)
Later(j) ==
    IF j.step = "validate" THEN Topics
    ELSE {j.topics[i] : i \in {k \in 1..Len(j.topics) : k > 1 \/ j.step = "mark"}}

Retained(j) ==
    IF j.step \in {"prune", "admit"} THEN j.verdict[Head(j.topics)].retain
    ELSE IF j.step = "record" THEN j.verdict[Head(j.topics)].retain \cap j.todo
    ELSE {}

Own(j, t, c) ==
    /\ Stored(t, c) /\ ~Unspent(t, c) /\ Quiet(t, c)
    /\ \A p \in prunes : ~Seeks(p, t, c)
    /\ \A x \in Outs : Uses(t, x, c) => x \in j.verdict[t].admit /\ Unspent(t, x)

RetainsCoins(j) ==
    /\ \A t \in Topics : j.verdict[t].retain \subseteq j.verdict[t].coins
    /\ j.step = "record" => j.todo \cap Outs \subseteq j.verdict[Head(j.topics)].retain

LaterFree(j) ==
    \A t \in Later(j) : \A c \in j.verdict[t].coins : Stored(t, c) /\ Free(t, c)

LaterSpent(j) ==
    j.step # "validate" =>
      \A t \in Later(j) : \A c \in j.verdict[t].coins :
        t \notin j.dupes \cup j.failed =>
          (j.step = "mark" /\ <<t, c>> \in j.todo) \/ ~Unspent(t, c)

Owned(j) == \A c \in Retained(j) : Own(j, Head(j.topics), c)

CoinsKept(j) == RetainsCoins(j) /\ LaterFree(j) /\ LaterSpent(j) /\ Owned(j)

AllKept == \A t \in Topics, c \in Outs : OutputKept(t, c)

HistoryInv == AllKept /\ (job # Idle => CoinsKept(job))

-----------------------------------------------------------------------------
(***************************************************************************)
(* Steps that only spend coins or give prunes up.                          *)
(***************************************************************************)
\* Row o of topic t keeps its references in both directions.
Same(t, o) ==
    /\ Stored(t, o)' <=> Stored(t, o)
    /\ Unspent(t, o)' => Unspent(t, o)
    /\ rows'[t][o].by = rows[t][o].by
    /\ rows'[t][o].consumed = rows[t][o].consumed

\* And is as spent as it was.
Alike(t, o) == Same(t, o) /\ (Unspent(t, o) => Unspent(t, o)')

LEMMA SameUses ==
    ASSUME NEW t \in Topics, NEW x \in Outs, NEW c, Same(t, x)
    PROVE  Uses(t, x, c)' <=> Uses(t, x, c)
BY DEF Same, Uses

\* The parts of the invariant, in the next state.
LEMMA FreeNext ==
    ASSUME NEW t, NEW c, Quiet(t, c)', \A p \in prunes' : ~Seeks(p, t, c),
           \A x \in Outs : ~Uses(t, x, c)'
    PROVE  Free(t, c)'
BY DEF Free, Seeks

LEMMA QuietNext ==
    ASSUME NEW t, NEW c, Stored(t, c)' => rows'[t][c].by = {},
           \A p \in prunes' : ~Holds(p, t, c) /\ ~Queues(p, t, c)
    PROVE  Quiet(t, c)'
BY DEF Quiet, Holds, Queues

LEMMA UserNext ==
    ASSUME NEW t, NEW c,
           \A x \in Outs : Uses(t, x, c)' =>
             /\ x \in rows'[t][c].by \/ Quiet(t, c)'
             /\ \A p \in prunes' : Spares(p, t, x, c)
    PROVE  UserKept(t, c)'
BY DEF UserKept, Spares, Works, Seeks, Holds, Queues

LEMMA PruneNext ==
    ASSUME NEW t, NEW c,
           \A p \in prunes' : Entitled(p, t, c)' /\ \A q \in prunes' : p # q => Apart(p, q, t, c)
    PROVE  PruneKept(t, c)'
BY DEF PruneKept, Apart, Works, Seeks, Holds, Entitled

LEMMA QueueNext ==
    ASSUME NEW t, NEW c,
           \A p \in prunes' : \A i \in 1..Len(p.queue) :
             p.topic = t /\ p.queue[i].out = c =>
               /\ Stored(t, c)' /\ rows'[t][c].by = {} /\ p.queue[i].by = {}
               /\ p.queue[i].consumed = rows'[t][c].consumed
               /\ \A q \in prunes' : ~Works(q, t, c)
               /\ \A q \in prunes' : \A j \in 1..Len(q.queue) :
                    q.topic = t /\ q.queue[j].out = c => q = p /\ j = i
    PROVE  QueueKept(t, c)'
BY DEF QueueKept, Works, Seeks, Holds

LEMMA EntitledNext ==
    ASSUME NEW t, NEW c, NEW p, Entitled(p, t, c),
           rows'[t][c].by = rows[t][c].by, rows'[t][c].consumed = rows[t][c].consumed,
           Quiet(t, c) => Quiet(t, c)'
    PROVE  Entitled(p, t, c)'
BY DEF Entitled, Seeks

\* A prune that has nothing to do with c.
Untouched(r, t, c) == ~Works(r, t, c) /\ ~Queues(r, t, c)
Fewer(t, c) == \A r \in prunes' : r \in prunes \/ Untouched(r, t, c)

LEMMA LessQuiet ==
    ASSUME NEW t, NEW c, Same(t, c), Fewer(t, c)
    PROVE  Quiet(t, c) => Quiet(t, c)'
BY QuietNext DEF Same, Quiet, Fewer, Untouched, Works

LEMMA LessFree ==
    ASSUME NEW t, NEW c, Same(t, c), Fewer(t, c),
           \A x \in Outs : Uses(t, x, c)' => Uses(t, x, c)
    PROVE  Free(t, c) => Free(t, c)'
<1>1. Quiet(t, c) => Quiet(t, c)'
  BY LessQuiet
<1> QED BY <1>1, FreeNext DEF Free, Fewer, Untouched, Works

LEMMA LessKept ==
    ASSUME NEW t, NEW c, OutputKept(t, c), Same(t, c), Fewer(t, c),
           \A x \in Outs : Uses(t, x, c)' => Uses(t, x, c)
    PROVE  OutputKept(t, c)'
<1>1. Quiet(t, c) => Quiet(t, c)'
  BY LessQuiet
<1>2. \A r : Untouched(r, t, c) =>
        /\ Entitled(r, t, c)' /\ \A x : Spares(r, t, x, c)
        /\ \A q : Apart(r, q, t, c) /\ Apart(q, r, t, c)
  BY DEF Untouched, Entitled, Spares, Apart, Works, Seeks, Holds, Queues
<1>3. Free(t, c) => Free(t, c)'
  BY LessFree
<1>4. Fresh(t, c)'
  BY <1>3 DEF OutputKept, Fresh, Same
<1>5. rows'[t][c].by = rows[t][c].by /\ rows'[t][c].consumed = rows[t][c].consumed
  BY DEF Same
<1>6. UserKept(t, c)'
  <2>1. ASSUME NEW x \in Outs, Uses(t, x, c)'
        PROVE  /\ x \in rows'[t][c].by \/ Quiet(t, c)'
               /\ \A p \in prunes' : Spares(p, t, x, c)
    <3>1. Uses(t, x, c)
      BY <2>1
    <3>2. (x \in rows[t][c].by \/ Quiet(t, c)) /\ \A p \in prunes : Spares(p, t, x, c)
      BY <3>1 DEF OutputKept, UserKept
    <3> QED BY <1>1, <1>2, <1>5, <3>2 DEF Fewer
  <2> QED BY <2>1, UserNext
<1>7. PruneKept(t, c)'
  <2>1. \A p \in prunes : Entitled(p, t, c)'
    BY <1>1, <1>5, EntitledNext DEF OutputKept, PruneKept
  <2>2. \A p \in prunes' : Entitled(p, t, c)'
    BY <1>2, <2>1 DEF Fewer
  <2>3. \A p, q \in prunes' : p # q => Apart(p, q, t, c)
    BY <1>2 DEF Fewer, OutputKept, PruneKept
  <2> QED BY <2>2, <2>3, PruneNext
<1>8. QueueKept(t, c)'
  BY <1>5, QueueNext DEF OutputKept, QueueKept, Same, Fewer, Untouched, Queues
<1> QED BY <1>4, <1>6, <1>7, <1>8 DEF OutputKept

\* A coin of the submission that has the turn stays its own.
LEMMA OwnNext ==
    ASSUME NEW j, NEW t, NEW c, Stored(t, c)', ~Unspent(t, c)', Quiet(t, c)',
           \A p \in prunes' : ~Seeks(p, t, c),
           \A x \in Outs : Uses(t, x, c)' => x \in j.verdict[t].admit /\ Unspent(t, x)'
    PROVE  Own(j, t, c)'
BY DEF Own, Seeks

LEMMA LessOwn ==
    ASSUME NEW j, NEW t, NEW c, Own(j, t, c), Same(t, c), Fewer(t, c),
           \A x \in Outs : Uses(t, x, c)' => Uses(t, x, c) /\ (Unspent(t, x) => Unspent(t, x)')
    PROVE  Own(j, t, c)'
<1>1. Quiet(t, c)'
  BY LessQuiet DEF Own
<1>2. Stored(t, c)' /\ ~Unspent(t, c)'
  BY DEF Own, Same
<1>3. \A p \in prunes' : ~Seeks(p, t, c)
  BY DEF Own, Fewer, Untouched, Works
<1>4. \A x \in Outs : Uses(t, x, c)' => x \in j.verdict[t].admit /\ Unspent(t, x)'
  BY DEF Own
<1> QED BY <1>1, <1>2, <1>3, <1>4, OwnNext

(***************************************************************************)
(* A prune moves on: q takes the place of p.                               *)
(***************************************************************************)
Takes(p, q) == prunes' \subseteq (prunes \ {p}) \cup {q}

\* The others stay, and q while it has rows to look at or to write.
Leaves(p, q) ==
    prunes \ {p} \subseteq prunes' /\ (q.refs # {} \/ q.held # {} => q \in prunes')

LEMMA BecomesTakes ==
    ASSUME NEW p, NEW q, Becomes(p, q)
    PROVE  Takes(p, q) /\ Leaves(p, q)
BY DEF Becomes, Takes, Leaves, Over

\* It is enough to compare q with the others.
LEMMA TakesQuiet ==
    ASSUME NEW t, NEW c, NEW p, NEW q, Takes(p, q), Quiet(t, c),
           Stored(t, c)' => rows'[t][c].by = {}, ~Holds(q, t, c), ~Queues(q, t, c)
    PROVE  Quiet(t, c)'
BY QuietNext DEF Quiet, Takes

LEMMA TakesFree ==
    ASSUME NEW t, NEW c, NEW p, NEW q, Takes(p, q), Free(t, c), Quiet(t, c)', ~Seeks(q, t, c),
           \A x \in Outs : ~Uses(t, x, c)'
    PROVE  Free(t, c)'
BY FreeNext DEF Free, Takes

LEMMA TakesUser ==
    ASSUME NEW t, NEW c, NEW p, NEW q, Takes(p, q), UserKept(t, c),
           \A x \in Outs : Uses(t, x, c)' =>
             /\ Uses(t, x, c)
             /\ x \in rows'[t][c].by \/ Quiet(t, c)'
             /\ Spares(q, t, x, c)
    PROVE  UserKept(t, c)'
BY UserNext DEF UserKept, Takes

LEMMA TakesPrune ==
    ASSUME NEW t, NEW c, NEW p \in prunes, NEW q, Takes(p, q), PruneKept(t, c),
           \A r \in prunes \ {p} : Entitled(r, t, c)', Entitled(q, t, c)',
           \A r \in prunes \ {p} : Apart(r, q, t, c) /\ Apart(q, r, t, c)
    PROVE  PruneKept(t, c)'
BY PruneNext DEF PruneKept, Takes

\* Where q is to delete c, p was, d places further on.
Shifted(p, q, c) ==
    \E d \in Nat : \A i \in 1..Len(q.queue) : q.queue[i].out = c =>
      i + d \in 1..Len(p.queue) /\ p.queue[i + d] = q.queue[i]

LEMMA TakesQueue ==
    ASSUME NEW t, NEW c, NEW p \in prunes, NEW q, Takes(p, q), QueueKept(t, c),
           Stored(t, c)' <=> Stored(t, c), rows'[t][c].consumed = rows[t][c].consumed,
           rows'[t][c].by = rows[t][c].by, q.topic = p.topic, Shifted(p, q, c),
           (\E r \in prunes : Queues(r, t, c)) => ~Works(q, t, c)
    PROVE  QueueKept(t, c)'
<1> PICK d \in Nat : \A i \in 1..Len(q.queue) : q.queue[i].out = c =>
                       i + d \in 1..Len(p.queue) /\ p.queue[i + d] = q.queue[i]
  BY DEF Shifted
<1> DEFINE At(v, j) == IF v = q THEN j + d ELSE j
           Old(v) == IF v = q THEN p ELSE v
<1>1. ASSUME NEW v \in prunes', NEW j \in 1..Len(v.queue), v.topic = t, v.queue[j].out = c
      PROVE  /\ Old(v) \in prunes /\ Old(v).topic = t
             /\ At(v, j) \in 1..Len(Old(v).queue)
             /\ Old(v).queue[At(v, j)] = v.queue[j]
             /\ v # q => v # p
  BY <1>1 DEF Takes
<1> SUFFICES ASSUME NEW r \in prunes', NEW i \in 1..Len(r.queue), r.topic = t, r.queue[i].out = c
             PROVE  /\ Stored(t, c)' /\ rows'[t][c].by = {} /\ r.queue[i].by = {}
                    /\ r.queue[i].consumed = rows'[t][c].consumed
                    /\ \A v \in prunes' : ~Works(v, t, c)
                    /\ \A v \in prunes' : \A j \in 1..Len(v.queue) :
                         v.topic = t /\ v.queue[j].out = c => v = r /\ j = i
  BY QueueNext
<1>2. PICK o, k :
        /\ o = Old(r) /\ k = At(r, i) /\ o \in prunes /\ k \in 1..Len(o.queue)
        /\ o.topic = t /\ o.queue[k] = r.queue[i]
  BY <1>1
<1>3. /\ Stored(t, c) /\ rows[t][c].by = {} /\ o.queue[k].by = {}
      /\ o.queue[k].consumed = rows[t][c].consumed
      /\ \A v \in prunes : ~Works(v, t, c)
      /\ \A v \in prunes : \A j \in 1..Len(v.queue) :
           v.topic = t /\ v.queue[j].out = c => v = o /\ j = k
  BY <1>2 DEF QueueKept
<1>4. \A v \in prunes' : ~Works(v, t, c)
  <2>1. Queues(o, t, c)
    BY <1>2 DEF Queues
  <2> QED BY <1>2, <1>3, <2>1 DEF Takes
<1>5. ASSUME NEW v \in prunes', NEW j \in 1..Len(v.queue), v.topic = t, v.queue[j].out = c
      PROVE  v = r /\ j = i
  <2>1. PICK w, m :
          /\ w = Old(v) /\ m = At(v, j) /\ w \in prunes /\ m \in 1..Len(w.queue)
          /\ w.topic = t /\ w.queue[m] = v.queue[j]
    BY <1>1, <1>5
  <2>2. w = o /\ m = k
    BY <1>3, <1>5, <2>1
  <2>3. (v # q => v # p) /\ (r # q => r # p)
    BY <1>1, <1>5
  <2> QED BY <1>2, <2>1, <2>2, <2>3
<1> QED BY <1>2, <1>3, <1>4, <1>5

(***************************************************************************)
(* deleteUTXODeep deletes an output.                                       *)
(***************************************************************************)
\* The first of the queue is as it was read, bare and nobody's ancestor.
LEMMA QueueHead ==
    ASSUME Shape, AllKept, NEW p \in prunes, p.queue # <<>>
    PROVE  LET t == p.topic r == Head(p.queue) x == r.out IN
           /\ t \in Topics /\ x \in Outs /\ r.by = {} /\ r.consumed = rows[t][x].consumed
           /\ Stored(t, x) /\ ~Unspent(t, x) /\ Queues(p, t, x)
           /\ \A y \in Outs : ~Uses(t, y, x)
           /\ \A q \in prunes : ~Works(q, t, x)
           /\ \A q \in prunes : Queues(q, t, x) => q = p
           /\ \A i \in 2..Len(p.queue) : p.queue[i].out # x
<1> DEFINE t == p.topic
           r == Head(p.queue)
           x == r.out
<1>1. p \in Prunes /\ t \in Topics /\ p.queue \in Seq(Reads)
  BY DEF Shape, PrunesTyped, Prunes
<1> HIDE DEF t
<1>2. r \in Reads /\ 1 \in 1..Len(p.queue) /\ r = p.queue[1]
  BY <1>1
<1>3. x \in Outs
  BY <1>2 DEF Reads
<1>4. OutputKept(t, x) /\ p.topic = t /\ x = p.queue[1].out
  BY <1>1, <1>2, <1>3 DEF AllKept, t
<1> HIDE DEF r, x
<1>5. /\ Stored(t, x) /\ r.by = {} /\ r.consumed = rows[t][x].consumed
      /\ \A q \in prunes : ~Works(q, t, x)
      /\ \A q \in prunes : \A j \in 1..Len(q.queue) :
           q.topic = t /\ q.queue[j].out = x => q = p /\ j = 1
  BY <1>2, <1>4 DEF OutputKept, QueueKept
<1>6. Queues(p, t, x)
  BY <1>2, <1>4 DEF Queues
<1>7. \A y \in Outs : ~Uses(t, y, x)
  BY <1>4, <1>6 DEF OutputKept, UserKept, Spares
<1>8. ~Unspent(t, x)
  BY <1>4, <1>6 DEF OutputKept, Fresh, Free, Quiet
<1>9. \A q \in prunes : Queues(q, t, x) => q = p
  BY <1>5 DEF Queues
<1> USE DEF t, r, x
<1>10. \A i \in 2..Len(p.queue) : p.queue[i].out # x
  BY <1>1, <1>5
<1> QED BY <1>1, <1>3, <1>5, <1>6, <1>7, <1>8, <1>9, <1>10

\* What a deletion comes to.
Deletion(p, q, t, x) ==
    /\ t \in Topics /\ x \in Outs /\ p.topic = t
    /\ Stored(t, x) /\ ~Unspent(t, x) /\ ~Stored(t, x)' /\ Queues(p, t, x)
    /\ \A u \in Topics, o \in Outs : <<u, o>> # <<t, x>> => Alike(u, o)
    /\ \A y \in Outs : ~Uses(t, y, x)
    /\ \A r \in prunes : ~Works(r, t, x)
    /\ \A r \in prunes : Queues(r, t, x) => r = p
    /\ ~Queues(q, t, x)
    /\ Takes(p, q) /\ Leaves(p, q) /\ p.refs = {} /\ p.held = {}
    /\ q.sub = p.sub /\ q.topic = t
    /\ q.last = x /\ q.refs = rows[t][x].consumed /\ q.held = {}
    /\ \A i \in 1..Len(q.queue) : i + 1 \in 1..Len(p.queue) /\ p.queue[i + 1] = q.queue[i]

LEMMA Deleting ==
    ASSUME Shape, AllKept, NEW p \in prunes, PruneDelete(p)
    PROVE  \E q, t, x : Deletion(p, q, t, x)
<1>1. PICK t : t = p.topic
  OBVIOUS
<1>2. PICK r : r = Head(p.queue)
  OBVIOUS
<1>3. PICK x : x = r.out
  OBVIOUS
<1>4. p.queue # <<>> /\ p.refs = {} /\ p.held = {} /\ p \in Prunes /\ p.queue \in Seq(Reads)
  BY DEF PruneDelete, Shape, PrunesTyped, Prunes
<1>5. /\ t \in Topics /\ x \in Outs /\ r.by = {} /\ r.consumed = rows[t][x].consumed
      /\ Stored(t, x) /\ ~Unspent(t, x) /\ Queues(p, t, x)
      /\ \A y \in Outs : ~Uses(t, y, x)
      /\ \A q \in prunes : ~Works(q, t, x)
      /\ \A q \in prunes : Queues(q, t, x) => q = p
      /\ \A i \in 2..Len(p.queue) : p.queue[i].out # x
  BY <1>1, <1>2, <1>3, <1>4, QueueHead
<1>6. Bare(r)
  BY <1>5 DEF Bare
<1>7. PICK q : q = [[p EXCEPT !.queue = Tail(@)] EXCEPT !.last = r.out, !.refs = r.consumed]
  OBVIOUS
<1>8. rows' = [rows EXCEPT ![t][x] = NoRow] /\ Becomes(p, q)
  BY <1>1, <1>2, <1>3, <1>6, <1>7 DEF PruneDelete
<1>9. /\ q.sub = p.sub /\ q.topic = t /\ q.last = x /\ q.refs = r.consumed /\ q.held = {}
      /\ q.queue = Tail(p.queue)
  BY <1>1, <1>3, <1>4, <1>7 DEF Prunes
<1>10. /\ rows'[t][x] = NoRow
       /\ \A u \in Topics, o \in Outs : <<u, o>> # <<t, x>> => rows'[u][o] = rows[u][o]
  BY <1>5, <1>8 DEF Shape, RowsTyped
<1>11. \A u \in Topics, o \in Outs : <<u, o>> # <<t, x>> => Alike(u, o)
  BY <1>10 DEF Alike, Same, Stored, Unspent
<1>12. Takes(p, q) /\ Leaves(p, q)
  BY <1>8, BecomesTakes
<1>13. \A i \in 1..Len(q.queue) :
         i + 1 \in 2..Len(p.queue) /\ i + 1 \in 1..Len(p.queue) /\ p.queue[i + 1] = q.queue[i]
  BY <1>4, <1>9
<1>14. ~Queues(q, t, x)
  BY <1>5, <1>13 DEF Queues
<1>15. ~Stored(t, x)'
  BY <1>10 DEF Stored
<1>16. Deletion(p, q, t, x)
  BY <1>1, <1>4, <1>5, <1>9, <1>11, <1>12, <1>13, <1>14, <1>15 DEF Deletion
<1> QED BY <1>16

LEMMA DeletedUses ==
    ASSUME NEW p, NEW q, NEW t, NEW x, Deletion(p, q, t, x), NEW y \in Outs, NEW c, Uses(t, y, c)'
    PROVE  y # x /\ Uses(t, y, c) /\ Alike(t, y)
<1>1. y # x
  BY DEF Deletion, Uses
<1>2. t \in Topics /\ Alike(t, y) /\ Same(t, y)
  BY <1>1 DEF Deletion, Alike
<1> QED BY <1>1, <1>2, SameUses

LEMMA DeletedGone ==
    ASSUME NEW p, NEW q, NEW t, NEW x, Deletion(p, q, t, x)
    PROVE  OutputKept(t, x)'
<1>1. ~Seeks(q, t, x) /\ ~Holds(q, t, x)
  BY DEF Deletion, Seeks, Holds, Uses
<1>2. \A r \in prunes' : ~Seeks(r, t, x) /\ ~Holds(r, t, x) /\ ~Queues(r, t, x)
  BY <1>1 DEF Deletion, Takes, Works
<1>3. \A y \in Outs : ~Uses(t, y, x)'
  BY DeletedUses DEF Deletion
<1>4. ~Stored(t, x)'
  BY DEF Deletion
<1>5. Quiet(t, x)'
  BY <1>2, <1>4, QuietNext
<1>6. Free(t, x)'
  BY <1>2, <1>3, <1>5, FreeNext
<1>7. Fresh(t, x)' /\ UserKept(t, x)'
  BY <1>3, <1>6 DEF Fresh, UserKept
<1>8. PruneKept(t, x)'
  BY <1>2, PruneNext DEF Apart, Entitled, Works, Holds, Seeks
<1>9. QueueKept(t, x)'
  BY <1>2, QueueNext DEF Queues
<1> QED BY <1>7, <1>8, <1>9 DEF OutputKept

\* The prune now seeks what the deleted output was built on, which nobody
\* else takes its reference off.
LEMMA DeletedOthers ==
    ASSUME NEW p \in prunes, NEW q, NEW t, NEW x, Deletion(p, q, t, x),
           NEW c \in Outs, c # x, OutputKept(t, c)
    PROVE  /\ OutputKept(t, c)'
           /\ Free(t, c) => Free(t, c)'
           /\ \A j : Own(j, t, c) => Own(j, t, c)'
<1>1. /\ t \in Topics /\ x \in Outs /\ Stored(t, x) /\ Takes(p, q)
      /\ q.topic = t /\ p.topic = t /\ q.last = x /\ Same(t, c)
  BY DEF Deletion, Alike
<1>2. /\ rows'[t][c].by = rows[t][c].by /\ rows'[t][c].consumed = rows[t][c].consumed
      /\ Stored(t, c)' <=> Stored(t, c)
      /\ Unspent(t, c)' => Unspent(t, c)
  BY <1>1 DEF Same
<1>3. /\ Seeks(q, t, c) <=> Uses(t, x, c)
      /\ ~Holds(q, t, c) /\ ~Holds(p, t, c) /\ ~Seeks(p, t, c)
  BY DEF Deletion, Seeks, Holds, Uses
<1>4. Queues(q, t, c) => Queues(p, t, c)
  BY DEF Queues, Deletion
<1>5. Quiet(t, c) => Quiet(t, c)'
  BY <1>1, <1>2, <1>3, <1>4, TakesQuiet DEF Quiet
<1>6. Free(t, c) => Free(t, c)'
  <2> SUFFICES ASSUME Free(t, c) PROVE Free(t, c)'
    OBVIOUS
  <2>1. Quiet(t, c)' /\ ~Seeks(q, t, c)
    BY <1>1, <1>3, <1>5 DEF Free
  <2>2. \A y \in Outs : ~Uses(t, y, c)'
    BY DeletedUses DEF Free
  <2> QED BY <1>1, <2>1, <2>2, TakesFree
<1>7. Fresh(t, c)'
  BY <1>2, <1>6 DEF OutputKept, Fresh
<1>8. ASSUME Uses(t, x, c)
      PROVE  /\ x \in rows[t][c].by \/ Quiet(t, c)
             /\ \A r \in prunes : Spares(r, t, x, c)
  BY <1>1, <1>8 DEF OutputKept, UserKept
<1>9. UserKept(t, c)'
  <2>1. ASSUME NEW y \in Outs, Uses(t, y, c)'
        PROVE  /\ Uses(t, y, c)
               /\ y \in rows'[t][c].by \/ Quiet(t, c)'
               /\ Spares(q, t, y, c)
    <3>1. Uses(t, y, c) /\ y # x
      BY <2>1, DeletedUses
    <3>2. (y \in rows[t][c].by \/ Quiet(t, c)) /\ Spares(p, t, y, c)
      BY <3>1 DEF OutputKept, UserKept
    <3>3. Spares(q, t, y, c)
      BY <1>1, <1>4, <3>1, <3>2 DEF Spares, Deletion
    <3> QED BY <1>2, <1>5, <3>1, <3>2, <3>3
  <2> QED BY <1>1, <2>1, TakesUser DEF OutputKept
<1>10. PruneKept(t, c)'
  <2>1. \A r \in prunes : Entitled(r, t, c)'
    BY <1>2, <1>5, EntitledNext DEF OutputKept, PruneKept
  <2>2. Entitled(q, t, c)
    BY <1>1, <1>3, <1>8 DEF Entitled, Deletion
  <2>3. Entitled(q, t, c)'
    BY <1>2, <1>5, <2>2, EntitledNext
  <2>4. \A r \in prunes \ {p} : Apart(r, q, t, c) /\ Apart(q, r, t, c)
    BY <1>1, <1>3, <1>8 DEF Apart, Spares, Works, Deletion
  <2> QED BY <1>1, <2>1, <2>3, <2>4, TakesPrune DEF OutputKept
<1>11. QueueKept(t, c)'
  <2>1. (\E r \in prunes : Queues(r, t, c)) => ~Works(q, t, c)
    BY <1>3, <1>8 DEF Works, Spares
  <2>2. Shifted(p, q, c)
    <3>1. \A i \in 1..Len(q.queue) : i + 1 \in 1..Len(p.queue) /\ p.queue[i + 1] = q.queue[i]
      BY DEF Deletion
    <3> QED BY <3>1, 1 \in Nat DEF Shifted
  <2>3. QueueKept(t, c) /\ q.topic = p.topic
    BY <1>1 DEF OutputKept
  <2> QED BY <1>1, <1>2, <2>1, <2>2, <2>3, TakesQueue
<1>12. ASSUME NEW j, Own(j, t, c)
       PROVE  Own(j, t, c)'
  <2>1. ~Seeks(q, t, c)
    BY <1>1, <1>3, <1>12 DEF Own, Deletion
  <2>2. \A r \in prunes' : ~Seeks(r, t, c)
    BY <1>1, <1>12, <2>1 DEF Own, Takes
  <2>3. Stored(t, c)' /\ ~Unspent(t, c)' /\ Quiet(t, c)'
    BY <1>2, <1>5, <1>12 DEF Own
  <2>4. \A y \in Outs : Uses(t, y, c)' => y \in j.verdict[t].admit /\ Unspent(t, y)'
    BY <1>12, DeletedUses DEF Own, Alike
  <2> QED BY <2>2, <2>3, <2>4, OwnNext
<1> QED BY <1>6, <1>7, <1>9, <1>10, <1>11, <1>12 DEF OutputKept

\* What a prune does leaves the coins of the submission alone.
Gentle ==
    \A t \in Topics, c \in Outs :
      /\ Stored(t, c) /\ Free(t, c) => Stored(t, c)' /\ Free(t, c)'
      /\ Stored(t, c) /\ Unspent(t, c)' => Unspent(t, c)
      /\ \A j : Own(j, t, c) => Own(j, t, c)'

\* The other topics are left alone.
LEMMA Elsewhere ==
    ASSUME NEW p, NEW q, NEW u \in Topics, NEW c \in Outs, Takes(p, q), q.topic # u,
           \A o \in Outs : Alike(u, o), OutputKept(u, c)
    PROVE  /\ OutputKept(u, c)'
           /\ Free(u, c) => Free(u, c)'
           /\ Stored(u, c)' <=> Stored(u, c)
           /\ Unspent(u, c)' => Unspent(u, c)
           /\ \A j : Own(j, u, c) => Own(j, u, c)'
<1>1. Fewer(u, c) /\ Same(u, c)
  BY DEF Takes, Fewer, Untouched, Works, Seeks, Holds, Queues, Alike
<1>2. \A x \in Outs : Uses(u, x, c)' => Uses(u, x, c) /\ (Unspent(u, x) => Unspent(u, x)')
  BY SameUses DEF Alike
<1>3. OutputKept(u, c)'
  BY <1>1, <1>2, LessKept
<1>4. Free(u, c) => Free(u, c)'
  BY <1>1, <1>2, LessFree
<1>5. ASSUME NEW j, Own(j, u, c)
      PROVE  Own(j, u, c)'
  BY <1>1, <1>2, <1>5, LessOwn
<1> QED BY <1>1, <1>3, <1>4, <1>5 DEF Same

LEMMA DeleteKeeps ==
    ASSUME Shape, AllKept, NEW p \in prunes, PruneDelete(p)
    PROVE  AllKept' /\ Gentle
<1>1. PICK q, t, x : Deletion(p, q, t, x)
  BY Deleting
<1>2. ASSUME NEW u \in Topics, NEW c \in Outs
      PROVE  /\ OutputKept(u, c)'
             /\ Stored(u, c) /\ Free(u, c) => Stored(u, c)' /\ Free(u, c)'
             /\ Stored(u, c) /\ Unspent(u, c)' => Unspent(u, c)
             /\ \A j : Own(j, u, c) => Own(j, u, c)'
  <2>0. OutputKept(u, c)
    BY DEF AllKept
  <2>1. CASE u # t
    <3>1. Takes(p, q) /\ q.topic # u /\ \A o \in Outs : Alike(u, o)
      BY <1>1, <2>1 DEF Deletion
    <3> QED BY <2>0, <3>1, Elsewhere
  <2>2. CASE u = t /\ c # x
    <3>1. Same(u, c)
      BY <1>1, <2>2 DEF Deletion, Alike
    <3>2. OutputKept(t, c)
      BY <2>0, <2>2
    <3> QED BY <1>1, <2>2, <3>1, <3>2, DeletedOthers DEF Same
  <2>3. CASE u = t /\ c = x
    <3>1. OutputKept(t, x)'
      BY <1>1, DeletedGone
    <3>2. Queues(p, t, x) /\ ~Unspent(t, x)'
      BY <1>1 DEF Deletion, Unspent
    <3>3. ~Free(t, x) /\ \A j : ~Own(j, t, x)
      BY <3>2 DEF Free, Own, Quiet
    <3> QED BY <2>3, <3>1, <3>2, <3>3
  <2> QED BY <2>1, <2>2, <2>3
<1>3. AllKept'
  BY <1>2 DEF AllKept
<1> QED BY <1>2, <1>3 DEF Gentle

(***************************************************************************)
(* deleteUTXODeep reads a consumed output.                                 *)
(***************************************************************************)
Reading(p, q, t, o) ==
    /\ t \in Topics /\ o \in Outs /\ p.topic = t /\ Seeks(p, t, o) /\ p.held = {}
    /\ \A u \in Topics, x \in Outs : Alike(u, x)
    /\ Takes(p, q) /\ Leaves(p, q)
    /\ q.sub = p.sub /\ q.topic = t /\ q.last = p.last /\ q.queue = p.queue
    /\ q.refs = p.refs \ {o}
    /\ \/ q.held = {} /\ ~(Stored(t, o) /\ p.last \in rows[t][o].by)
       \/ /\ Stored(t, o) /\ p.last \in rows[t][o].by
          /\ \E h : /\ q.held = {h} /\ h.out = o
                    /\ h.by = rows[t][o].by \ {p.last}
                    /\ h.consumed = rows[t][o].consumed

LEMMA ReadsRow ==
    ASSUME Shape, NEW p \in prunes, NEW o \in Outs, PruneRead(p, o)
    PROVE  \E q, t : Reading(p, q, t, o)
<1>1. PICK t : t = p.topic
  OBVIOUS
<1>2. p \in Prunes /\ t \in Topics /\ o \in p.refs /\ p.held = {}
  BY <1>1 DEF PruneRead, Shape, PrunesTyped, Prunes
<1>3. PICK r : r = [p EXCEPT !.refs = @ \ {o}]
  OBVIOUS
<1>4. PICK h : h = [out |-> o, by |-> rows[t][o].by \ {p.last}, consumed |-> rows[t][o].consumed]
  OBVIOUS
<1>5. PICK s : s = [r EXCEPT !.held = {h}]
  OBVIOUS
<1>6. Becomes(p, IF Stored(t, o) /\ p.last \in rows[t][o].by THEN s ELSE r)
  BY <1>1, <1>3, <1>4, <1>5 DEF PruneRead
<1>7. /\ r.sub = p.sub /\ r.topic = t /\ r.last = p.last /\ r.queue = p.queue
      /\ r.refs = p.refs \ {o} /\ r.held = {}
  BY <1>1, <1>2, <1>3 DEF Prunes
<1>8. /\ s.sub = p.sub /\ s.topic = t /\ s.last = p.last /\ s.queue = p.queue
      /\ s.refs = p.refs \ {o} /\ s.held = {h}
  BY <1>1, <1>2, <1>3, <1>5 DEF Prunes
<1>9. /\ h.out = o /\ h.by = rows[t][o].by \ {p.last}
      /\ h.consumed = rows[t][o].consumed
  BY <1>4
<1>10. \A u \in Topics, x \in Outs : Alike(u, x)
  <2>1. rows' = rows
    BY DEF PruneRead, storage
  <2> QED BY <2>1 DEF Alike, Same, Stored, Unspent
<1>11. Seeks(p, t, o)
  BY <1>1, <1>2 DEF Seeks
<1>12. CASE Stored(t, o) /\ p.last \in rows[t][o].by
  <2>1. Takes(p, s) /\ Leaves(p, s)
    BY <1>6, <1>12, BecomesTakes
  <2>2. Reading(p, s, t, o)
    BY <1>1, <1>2, <1>8, <1>9, <1>10, <1>11, <1>12, <2>1 DEF Reading
  <2> QED BY <2>2
<1>13. CASE ~(Stored(t, o) /\ p.last \in rows[t][o].by)
  <2>1. Takes(p, r) /\ Leaves(p, r)
    BY <1>6, <1>13, BecomesTakes
  <2>2. Reading(p, r, t, o)
    BY <1>1, <1>2, <1>7, <1>10, <1>11, <1>13, <2>1 DEF Reading
  <2> QED BY <2>2
<1> QED BY <1>12, <1>13

\* A prune that has less to do with c than it had.
Milder(p, q, t, c) ==
    /\ q.last = p.last /\ q.topic = p.topic
    /\ Seeks(q, t, c) => Seeks(p, t, c)
    /\ ~Holds(q, t, c)
    /\ Queues(q, t, c) => Queues(p, t, c)
    /\ Shifted(p, q, c)

LEMMA MilderKept ==
    ASSUME NEW p \in prunes, NEW q, Takes(p, q), NEW t \in Topics, NEW c \in Outs,
           Milder(p, q, t, c), OutputKept(t, c), Same(t, c),
           \A x \in Outs : Uses(t, x, c)' => Uses(t, x, c) /\ (Unspent(t, x) => Unspent(t, x)')
    PROVE  /\ OutputKept(t, c)'
           /\ Free(t, c) => Free(t, c)'
           /\ \A j : Own(j, t, c) => Own(j, t, c)'
<1>2. /\ rows'[t][c].by = rows[t][c].by /\ rows'[t][c].consumed = rows[t][c].consumed
      /\ Stored(t, c)' <=> Stored(t, c)
      /\ Unspent(t, c)' => Unspent(t, c)
  BY DEF Same
<1>3. \A x \in Outs : Uses(t, x, c)' => Uses(t, x, c)
  OBVIOUS
<1>4. Quiet(t, c) => Quiet(t, c)'
  BY <1>2, TakesQuiet DEF Quiet, Milder
<1>5. Free(t, c) => Free(t, c)'
  <2>1. Free(t, c) => Quiet(t, c)' /\ ~Seeks(q, t, c) /\ \A x \in Outs : ~Uses(t, x, c)'
    BY <1>3, <1>4 DEF Free, Milder
  <2> QED BY <2>1, TakesFree
<1>6. Fresh(t, c)'
  BY <1>2, <1>5 DEF OutputKept, Fresh
<1>7. Works(q, t, c) => Works(p, t, c)
  BY DEF Milder, Works
<1>8. \A h \in q.held : ~(q.topic = t /\ h.out = c)
  BY DEF Milder, Holds
<1>9. UserKept(t, c)'
  <2>1. ASSUME NEW y \in Outs, Uses(t, y, c)'
        PROVE  /\ Uses(t, y, c)
               /\ y \in rows'[t][c].by \/ Quiet(t, c)'
               /\ Spares(q, t, y, c)
    <3>1. Uses(t, y, c)
      BY <1>3, <2>1
    <3>2. (y \in rows[t][c].by \/ Quiet(t, c)) /\ Spares(p, t, y, c)
      BY <3>1 DEF OutputKept, UserKept
    <3>3. Spares(q, t, y, c)
      BY <1>7, <1>8, <3>2 DEF Spares, Milder
    <3> QED BY <1>2, <1>4, <3>1, <3>2, <3>3
  <2> QED BY <2>1, TakesUser DEF OutputKept
<1>10. PruneKept(t, c)'
  <2>1. \A r \in prunes : Entitled(r, t, c)'
    BY <1>2, <1>4, EntitledNext DEF OutputKept, PruneKept
  <2>2. Entitled(q, t, c)
    BY <1>8 DEF Entitled, Milder, OutputKept, PruneKept
  <2>3. Entitled(q, t, c)'
    BY <1>2, <1>4, <2>2, EntitledNext
  <2>4. \A r \in prunes \ {p} : Apart(r, q, t, c) /\ Apart(q, r, t, c)
    BY <1>7, <1>8 DEF Apart, Milder, OutputKept, PruneKept
  <2> QED BY <2>1, <2>3, <2>4, TakesPrune DEF OutputKept
<1>11. QueueKept(t, c)'
  <2>1. (\E r \in prunes : Queues(r, t, c)) => ~Works(q, t, c)
    BY <1>7 DEF OutputKept, QueueKept, Queues
  <2>2. QueueKept(t, c) /\ q.topic = p.topic /\ Shifted(p, q, c)
    BY DEF OutputKept, Milder
  <2> QED BY <1>2, <2>1, <2>2, TakesQueue
<1>12. ASSUME NEW j, Own(j, t, c)
       PROVE  Own(j, t, c)'
  <2>1. \A r \in prunes' : ~Seeks(r, t, c)
    BY <1>12 DEF Own, Takes, Milder
  <2>2. Stored(t, c)' /\ ~Unspent(t, c)' /\ Quiet(t, c)'
    BY <1>2, <1>4, <1>12 DEF Own
  <2>3. \A y \in Outs : Uses(t, y, c)' => y \in j.verdict[t].admit /\ Unspent(t, y)'
    BY <1>12 DEF Own
  <2> QED BY <2>1, <2>2, <2>3, OwnNext
<1> QED BY <1>5, <1>6, <1>9, <1>10, <1>11, <1>12 DEF OutputKept

\* The row read for the first time by its entitled prune: every other prune's
\* reference and every user's is in what it will write back.
LEMMA ReadHeld ==
    ASSUME NEW p \in prunes, NEW q, NEW t, NEW o, Reading(p, q, t, o), q.held # {},
           OutputKept(t, o)
    PROVE  OutputKept(t, o)'
<1>1. PICK h : /\ q.held = {h} /\ h.out = o /\ h.by = rows[t][o].by \ {p.last}
               /\ h.consumed = rows[t][o].consumed
               /\ Stored(t, o) /\ p.last \in rows[t][o].by
  BY DEF Reading
<1>2. /\ t \in Topics /\ o \in Outs /\ Takes(p, q) /\ q.topic = t /\ p.topic = t
      /\ q.last = p.last /\ q.queue = p.queue /\ Same(t, o)
      /\ Seeks(p, t, o) /\ Works(p, t, o) /\ ~Seeks(q, t, o)
  BY DEF Reading, Alike, Seeks, Works
<1>3. /\ rows'[t][o].by = rows[t][o].by /\ rows'[t][o].consumed = rows[t][o].consumed
      /\ Stored(t, o)' <=> Stored(t, o)
      /\ Unspent(t, o)' => Unspent(t, o)
  BY <1>2 DEF Same
<1>4. ~Quiet(t, o) /\ ~Free(t, o)
  BY <1>1 DEF Quiet, Free
<1>5. Fresh(t, o)'
  BY <1>1, <1>3, <1>4 DEF OutputKept, Fresh
<1>6. UserKept(t, o)'
  <2>1. ASSUME NEW y \in Outs, Uses(t, y, o)'
        PROVE  /\ Uses(t, y, o)
               /\ y \in rows'[t][o].by \/ Quiet(t, o)'
               /\ Spares(q, t, y, o)
    <3>1. Uses(t, y, o)
      BY <1>2, <2>1, SameUses DEF Reading, Alike
    <3>2. y \in rows[t][o].by /\ Spares(p, t, y, o)
      BY <1>4, <3>1 DEF OutputKept, UserKept
    <3>3. y # p.last /\ ~Queues(q, t, o)
      BY <1>2, <3>2 DEF Spares, Queues
    <3>4. Spares(q, t, y, o)
      BY <1>1, <1>2, <3>2, <3>3 DEF Spares
    <3> QED BY <1>3, <3>1, <3>2, <3>4
  <2> QED BY <1>2, <2>1, TakesUser DEF OutputKept
<1>7. PruneKept(t, o)'
  <2>1. \A r \in prunes : Entitled(r, t, o)'
    BY <1>3, <1>4, EntitledNext DEF OutputKept, PruneKept
  <2>2. Entitled(q, t, o)
    BY <1>1, <1>2 DEF Entitled, Seeks
  <2>3. Entitled(q, t, o)'
    BY <1>3, <1>4, <2>2, EntitledNext
  <2>4. ASSUME NEW r \in prunes \ {p}
        PROVE  Apart(r, q, t, o) /\ Apart(q, r, t, o)
    <3>1. Apart(r, p, t, o) /\ Apart(p, r, t, o) /\ Entitled(r, t, o)
      BY <2>4 DEF OutputKept, PruneKept
    <3>2. Works(r, t, o) => r.last # p.last /\ r.last \in rows[t][o].by
      BY <1>2, <1>4, <3>1 DEF Apart, Entitled, Works, Holds
    <3>3. Works(r, t, o) => r.last \in h.by
      BY <1>1, <3>2
    <3>4. Apart(r, q, t, o)
      BY <1>1, <1>2, <3>2, <3>3 DEF Apart
    <3>5. Apart(q, r, t, o)
      BY <1>2, <3>1 DEF Apart
    <3> QED BY <3>4, <3>5
  <2> QED BY <1>2, <2>1, <2>3, <2>4, TakesPrune DEF OutputKept
<1>8. QueueKept(t, o)'
  <2>1. \A r \in prunes : ~Queues(r, t, o)
    BY <1>2 DEF OutputKept, QueueKept, Queues
  <2>2. ~Queues(q, t, o)
    BY <1>2, <2>1 DEF Queues
  <2>3. \A r \in prunes' : ~Queues(r, t, o)
    BY <1>2, <2>1, <2>2 DEF Takes
  <2> QED BY <2>3, QueueNext DEF Queues
<1> QED BY <1>5, <1>6, <1>7, <1>8 DEF OutputKept

LEMMA SameQueue ==
    ASSUME NEW p, NEW q, NEW c, q.queue = p.queue
    PROVE  Shifted(p, q, c)
<1>1. \A i \in 1..Len(q.queue) : i + 0 \in 1..Len(p.queue) /\ p.queue[i + 0] = q.queue[i]
  OBVIOUS
<1> QED BY <1>1, 0 \in Nat DEF Shifted

LEMMA ReadKeeps ==
    ASSUME Shape, AllKept, NEW p \in prunes, NEW o \in Outs, PruneRead(p, o)
    PROVE  AllKept' /\ Gentle
<1>1. PICK q, t : Reading(p, q, t, o)
  BY ReadsRow
<1>2. ASSUME NEW u \in Topics, NEW c \in Outs
      PROVE  /\ OutputKept(u, c)'
             /\ Free(u, c) => Free(u, c)'
             /\ \A j : Own(j, u, c) => Own(j, u, c)'
  <2>0. OutputKept(u, c) /\ Takes(p, q) /\ \A x \in Outs : Alike(u, x)
    BY <1>1 DEF AllKept, Reading
  <2>1. CASE u # t
    <3>1. q.topic # u
      BY <1>1, <2>1 DEF Reading
    <3> QED BY <2>0, <3>1, Elsewhere
  <2>2. CASE u = t /\ c = o /\ q.held # {}
    <3>1. OutputKept(t, o)'
      BY <1>1, <2>0, <2>2, ReadHeld
    <3>2. Seeks(p, t, o)
      BY <1>1 DEF Reading
    <3>3. ~Free(t, o) /\ \A j : ~Own(j, t, o)
      BY <3>2 DEF Free, Own
    <3> QED BY <2>2, <3>1, <3>3
  <2>3. CASE u = t /\ ~(c = o /\ q.held # {})
    <3>1. ~Holds(q, u, c)
      BY <1>1, <2>3 DEF Reading, Holds
    <3>2. Seeks(q, u, c) => Seeks(p, u, c)
      BY <1>1, <2>3 DEF Reading, Seeks
    <3>3. Queues(q, u, c) => Queues(p, u, c)
      BY <1>1, <2>3 DEF Reading, Queues
    <3>4. Shifted(p, q, c)
      BY <1>1, SameQueue DEF Reading
    <3>5. Milder(p, q, u, c)
      BY <1>1, <3>1, <3>2, <3>3, <3>4 DEF Milder, Reading
    <3>6. /\ Same(u, c)
          /\ \A x \in Outs : Uses(u, x, c)' =>
               Uses(u, x, c) /\ (Unspent(u, x) => Unspent(u, x)')
      BY <2>0, SameUses DEF Alike
    <3> QED BY <2>0, <3>5, <3>6, MilderKept
  <2> QED BY <2>1, <2>2, <2>3
<1>3. AllKept'
  BY <1>2 DEF AllKept
<1>4. \A u \in Topics, c \in Outs : Same(u, c)
  BY <1>1 DEF Reading, Alike
<1> QED BY <1>2, <1>3, <1>4 DEF Gentle, Same

(***************************************************************************)
(* deleteUTXODeep writes the references back.                              *)
(***************************************************************************)
Writing(p, q, t, o, h) ==
    /\ t \in Topics /\ o \in Outs /\ p.topic = t /\ h \in p.held /\ h.out = o
    /\ \A u \in Topics, x \in Outs :
         /\ <<u, x>> # <<t, o>> => Alike(u, x)
         /\ Stored(u, x)' <=> Stored(u, x)
         /\ Unspent(u, x)' <=> Unspent(u, x)
         /\ rows'[u][x].consumed = rows[u][x].consumed
    /\ Stored(t, o) => rows'[t][o].by = h.by
    /\ Takes(p, q) /\ Leaves(p, q)
    /\ q.sub = p.sub /\ q.topic = t /\ q.last = p.last /\ q.refs = p.refs /\ q.held = {}
    /\ p.queue \in Seq(Reads)
    /\ q.queue = IF h.by = {} THEN Append(p.queue, h) ELSE p.queue

LEMMA Writes ==
    ASSUME Shape, NEW p \in prunes, PruneWrite(p)
    PROVE  \E q, t, o, h : Writing(p, q, t, o, h)
<1>1. PICK h \in p.held :
        /\ rows' = IF ~Stored(p.topic, h.out) THEN rows
                   ELSE [rows EXCEPT ![p.topic][h.out].by = h.by]
        /\ Becomes(p, [p EXCEPT !.held = {},
                                !.queue = IF Bare(h) THEN Append(@, h) ELSE @])
  BY DEF PruneWrite
<1>2. p \in Prunes /\ p.queue \in Seq(Reads)
  BY DEF Shape, PrunesTyped, Prunes
<1>3. PICK t \in Topics, o \in Outs, by \in SUBSET Outs : t = p.topic /\ o = h.out /\ by = h.by
  BY <1>2 DEF Prunes, Reads
<1>4. PICK q : q = [p EXCEPT !.held = {}, !.queue = IF Bare(h) THEN Append(@, h) ELSE @]
  OBVIOUS
<1>5. /\ q.sub = p.sub /\ q.topic = t /\ q.last = p.last /\ q.refs = p.refs /\ q.held = {}
      /\ q.queue = IF h.by = {} THEN Append(p.queue, h) ELSE p.queue
  BY <1>2, <1>3, <1>4 DEF Prunes, Bare
<1>6. Takes(p, q) /\ Leaves(p, q)
  BY <1>1, <1>4, BecomesTakes
<1>7. RowsTyped /\ RowsTyped' /\ RowsKept
  BY WritesBack DEF Shape
<1>8. /\ \A u \in Topics, x \in Outs :
           /\ <<u, x>> # <<t, o>> => rows'[u][x] = rows[u][x]
           /\ rows'[u][x].consumed = rows[u][x].consumed
      /\ Stored(t, o) => rows'[t][o].by = h.by
  <2>1. CASE ~Stored(t, o)
    BY <1>1, <1>3, <2>1
  <2>2. CASE Stored(t, o)
    <3>1. rows' = [rows EXCEPT ![t][o].by = by]
      BY <1>1, <1>3, <2>2
    <3>2. rows[t][o] \in Rows
      BY <1>7, <2>2 DEF RowsTyped, Stored
    <3>3. PICK r : r = [rows[t][o] EXCEPT !.by = by]
      OBVIOUS
    <3>4. r.by = by /\ r.consumed = rows[t][o].consumed
      BY <3>2, <3>3 DEF Rows
    <3>5. rows'[t][o] = r /\ \A u \in Topics, x \in Outs :
                              <<u, x>> # <<t, o>> => rows'[u][x] = rows[u][x]
      BY <1>7, <3>1, <3>3 DEF RowsTyped
    <3> QED BY <1>3, <3>4, <3>5
  <2> QED BY <2>1, <2>2
<1>9. \A u \in Topics, x \in Outs : <<u, x>> # <<t, o>> => Alike(u, x)
  BY <1>7, <1>8 DEF RowsKept, Alike, Same
<1>10. Writing(p, q, t, o, h)
  BY <1>1, <1>2, <1>3, <1>5, <1>6, <1>7, <1>8, <1>9 DEF Writing, RowsKept
<1> QED BY <1>10

LEMMA WriteUses ==
    ASSUME NEW p, NEW q, NEW t, NEW o, NEW h, Writing(p, q, t, o, h),
           NEW x \in Outs, NEW c
    PROVE  Uses(t, x, c)' => Uses(t, x, c) /\ (Unspent(t, x) => Unspent(t, x)')
BY DEF Writing, Uses

\* The row written: what is left are the references of its users and of the
\* prunes that still are to take theirs off; if none is left, it is to go.
LEMMA WriteHeld ==
    ASSUME NEW p \in prunes, NEW q, NEW t, NEW o, NEW h, Writing(p, q, t, o, h),
           OutputKept(t, o)
    PROVE  OutputKept(t, o)'
<1>1. /\ t \in Topics /\ o \in Outs /\ p.topic = t /\ h \in p.held /\ h.out = o
      /\ Takes(p, q) /\ q.topic = t /\ q.last = p.last /\ q.refs = p.refs /\ q.held = {}
      /\ rows'[t][o].consumed = rows[t][o].consumed
      /\ Stored(t, o)' <=> Stored(t, o)
      /\ Unspent(t, o)' <=> Unspent(t, o)
  BY DEF Writing
<1>2. Holds(p, t, o) /\ Works(p, t, o)
  BY <1>1 DEF Holds, Works
<1>3. Stored(t, o) /\ ~Unspent(t, o) /\ ~Quiet(t, o)
  BY <1>2 DEF OutputKept, Fresh, Free, Quiet
<1>4. rows'[t][o].by = h.by
  BY <1>3 DEF Writing
<1>5. /\ p.last \in rows[t][o].by /\ o \notin p.refs /\ h.consumed = rows[t][o].consumed
  BY <1>1 DEF OutputKept, PruneKept, Entitled
<1>6. ~Works(q, t, o)
  BY <1>1, <1>5 DEF Works, Seeks, Holds
<1>7. \A r \in prunes \ {p} : Works(r, t, o) => r.last \in h.by
  BY <1>1 DEF OutputKept, PruneKept, Apart
<1>8. \A r \in prunes : ~Queues(r, t, o)
  BY <1>2 DEF OutputKept, QueueKept, Queues
<1>9. Fresh(t, o)'
  BY <1>1, <1>3 DEF Fresh
<1>10. UserKept(t, o)'
  <2>1. ASSUME NEW y \in Outs, Uses(t, y, o)'
        PROVE  /\ Uses(t, y, o)
               /\ y \in rows'[t][o].by \/ Quiet(t, o)'
               /\ Spares(q, t, y, o)
    <3>1. Uses(t, y, o)
      BY <2>1, WriteUses
    <3>2. Spares(p, t, y, o)
      BY <3>1 DEF OutputKept, UserKept
    <3>3. y \in h.by
      BY <1>1, <3>2 DEF Spares
    <3>4. q.queue = p.queue
      BY <3>3 DEF Writing
    <3>5. ~Queues(q, t, o)
      BY <1>1, <3>2, <3>4 DEF Spares, Queues
    <3>6. Spares(q, t, y, o)
      BY <1>1, <1>6, <3>5 DEF Spares
    <3> QED BY <1>4, <3>1, <3>3, <3>6
  <2> QED BY <1>1, <2>1, TakesUser DEF OutputKept
<1>11. PruneKept(t, o)'
  <2>1. ASSUME NEW r \in prunes \ {p}
        PROVE  Entitled(r, t, o)'
    <3>1. Entitled(r, t, o)
      BY <2>1 DEF OutputKept, PruneKept
    <3>2. Seeks(r, t, o) => r.last \in rows'[t][o].by
      BY <1>4, <1>7, <2>1 DEF Works
    <3>3. \A g \in r.held : r.topic = t /\ g.out = o =>
            /\ r.last \in rows'[t][o].by /\ o \notin r.refs
            /\ g.consumed = rows'[t][o].consumed
      BY <1>1, <1>4, <1>7, <2>1, <3>1 DEF Works, Holds, Entitled
    <3> QED BY <3>2, <3>3 DEF Entitled, Seeks
  <2>2. Entitled(q, t, o)'
    BY <1>6 DEF Entitled, Works, Holds, Seeks
  <2>3. \A r \in prunes \ {p} : Apart(r, q, t, o) /\ Apart(q, r, t, o)
    BY <1>1, <1>6 DEF Apart
  <2> QED BY <1>1, <2>1, <2>2, <2>3, TakesPrune DEF OutputKept
<1>12. QueueKept(t, o)'
  <2>1. CASE h.by # {}
    <3>1. q.queue = p.queue
      BY <2>1 DEF Writing
    <3>2. \A r \in prunes' : ~Queues(r, t, o)
      BY <1>1, <1>8, <3>1 DEF Takes, Queues
    <3> QED BY <3>2, QueueNext DEF Queues
  <2>2. CASE h.by = {}
    <3>1. q.queue = Append(p.queue, h) /\ p.queue \in Seq(Reads)
      BY <2>2 DEF Writing
    <3>2. \A i \in 1..Len(p.queue) : p.queue[i].out # o
      BY <1>1, <1>8 DEF Queues
    <3>3. \A i \in 1..Len(q.queue) : q.queue[i].out = o => i = Len(p.queue) + 1 /\ q.queue[i] = h
      BY <3>1, <3>2
    <3>4. \A r \in prunes' : r # q => ~Queues(r, t, o)
      BY <1>1, <1>8 DEF Takes
    <3>5. \A r \in prunes' : \A i \in 1..Len(r.queue) : r.topic = t /\ r.queue[i].out = o =>
            r = q /\ i = Len(p.queue) + 1 /\ r.queue[i] = h
      BY <3>3, <3>4 DEF Queues
    <3>6. \A r \in prunes' : ~Works(r, t, o)
      BY <1>1, <1>6, <1>7, <2>2 DEF Takes
    <3>7. Stored(t, o)' /\ rows'[t][o].by = {} /\ h.consumed = rows'[t][o].consumed
      BY <1>1, <1>3, <1>4, <1>5, <2>2
    <3> QED BY <2>2, <3>5, <3>6, <3>7, QueueNext
  <2> QED BY <2>1, <2>2
<1> QED BY <1>9, <1>10, <1>11, <1>12 DEF OutputKept

LEMMA WriteKeeps ==
    ASSUME Shape, AllKept, NEW p \in prunes, PruneWrite(p)
    PROVE  AllKept' /\ Gentle
<1>1. PICK q, t, o, h : Writing(p, q, t, o, h)
  BY Writes
<1>2. ASSUME NEW u \in Topics, NEW c \in Outs
      PROVE  /\ OutputKept(u, c)'
             /\ Free(u, c) => Free(u, c)'
             /\ \A j : Own(j, u, c) => Own(j, u, c)'
  <2>0. OutputKept(u, c) /\ Takes(p, q)
    BY <1>1 DEF AllKept, Writing
  <2>1. CASE u # t
    <3>1. q.topic # u /\ \A x \in Outs : Alike(u, x)
      BY <1>1, <2>1 DEF Writing
    <3> QED BY <2>0, <3>1, Elsewhere
  <2>2. CASE u = t /\ c = o
    <3>1. OutputKept(t, o)'
      BY <1>1, <2>0, <2>2, WriteHeld
    <3>2. Holds(p, t, o)
      BY <1>1 DEF Writing, Holds
    <3>3. ~Free(t, o) /\ \A j : ~Own(j, t, o)
      BY <3>2 DEF Free, Own, Quiet
    <3> QED BY <2>2, <3>1, <3>3
  <2>3. CASE u = t /\ c # o
    <3>1. /\ q.topic = p.topic /\ q.topic = t /\ q.last = p.last /\ q.refs = p.refs
          /\ q.held = {} /\ h.out = o /\ p.queue \in Seq(Reads)
          /\ q.queue = IF h.by = {} THEN Append(p.queue, h) ELSE p.queue
      BY <1>1 DEF Writing
    <3>2. ~Holds(q, u, c) /\ (Seeks(q, u, c) => Seeks(p, u, c))
      BY <3>1 DEF Holds, Seeks
    <3>3. \A i \in 1..Len(q.queue) : q.queue[i].out = c =>
            i + 0 \in 1..Len(p.queue) /\ p.queue[i + 0] = q.queue[i]
      BY <2>3, <3>1
    <3>4. Shifted(p, q, c)
      BY <3>3, 0 \in Nat DEF Shifted
    <3>5. Queues(q, u, c) => Queues(p, u, c)
      BY <3>1, <3>3 DEF Queues
    <3>6. Milder(p, q, u, c)
      BY <3>1, <3>2, <3>4, <3>5 DEF Milder
    <3>7. Same(u, c)
      BY <1>1, <2>3 DEF Writing, Alike
    <3>8. \A x \in Outs : Uses(u, x, c)' =>
            Uses(u, x, c) /\ (Unspent(u, x) => Unspent(u, x)')
      BY <1>1, <2>3, WriteUses
    <3> QED BY <2>0, <3>6, <3>7, <3>8, MilderKept
  <2> QED BY <2>1, <2>2, <2>3
<1>3. AllKept'
  BY <1>2 DEF AllKept
<1>4. \A u \in Topics, c \in Outs :
        (Stored(u, c)' <=> Stored(u, c)) /\ (Unspent(u, c)' <=> Unspent(u, c))
  BY <1>1 DEF Writing
<1> QED BY <1>2, <1>3, <1>4 DEF Gentle

-----------------------------------------------------------------------------
(***************************************************************************)
(* The submission that has the turn.                                       *)
(***************************************************************************)
\* Steps that leave the references alone and start no prune.
LEMMA LessKeeps ==
    ASSUME AllKept, \A t \in Topics, o \in Outs : Same(t, o), prunes' \subseteq prunes
    PROVE  /\ AllKept'
           /\ \A t \in Topics, c \in Outs : Free(t, c) => Free(t, c)'
<1>1. ASSUME NEW t \in Topics, NEW c \in Outs
      PROVE  OutputKept(t, c)' /\ (Free(t, c) => Free(t, c)')
  <2>1. OutputKept(t, c) /\ Same(t, c) /\ Fewer(t, c)
    BY DEF AllKept, Fewer
  <2>2. \A x \in Outs : Uses(t, x, c)' => Uses(t, x, c)
    BY SameUses
  <2> QED BY <2>1, <2>2, LessKept, LessFree
<1>2. AllKept'
  BY <1>1 DEF AllKept
<1> QED BY <1>1, <1>2

LEMMA CalmKeeps ==
    ASSUME AllKept, rows' = rows, prunes' \subseteq prunes
    PROVE  AllKept' /\ Gentle
<1>1. \A t \in Topics, o \in Outs : Same(t, o)
  BY DEF Same, Stored, Unspent
<1>2. /\ AllKept'
      /\ \A t \in Topics, c \in Outs : Free(t, c) => Free(t, c)'
  BY <1>1, LessKeeps
<1>3. \A t \in Topics, c \in Outs :
        (Stored(t, c)' <=> Stored(t, c)) /\ (Unspent(t, c)' <=> Unspent(t, c))
  BY DEF Stored, Unspent
<1>4. ASSUME NEW t \in Topics, NEW c \in Outs, NEW j, Own(j, t, c)
      PROVE  Own(j, t, c)'
  <2>1. Same(t, c) /\ Fewer(t, c)
    BY <1>1 DEF Fewer
  <2>2. \A x \in Outs : Uses(t, x, c)' => Uses(t, x, c) /\ (Unspent(t, x) => Unspent(t, x)')
    BY <1>1, <1>3, SameUses
  <2> QED BY <1>4, <2>1, <2>2, LessOwn
<1> QED BY <1>2, <1>3, <1>4 DEF Gentle

LEMMA JobCoins ==
    ASSUME NEW k, job' = k, RetainsCoins(k), LaterFree(k)', LaterSpent(k)', Owned(k)'
    PROVE  CoinsKept(job)'
<1>1. RetainsCoins(job)'
  BY DEF RetainsCoins
<1>2. LaterFree(job)'
  BY DEF LaterFree, Later
<1>3. LaterSpent(job)'
  BY DEF LaterSpent, Later
<1>4. Owned(job)'
  BY DEF Owned, Retained, Own
<1> QED BY <1>1, <1>2, <1>3, <1>4 DEF CoinsKept

\* The coins of the topics to come, as the submission moves on.
FreeStays(L) ==
    \A t \in L, c \in Outs : Stored(t, c) /\ Free(t, c) =>
      Stored(t, c)' /\ Free(t, c)' /\ (Unspent(t, c)' => Unspent(t, c))

LEMMA LaterTyped ==
    ASSUME NEW j \in Jobs
    PROVE  Later(j) \subseteq Topics /\ \A t \in Topics : j.verdict[t].coins \subseteq Outs
<1>1. j.topics \in Seq(Topics) /\ j.verdict \in [Topics -> Verdicts]
  BY DEF Jobs
<1> QED BY <1>1 DEF Later, Verdicts

LEMMA GentleStays ==
    ASSUME Gentle, NEW j \in Jobs
    PROVE  FreeStays(Later(j))
BY LaterTyped DEF Gentle, FreeStays

LEMMA CoinsMove ==
    ASSUME NEW j \in Jobs, NEW k \in Jobs, CoinsKept(j), FreeStays(Later(k)),
           k.verdict = j.verdict, k.dupes = j.dupes, k.failed = j.failed,
           Later(k) \subseteq Later(j), j.step # "validate",
           \A t \in Later(k) : \A c \in j.verdict[t].coins :
             j.step = "mark" /\ <<t, c>> \in j.todo =>
               (k.step = "mark" /\ <<t, c>> \in k.todo) \/ ~Unspent(t, c)'
    PROVE  LaterFree(k)' /\ LaterSpent(k)'
<1>1. ASSUME NEW t \in Later(k), NEW c \in k.verdict[t].coins
      PROVE  /\ Stored(t, c)' /\ Free(t, c)'
             /\ t \notin k.dupes \cup k.failed =>
                  (k.step = "mark" /\ <<t, c>> \in k.todo) \/ ~Unspent(t, c)'
  <2>1. t \in Later(j) /\ t \in Topics /\ c \in Outs /\ c \in j.verdict[t].coins
    BY LaterTyped
  <2>2. Stored(t, c) /\ Free(t, c)
    BY <2>1 DEF CoinsKept, LaterFree
  <2>3. Stored(t, c)' /\ Free(t, c)' /\ (Unspent(t, c)' => Unspent(t, c))
    BY <2>1, <2>2 DEF FreeStays
  <2>4. t \notin j.dupes \cup j.failed =>
          (j.step = "mark" /\ <<t, c>> \in j.todo) \/ ~Unspent(t, c)
    BY <2>1 DEF CoinsKept, LaterSpent
  <2> QED BY <2>1, <2>3, <2>4
<1>2. LaterFree(k)'
  BY <1>1 DEF LaterFree, Later
<1>3. LaterSpent(k)'
  BY <1>1 DEF LaterSpent, Later
<1> QED BY <1>2, <1>3

\* The submission does not move.
LEMMA CoinsStay ==
    ASSUME job \in Jobs, CoinsKept(job), Gentle, job' = job, RetainsCoins(job),
           job.step \in {"prune", "admit", "record"} => Head(job.topics) \in Topics
    PROVE  CoinsKept(job)'
<1>1. PICK j : j = job
  OBVIOUS
<1>2. j \in Jobs /\ CoinsKept(j)
  BY <1>1
<1>3. FreeStays(Later(j))
  BY <1>2, GentleStays
<1>4. LaterFree(j)'
  <2>1. ASSUME NEW t \in Later(j), NEW c \in j.verdict[t].coins
        PROVE  Stored(t, c)' /\ Free(t, c)'
    <3>1. Stored(t, c) /\ Free(t, c) /\ t \in Topics /\ c \in Outs
      BY <1>2, LaterTyped DEF CoinsKept, LaterFree
    <3> QED BY <1>3, <3>1 DEF FreeStays
  <2> QED BY <2>1 DEF LaterFree, Later
<1>5. LaterSpent(j)'
  <2>1. CASE j.step = "validate"
    BY <2>1 DEF LaterSpent
  <2>2. CASE j.step # "validate"
    BY <1>2, <1>3, <2>2, CoinsMove
  <2> QED BY <2>1, <2>2
<1>6. Owned(j)'
  <2>1. ASSUME NEW c \in Retained(j)
        PROVE  Own(j, Head(j.topics), c)'
    <3>1. /\ j.step \in {"prune", "admit", "record"}
          /\ Head(j.topics) \in Topics /\ Own(j, Head(j.topics), c)
          /\ c \in j.verdict[Head(j.topics)].retain
      BY <1>1, <1>2, <2>1 DEF Retained, CoinsKept, Owned
    <3>2. c \in Outs
      BY <1>2, <3>1 DEF Jobs, Verdicts
    <3> QED BY <3>1, <3>2 DEF Gentle
  <2> QED BY <2>1 DEF Owned, Retained
<1> QED BY <1>1, <1>4, <1>5, <1>6, JobCoins

\* A turn begins with no coins.
LEMMA CoinsStart ==
    ASSUME Start
    PROVE  CoinsKept(job)'
<1>1. PICK k : k = job'
  OBVIOUS
<1>2. k.step = "validate" /\ k.verdict = [t \in Topics |-> Nothing]
  BY <1>1 DEF Start
<1>3. \A t \in Topics : k.verdict[t].coins = {} /\ k.verdict[t].retain = {}
  BY <1>2 DEF Nothing
<1>4. RetainsCoins(k) /\ LaterFree(k)' /\ LaterSpent(k)' /\ Owned(k)'
  BY <1>2, <1>3 DEF RetainsCoins, LaterFree, LaterSpent, Owned, Later, Retained
<1> QED BY <1>1, <1>4, JobCoins

\* The coins a manager is asked about are unspent, and nobody's ancestors.
LEMMA CoinsValidate ==
    ASSUME JobInv, AllKept, job # Idle => CoinsKept(job), NEW t \in Topics, ValidateTopic(t)
    PROVE  AllKept' /\ CoinsKept(job)'
<1>1. /\ job # Idle /\ job \in Jobs /\ job.step = "validate" /\ CoinsKept(job)
      /\ rows' = rows /\ prunes' \subseteq prunes
  BY DEF ValidateTopic, JobInv, storage
<1>2. AllKept' /\ Gentle
  BY <1>1, CalmKeeps
<1>3. PICK k : k = job'
  OBVIOUS
<1>4. PICK coins : coins = Coins(t, TxOf[job.sub])
  OBVIOUS
<1>5. PICK r : r = [job EXCEPT !.todo = @ \ {t}]
  OBVIOUS
<1>6. /\ r.step = "validate" /\ r.verdict = job.verdict /\ r \in Jobs
  BY <1>1, <1>5 DEF Jobs
<1>7. /\ k.step = "validate"
      /\ \/ k.verdict = job.verdict
         \/ \E v : /\ k.verdict = [job.verdict EXCEPT ![t] = v]
                   /\ v.coins = coins /\ v.retain \subseteq coins
  <2>1. CASE \/ job' = [r EXCEPT !.dupes = @ \cup {t}]
             \/ job' = [r EXCEPT !.failed = @ \cup {t}]
    BY <1>3, <1>6, <2>1 DEF Jobs
  <2>2. CASE \E admit, retain :
               /\ retain \in SUBSET coins
               /\ job' = [r EXCEPT !.verdict[t] = [coins |-> coins, admit |-> admit,
                                                   retain |-> retain]]
    <3>1. PICK admit, retain :
            /\ retain \in SUBSET coins
            /\ job' = [r EXCEPT !.verdict[t] = [coins |-> coins, admit |-> admit,
                                                retain |-> retain]]
      BY <2>2
    <3>2. PICK v : v = [coins |-> coins, admit |-> admit, retain |-> retain]
      OBVIOUS
    <3>3. v.coins = coins /\ v.retain \subseteq coins
      BY <3>1, <3>2
    <3>4. k.step = "validate" /\ k.verdict = [job.verdict EXCEPT ![t] = v]
      BY <1>3, <1>6, <3>1, <3>2 DEF Jobs
    <3> QED BY <3>3, <3>4
  <2> QED BY <1>4, <1>5, <2>1, <2>2 DEF ValidateTopic
<1>8. ASSUME NEW u \in Topics
      PROVE  /\ k.verdict[u].retain \subseteq k.verdict[u].coins
             /\ k.verdict[u].coins \subseteq job.verdict[u].coins \cup Coins(u, TxOf[job.sub])
  <2>1. job.verdict \in [Topics -> Verdicts] /\ job.verdict[u].retain \subseteq job.verdict[u].coins
    BY <1>1 DEF Jobs, CoinsKept, RetainsCoins
  <2> QED BY <1>4, <1>7, <2>1
<1>9. RetainsCoins(k)
  BY <1>7, <1>8 DEF RetainsCoins
<1>10. ASSUME NEW u \in Topics, NEW c \in k.verdict[u].coins
       PROVE  Stored(u, c)' /\ Free(u, c)'
  <2>1. CASE c \in job.verdict[u].coins
    <3>1. Stored(u, c) /\ Free(u, c) /\ c \in Outs
      BY <1>1, <1>10, <2>1, LaterTyped DEF CoinsKept, LaterFree, Later
    <3> QED BY <1>2, <3>1 DEF Gentle
  <2>2. CASE c \in Coins(u, TxOf[job.sub])
    <3>1. Unspent(u, c) /\ Stored(u, c) /\ c \in Outs
      BY <1>1, <2>2, JobTyped, EngineAssumption DEF Coins, Unspent
    <3>2. Free(u, c)
      BY <3>1 DEF AllKept, OutputKept, Fresh
    <3> QED BY <1>2, <3>1, <3>2 DEF Gentle
  <2> QED BY <1>8, <1>10, <2>1, <2>2
<1>11. LaterFree(k)' /\ LaterSpent(k)' /\ Owned(k)'
  BY <1>7, <1>10 DEF LaterFree, LaterSpent, Owned, Later, Retained
<1> QED BY <1>2, <1>3, <1>9, <1>11, JobCoins

\* What a submission is to mark is every coin of the topics it is to change.
LEMMA CoinsProceed ==
    ASSUME JobInv, job # Idle, CoinsKept(job), job.step = "validate", Gentle, Proceed
    PROVE  CoinsKept(job)'
<1>1. job \in Jobs /\ TopicsOf[job.sub] \in Seq(Topics)
  BY EngineAssumption DEF JobInv, Jobs
<1>2. PICK k : k = [job EXCEPT !.step = "mark", !.todo = ToMark, !.topics = TopicsOf[job.sub]]
  OBVIOUS
<1>3. /\ job' = k /\ k.step = "mark" /\ k.todo = ToMark /\ k.topics = TopicsOf[job.sub]
      /\ k.verdict = job.verdict /\ k.dupes = job.dupes /\ k.failed = job.failed
  BY <1>1, <1>2 DEF Proceed, Jobs
<1>4. RetainsCoins(k)
  BY <1>3 DEF RetainsCoins, CoinsKept
<1>5. Later(k) \subseteq Topics /\ Later(k) \subseteq Range(TopicsOf[job.sub])
  BY <1>1, <1>3 DEF Later, Range
<1>6. ASSUME NEW t \in Later(k), NEW c \in k.verdict[t].coins
      PROVE  /\ Stored(t, c)' /\ Free(t, c)'
             /\ t \notin k.dupes \cup k.failed => <<t, c>> \in k.todo
  <2>1. t \in Topics /\ c \in Outs /\ c \in job.verdict[t].coins
    BY <1>1, <1>3, <1>5, LaterTyped
  <2>2. Stored(t, c) /\ Free(t, c)
    BY <2>1 DEF CoinsKept, LaterFree, Later
  <2>3. Stored(t, c)' /\ Free(t, c)'
    BY <2>1, <2>2 DEF Gentle
  <2>4. t \notin k.dupes \cup k.failed => <<t, c>> \in ToMark
    BY <1>3, <1>5, <2>1 DEF ToMark, Changing
  <2> QED BY <1>3, <2>3, <2>4
<1>7. LaterFree(k)'
  BY <1>6 DEF LaterFree, Later
<1>8. LaterSpent(k)'
  BY <1>3, <1>6 DEF LaterSpent, Later
<1>9. Owned(k)'
  BY <1>3 DEF Owned, Retained
<1> QED BY <1>3, <1>4, <1>7, <1>8, <1>9, JobCoins

\* A mark leaves the references alone.
LEMMA MarkSame ==
    ASSUME RowsTyped, JobInv, NEW t \in Topics, NEW o \in Outs,
           MarkPreviousOutputSpent(t, o), Markable(t, o, TxOf[job.sub])
    PROVE  \A u \in Topics, x \in Outs : Same(u, x)
<1>1. PICK tx : tx = TxOf[job.sub]
  OBVIOUS
<1>2. MarkEffect(t, o)
  BY Marks
<1>3. Stored(t, o) /\ rows' = [rows EXCEPT ![t][o].spentBy = {tx}]
  BY <1>1 DEF MarkPreviousOutputSpent, Markable
<1>4. rows[t][o] \in Rows
  BY <1>3 DEF RowsTyped, Stored
<1>5. PICK r : r = [rows[t][o] EXCEPT !.spentBy = {tx}]
  OBVIOUS
<1>6. r.by = rows[t][o].by /\ r.consumed = rows[t][o].consumed
  BY <1>4, <1>5 DEF Rows
<1>7. rows'[t][o] = r /\ \A u \in Topics, x \in Outs :
                          <<u, x>> # <<t, o>> => rows'[u][x] = rows[u][x]
  BY <1>3, <1>5 DEF RowsTyped
<1> QED BY <1>2, <1>6, <1>7 DEF MarkEffect, OthersKept, Same

LEMMA CoinsMark ==
    ASSUME RowsTyped, JobInv, AllKept, job # Idle => CoinsKept(job),
           NEW t \in Topics, NEW o \in Outs, MarkPreviousOutputSpent(t, o),
           Markable(t, o, TxOf[job.sub])
    PROVE  AllKept' /\ CoinsKept(job)'
<1>1. /\ job # Idle /\ job \in Jobs /\ job.step = "mark" /\ CoinsKept(job)
      /\ prunes' \subseteq prunes
  BY DEF MarkPreviousOutputSpent, Mutating, JobInv
<1>2. MarkEffect(t, o)
  BY Marks
<1>3. \A u \in Topics, x \in Outs : Same(u, x)
  BY MarkSame
<1>4. AllKept' /\ \A u \in Topics, c \in Outs : Free(u, c) => Free(u, c)'
  BY <1>1, <1>3, LessKeeps
<1>5. FreeStays(Topics)
  BY <1>3, <1>4 DEF FreeStays, Same
<1>6. PICK k : k = [job EXCEPT !.todo = @ \ {<<t, o>>}]
  OBVIOUS
<1>7. /\ job' = k /\ k \in Jobs /\ k.step = "mark" /\ k.todo = job.todo \ {<<t, o>>}
      /\ k.topics = job.topics
      /\ k.verdict = job.verdict /\ k.dupes = job.dupes /\ k.failed = job.failed
  BY <1>1, <1>2, <1>6 DEF MarkEffect, Jobs
<1>8. Later(k) = Later(job)
  BY <1>1, <1>7 DEF Later
<1>9. ~Unspent(t, o)'
  BY <1>2 DEF MarkEffect
<1>10. \A u \in Later(k) : \A c \in job.verdict[u].coins : <<u, c>> \in job.todo =>
         <<u, c>> \in k.todo \/ ~Unspent(u, c)'
  BY <1>7, <1>9
<1>11. LaterFree(k)' /\ LaterSpent(k)'
  <2>1. FreeStays(Later(k))
    BY <1>5, <1>7, LaterTyped DEF FreeStays
  <2> QED BY <1>1, <1>7, <1>8, <1>10, <2>1, CoinsMove
<1>12. RetainsCoins(k) /\ Owned(k)'
  BY <1>1, <1>7 DEF CoinsKept, RetainsCoins, Owned, Retained
<1> QED BY <1>4, <1>7, <1>11, <1>12, JobCoins

\* On to the next topic, past one that is left alone or is done.
LEMMA CoinsNext ==
    ASSUME JobInv, job # Idle, CoinsKept(job), Gentle, job.topics # <<>>,
           job.step = "record" \/ (job.step = "mark" /\ job.todo = {}),
           job' = [job EXCEPT !.step = "mark", !.topics = Tail(@)]
    PROVE  CoinsKept(job)'
<1>1. job \in Jobs /\ job.topics \in Seq(Topics)
  BY DEF JobInv, Jobs
<1>2. PICK k : k = job'
  OBVIOUS
<1>3. /\ k \in Jobs /\ k.step = "mark" /\ k.topics = Tail(job.topics) /\ k.todo = job.todo
      /\ k.verdict = job.verdict /\ k.dupes = job.dupes /\ k.failed = job.failed
  <2>1. PICK r : r = Tail(job.topics)
    OBVIOUS
  <2>2. r \in Seq(Topics)
    BY <1>1, <2>1
  <2>3. k = [job EXCEPT !.step = "mark", !.topics = r]
    BY <1>2, <2>1
  <2>4. /\ k \in Jobs /\ k.step = "mark" /\ k.topics = r /\ k.todo = job.todo
        /\ k.verdict = job.verdict /\ k.dupes = job.dupes /\ k.failed = job.failed
    BY <1>1, <2>2, <2>3 DEF Jobs
  <2> QED BY <2>1, <2>4
<1>4. Later(k) \subseteq Later(job)
  <2>1. \A i \in 1..Len(k.topics) :
          i + 1 \in 1..Len(job.topics) /\ i + 1 > 1 /\ k.topics[i] = job.topics[i + 1]
    BY <1>1, <1>3
  <2> QED BY <1>3, <2>1 DEF Later
<1>5. FreeStays(Later(k))
  BY <1>3, GentleStays
<1>6. LaterFree(k)' /\ LaterSpent(k)'
  BY <1>1, <1>3, <1>4, <1>5, CoinsMove
<1>7. RetainsCoins(k) /\ Owned(k)'
  BY <1>3 DEF CoinsKept, RetainsCoins, Owned, Retained
<1> QED BY <1>2, <1>6, <1>7, JobCoins

\* Within a topic, the submission keeps the coins it has not written yet.
LEMMA CoinsWithin ==
    ASSUME JobInv, job # Idle, CoinsKept(job), FreeStays(Later(job)), NEW j, j = job,
           job.step \in {"prune", "admit", "record"},
           NEW step \in {"prune", "admit", "record"},
           NEW todo \in SUBSET (Topics \cup (Topics \X Outs) \cup Outs \cup Txs),
           job' = [job EXCEPT !.step = step, !.todo = todo],
           step = "record" => todo \cap Outs \subseteq j.verdict[Head(j.topics)].retain,
           \A c \in j.verdict[Head(j.topics)].retain :
             (step = "record" => c \in todo) => Own(j, Head(j.topics), c)'
    PROVE  CoinsKept(job)'
<1>1. PICK k : k = job'
  OBVIOUS
<1>2. job \in Jobs
  BY DEF JobInv
<1>3. /\ k \in Jobs /\ k.step = step /\ k.topics = job.topics /\ k.todo = todo
      /\ k.verdict = job.verdict /\ k.dupes = job.dupes /\ k.failed = job.failed
  BY <1>1, <1>2 DEF Jobs
<1>4. Later(k) = Later(job)
  BY <1>3 DEF Later
<1>5. LaterFree(k)' /\ LaterSpent(k)'
  BY <1>2, <1>3, <1>4, CoinsMove
<1>6. RetainsCoins(k)
  BY <1>3 DEF CoinsKept, RetainsCoins
<1>7. ASSUME NEW c \in Retained(k)
      PROVE  Own(k, Head(k.topics), c)'
  <2>1. c \in j.verdict[Head(j.topics)].retain /\ (step = "record" => c \in todo)
    BY <1>3, <1>7 DEF Retained
  <2>2. Own(j, Head(j.topics), c)'
    BY <2>1
  <2> QED BY <1>3, <2>2 DEF Own
<1>8. Owned(k)'
  BY <1>7 DEF Owned, Retained
<1> QED BY <1>1, <1>5, <1>6, <1>8, JobCoins

(***************************************************************************)
(* The prunes of a topic start: of its coins that are not retained, which  *)
(* are free and spent.                                                     *)
(***************************************************************************)
\* A prune that has done nothing but read its root.
Root(r, t, x) ==
    /\ r.topic = t /\ r.refs = {} /\ r.held = {}
    /\ \E h : /\ r.queue = <<h>> /\ h.out = x /\ h.by = rows[t][x].by
              /\ h.consumed = rows[t][x].consumed

LEMMA RootOf ==
    ASSUME NEW t, NEW x
    PROVE  Root(PruneOf(t, x), t, x)
<1>1. PICK h : h = [out |-> x, by |-> rows[t][x].by, consumed |-> rows[t][x].consumed]
  OBVIOUS
<1>2. PICK r : r = PruneOf(t, x)
  OBVIOUS
<1>3. r.topic = t /\ r.refs = {} /\ r.held = {} /\ r.queue = <<h>>
  BY <1>1, <1>2 DEF PruneOf
<1>4. h.out = x /\ h.by = rows[t][x].by /\ h.consumed = rows[t][x].consumed
  BY <1>1
<1> QED BY <1>2, <1>3, <1>4 DEF Root

LEMMA RootTouches ==
    ASSUME NEW r, NEW t, NEW x, Root(r, t, x), NEW u, NEW c
    PROVE  ~Works(r, u, c) /\ (Queues(r, u, c) => u = t /\ c = x)
BY DEF Root, Works, Seeks, Holds, Queues

LEMMA RootKept ==
    ASSUME NEW t \in Topics, NEW c \in Outs, rows' = rows, Free(t, c), Stored(t, c), ~Unspent(t, c),
           \A r \in prunes' : \/ r \in prunes
                              \/ r = PruneOf(t, c)
                              \/ Untouched(r, t, c)
    PROVE  OutputKept(t, c)'
<1>1. PICK q : q = PruneOf(t, c)
  OBVIOUS
<1>2. Root(q, t, c) /\ ~Works(q, t, c)
  BY <1>1, RootOf, RootTouches
<1>3. \A r \in prunes' : ~Works(r, t, c) /\ (Queues(r, t, c) => r = q)
  BY <1>1, <1>2 DEF Free, Quiet, Untouched, Works
<1>4. (Stored(t, c)' <=> Stored(t, c)) /\ ~Unspent(t, c)'
  BY DEF Stored, Unspent
<1>5. \A x \in Outs : ~Uses(t, x, c)'
  BY DEF Free, Uses, Stored
<1>6. Fresh(t, c)' /\ UserKept(t, c)'
  BY <1>4, <1>5 DEF Fresh, UserKept
<1>7. PruneKept(t, c)'
  BY <1>3, PruneNext DEF Apart, Entitled, Works, Holds, Seeks
<1>8. QueueKept(t, c)'
  <2>1. PICK h : /\ q.queue = <<h>> /\ h.by = rows[t][c].by
                 /\ h.consumed = rows[t][c].consumed
    BY <1>2 DEF Root
  <2>2. \A r \in prunes' : \A i \in 1..Len(r.queue) : r.topic = t /\ r.queue[i].out = c =>
          r = q /\ i = 1 /\ r.queue[i] = h
    <3>1. \A r \in prunes' : \A i \in 1..Len(r.queue) : r.topic = t /\ r.queue[i].out = c => r = q
      BY <1>3 DEF Queues
    <3>2. \A i \in 1..Len(q.queue) : i = 1 /\ q.queue[i] = h
      BY <2>1
    <3> QED BY <3>1, <3>2
  <2>3. rows[t][c].by = {}
    BY DEF Free, Quiet
  <2>4. Stored(t, c)' /\ rows'[t][c].by = {} /\ h.by = {} /\ h.consumed = rows'[t][c].consumed
    BY <1>4, <2>1, <2>3
  <2> QED BY <1>3, <2>2, <2>4, QueueNext
<1> QED BY <1>6, <1>7, <1>8 DEF OutputKept

LEMMA RootsKeep ==
    ASSUME JobInv, AllKept, job # Idle => CoinsKept(job), NextTopic, job.topics # <<>>,
           Changing(Head(job.topics))
    PROVE  AllKept' /\ CoinsKept(job)'
<1>1. PICK j : j = job
  OBVIOUS
<1>2. PICK t : t = Head(j.topics)
  OBVIOUS
<1>3. /\ job # Idle /\ j \in Jobs /\ j.step = "mark" /\ j.todo = {} /\ CoinsKept(j)
      /\ j.topics # <<>> /\ j.topics \in Seq(Topics) /\ t \notin j.dupes \cup j.failed
      /\ rows' = rows /\ Distinct(j.topics) /\ t \in Topics /\ t = j.topics[1]
  BY <1>1, <1>2 DEF NextTopic, Mutating, JobInv, Jobs, Phase, Changing, storage
<1>4. /\ prunes' = prunes \cup {PruneOf(t, o) : o \in {x \in Stale(t) : Stored(t, x)}}
      /\ job' = [job EXCEPT !.step = "prune"]
  BY <1>1, <1>2 DEF NextTopic, Finish
<1>5. Stale(t) = j.verdict[t].coins \ j.verdict[t].retain
  BY <1>1 DEF Stale
<1>6. t \in Later(j)
  BY <1>3 DEF Later
<1>7. \A c \in j.verdict[t].coins : Stored(t, c) /\ Free(t, c) /\ ~Unspent(t, c) /\ c \in Outs
  BY <1>3, <1>6, LaterTyped DEF CoinsKept, LaterFree, LaterSpent
<1>8. \A r \in prunes' : r \in prunes \/ \E x \in Stale(t) : r = PruneOf(t, x)
  BY <1>4
<1>9. \A r \in prunes' : \A u, c : ~(u = t /\ c \in Stale(t)) =>
        r \in prunes \/ Untouched(r, u, c)
  BY <1>8, RootOf, RootTouches DEF Untouched
<1>10. \A r \in prunes' : \A c \in Stale(t) :
         r \in prunes \/ r = PruneOf(t, c) \/ Untouched(r, t, c)
  BY <1>8, RootOf, RootTouches DEF Untouched
<1>11. \A u \in Topics, c \in Outs : Same(u, c) /\ \A x \in Outs : Uses(u, x, c)' => Uses(u, x, c)
  BY <1>3 DEF Same, Uses, Stored, Unspent
<1>12. ASSUME NEW u \in Topics, NEW c \in Outs
       PROVE  OutputKept(u, c)'
  <2>1. CASE u = t /\ c \in Stale(t)
    <3>1. Free(t, c) /\ Stored(t, c) /\ ~Unspent(t, c)
      BY <1>5, <1>7, <2>1
    <3>2. OutputKept(t, c)'
      BY <1>3, <1>10, <2>1, <3>1, RootKept
    <3> QED BY <2>1, <3>2
  <2>2. CASE ~(u = t /\ c \in Stale(t))
    <3>1. Fewer(u, c) /\ OutputKept(u, c)
      BY <1>9, <2>2 DEF Fewer, AllKept
    <3> QED BY <1>11, <3>1, LessKept
  <2> QED BY <2>1, <2>2
<1>13. AllKept'
  BY <1>12 DEF AllKept
<1>14. PICK k : k = job'
  OBVIOUS
<1>15. /\ k \in Jobs /\ k.step = "prune" /\ k.topics = j.topics /\ k.todo = j.todo
       /\ k.verdict = j.verdict /\ k.dupes = j.dupes /\ k.failed = j.failed
  BY <1>1, <1>3, <1>4, <1>14 DEF Jobs
<1>16. Later(k) \subseteq Later(j) /\ Later(k) \subseteq Topics /\ t \notin Later(k)
  BY <1>3, <1>15 DEF Later, Distinct
<1>17. ASSUME NEW u \in Later(k), NEW c \in k.verdict[u].coins
       PROVE  /\ Stored(u, c)' /\ Free(u, c)'
              /\ u \notin k.dupes \cup k.failed => ~Unspent(u, c)'
  <2>1. u \in Later(j) /\ u \in Topics /\ c \in Outs /\ c \in j.verdict[u].coins /\ u # t
    BY <1>3, <1>15, <1>16, <1>17, LaterTyped
  <2>2. Stored(u, c) /\ Free(u, c) /\ (u \notin j.dupes \cup j.failed => ~Unspent(u, c))
    BY <1>3, <2>1 DEF CoinsKept, LaterFree, LaterSpent
  <2>3. Fewer(u, c) /\ Same(u, c) /\ \A x \in Outs : Uses(u, x, c)' => Uses(u, x, c)
    BY <1>9, <1>11, <2>1 DEF Fewer
  <2>4. Free(u, c)'
    BY <2>2, <2>3, LessFree
  <2> QED BY <1>15, <2>2, <2>3, <2>4 DEF Same
<1>18. LaterFree(k)'
  BY <1>17 DEF LaterFree, Later
<1>19. LaterSpent(k)'
  BY <1>17 DEF LaterSpent, Later
<1>20. RetainsCoins(k)
  BY <1>3, <1>15 DEF CoinsKept, RetainsCoins
<1>21. ASSUME NEW c \in k.verdict[t].retain
       PROVE  Own(k, t, c)'
  <2>1. c \in j.verdict[t].coins /\ c \notin Stale(t)
    BY <1>3, <1>5, <1>15, <1>21 DEF CoinsKept, RetainsCoins
  <2>2. Stored(t, c) /\ Free(t, c) /\ ~Unspent(t, c) /\ c \in Outs
    BY <1>7, <2>1
  <2>3. Own(k, t, c)
    BY <2>2 DEF Own, Free
  <2>4. Fewer(t, c) /\ Same(t, c)
    BY <1>3, <1>9, <1>11, <2>1, <2>2 DEF Fewer
  <2>5. \A x \in Outs : Uses(t, x, c)' => Uses(t, x, c) /\ (Unspent(t, x) => Unspent(t, x)')
    BY <1>3 DEF Uses, Stored, Unspent
  <2> QED BY <2>3, <2>4, <2>5, LessOwn
<1>22. Owned(k)'
  BY <1>2, <1>15, <1>21 DEF Owned, Retained
<1> QED BY <1>13, <1>14, <1>18, <1>19, <1>20, <1>22, JobCoins

(***************************************************************************)
(* insertOutput: the new output is nobody's ancestor, and was built on the *)
(* coins retained for it, which nobody has come to yet.                    *)
(***************************************************************************)
\* What an insertion comes to, by a submission j in topic t.
Insertion(j, t, o) ==
    /\ t \in Topics /\ o \in Outs /\ ~Stored(t, o) /\ Unspent(t, o)'
    /\ rows'[t][o].by = {} /\ rows'[t][o].consumed = j.verdict[t].retain
    /\ o \in j.verdict[t].admit
    /\ \A c \in j.verdict[t].retain : Own(j, t, c)
    /\ \A u \in Topics, x \in Outs : <<u, x>> # <<t, o>> => Alike(u, x)
    /\ prunes' = prunes

LEMMA InsertedUses ==
    ASSUME NEW j, NEW t, NEW o, Insertion(j, t, o), NEW x \in Outs, NEW c
    PROVE  /\ x # o => (Uses(t, x, c)' => Uses(t, x, c) /\ (Unspent(t, x) => Unspent(t, x)'))
           /\ Uses(t, o, c)' => c \in j.verdict[t].retain
<1>1. CASE x # o
  <2>1. t \in Topics /\ Alike(t, x)
    BY <1>1 DEF Insertion
  <2>2. Uses(t, x, c)' => Uses(t, x, c)
    BY <2>1, SameUses DEF Alike
  <2> QED BY <2>1, <2>2 DEF Alike, Insertion, Uses
<1>2. CASE x = o
  BY <1>2 DEF Insertion, Uses
<1> QED BY <1>1, <1>2

LEMMA InsertedKept ==
    ASSUME NEW j, NEW t, NEW o, Insertion(j, t, o), AllKept
    PROVE  OutputKept(t, o)'
<1>1. t \in Topics /\ o \in Outs /\ OutputKept(t, o) /\ ~Stored(t, o) /\ prunes' = prunes
  BY DEF Insertion, AllKept
<1>2. Free(t, o)
  BY <1>1 DEF OutputKept, Fresh
<1>3. \A p \in prunes' : ~Works(p, t, o) /\ ~Queues(p, t, o)
  BY <1>1, <1>2 DEF Free, Quiet, Works
<1>4. o \notin j.verdict[t].retain
  BY <1>1 DEF Insertion, Own
<1>5. \A x \in Outs : ~Uses(t, x, o)'
  BY <1>1, <1>2, <1>4, InsertedUses DEF Free
<1>6. rows'[t][o].by = {}
  BY DEF Insertion
<1>7. Quiet(t, o)'
  BY <1>3, <1>6, QuietNext DEF Works
<1>8. Free(t, o)'
  BY <1>3, <1>5, <1>7, FreeNext DEF Works
<1>9. Fresh(t, o)' /\ UserKept(t, o)'
  BY <1>5, <1>8 DEF Fresh, UserKept
<1>10. PruneKept(t, o)'
  BY <1>3, PruneNext DEF Apart, Entitled, Works, Holds, Seeks
<1>11. QueueKept(t, o)'
  BY <1>3, QueueNext DEF Queues
<1> QED BY <1>9, <1>10, <1>11 DEF OutputKept

\* A coin retained for the new output.
LEMMA RetainedKept ==
    ASSUME NEW j, NEW t, NEW o, Insertion(j, t, o), AllKept, NEW c \in Outs, c # o,
           Own(j, t, c)
    PROVE  OutputKept(t, c)' /\ Own(j, t, c)'
<1>1. t \in Topics /\ o \in Outs /\ Same(t, c) /\ prunes' = prunes
  BY DEF Insertion, Alike
<1>2. Stored(t, c)' /\ ~Unspent(t, c)'
  BY <1>1 DEF Own, Same
<1>3. \A p \in prunes' : ~Works(p, t, c) /\ ~Queues(p, t, c)
  BY <1>1 DEF Own, Quiet, Works
<1>4. Quiet(t, c)'
  BY <1>1, <1>3, QuietNext DEF Own, Quiet, Same, Works
<1>5. ASSUME NEW x \in Outs, Uses(t, x, c)'
      PROVE  x \in j.verdict[t].admit /\ Unspent(t, x)'
  <2>1. CASE x = o
    BY <2>1 DEF Insertion
  <2>2. CASE x # o
    BY <1>5, <2>2, InsertedUses DEF Own
  <2> QED BY <2>1, <2>2
<1>6. Own(j, t, c)'
  BY <1>2, <1>3, <1>4, <1>5, OwnNext DEF Works
<1>7. Fresh(t, c)'
  BY <1>2 DEF Fresh
<1>8. UserKept(t, c)'
  BY <1>3, <1>4, UserNext DEF Spares, Works, Holds
<1>9. PruneKept(t, c)'
  BY <1>3, PruneNext DEF Apart, Entitled, Works, Holds, Seeks
<1>10. QueueKept(t, c)'
  BY <1>3, QueueNext DEF Queues
<1> QED BY <1>6, <1>7, <1>8, <1>9, <1>10 DEF OutputKept

LEMMA InsertionKeeps ==
    ASSUME NEW j, NEW t, NEW o, Insertion(j, t, o), AllKept
    PROVE  /\ AllKept' /\ FreeStays(Topics \ {t})
           /\ \A c \in Outs : Own(j, t, c) => Own(j, t, c)'
<1>1. ASSUME NEW u \in Topics, NEW c \in Outs
      PROVE  /\ OutputKept(u, c)'
             /\ Stored(u, c) => Stored(u, c)' /\ (Unspent(u, c)' => Unspent(u, c))
             /\ u # t /\ Free(u, c) => Free(u, c)'
             /\ u = t /\ Own(j, t, c) => Own(j, t, c)'
  <2>0. OutputKept(u, c) /\ prunes' = prunes /\ t \in Topics /\ o \in Outs
    BY DEF AllKept, Insertion
  <2>1. CASE u = t /\ c = o
    <3>1. OutputKept(t, o)' /\ ~Stored(t, o)
      BY InsertedKept DEF Insertion
    <3> QED BY <2>1, <3>1 DEF Own
  <2>2. CASE u = t /\ c # o /\ c \in j.verdict[t].retain
    <3>1. Own(j, t, c)
      BY <2>2 DEF Insertion
    <3>2. OutputKept(t, c)' /\ Own(j, t, c)'
      BY <2>2, <3>1, RetainedKept
    <3>3. Same(t, c)
      BY <2>0, <2>2 DEF Insertion, Alike
    <3> QED BY <2>2, <3>2, <3>3 DEF Same
  <2>3. CASE u # t \/ (c # o /\ c \notin j.verdict[t].retain)
    <3>1. Same(u, c) /\ Fewer(u, c)
      BY <2>0, <2>3 DEF Insertion, Alike, Fewer
    <3>2. \A x \in Outs : Uses(u, x, c)' => Uses(u, x, c) /\ (Unspent(u, x) => Unspent(u, x)')
      <4>1. CASE u # t
        BY <4>1, SameUses DEF Insertion, Alike
      <4>2. CASE u = t /\ c \notin j.verdict[t].retain
        BY <2>0, <4>2, InsertedUses
      <4> QED BY <2>3, <4>1, <4>2
    <3>3. OutputKept(u, c)'
      BY <2>0, <3>1, <3>2, LessKept
    <3>4. Free(u, c) => Free(u, c)'
      BY <3>1, <3>2, LessFree
    <3>5. Own(j, u, c) => Own(j, u, c)'
      BY <3>1, <3>2, LessOwn
    <3> QED BY <3>1, <3>3, <3>4, <3>5 DEF Same
  <2> QED BY <2>1, <2>2, <2>3
<1>2. AllKept'
  BY <1>1 DEF AllKept
<1>3. FreeStays(Topics \ {t})
  BY <1>1 DEF FreeStays
<1>4. t \in Topics
  BY DEF Insertion
<1> QED BY <1>1, <1>2, <1>3, <1>4

\* The submission in a topic, and that the topics to come are others.
LEMMA InTopic ==
    ASSUME JobInv, job # Idle, job.step \in {"prune", "admit", "record"}
    PROVE  /\ job \in Jobs /\ Head(job.topics) \in Topics /\ job.topics # <<>>
           /\ job.verdict[Head(job.topics)] \in Verdicts
           /\ job.verdict[Head(job.topics)].retain \subseteq Outs
           /\ Later(job) \subseteq Topics \ {Head(job.topics)}
           /\ TxOf[job.sub] \notin Outs
<1>1. /\ job \in Jobs /\ job.topics # <<>> /\ Distinct(job.topics)
      /\ job.topics \in Seq(Topics) /\ TxOf[job.sub] \in Txs
  BY JobTyped DEF JobInv, Phase, Jobs
<1>2. Head(job.topics) \in Topics /\ Head(job.topics) = job.topics[1]
  BY <1>1
<1>3. job.verdict[Head(job.topics)] \in Verdicts
  BY <1>1, <1>2 DEF Jobs
<1>4. Later(job) \subseteq Topics \ {Head(job.topics)}
  BY <1>1, <1>2 DEF Later, Distinct
<1> QED BY <1>1, <1>2, <1>3, <1>4, ValuesAssumption DEF Verdicts

LEMMA Inserting ==
    ASSUME RowsTyped, JobInv, job # Idle => CoinsKept(job), NEW o \in Outs,
           AdmitOutput(o), NEW j, NEW t, j = job, t = Head(j.topics), ~Stored(t, o)
    PROVE  Insertion(j, t, o)
<1>1. /\ job # Idle /\ j.step = "admit" /\ j.step \in {"prune", "admit", "record"}
      /\ j \in Jobs /\ t \in Topics /\ CoinsKept(j) /\ Phase(j) /\ o \in j.todo
      /\ j.verdict[t].retain \subseteq Outs /\ Later(j) \subseteq Topics \ {t}
      /\ job' = [job EXCEPT !.todo = @ \ {o}] /\ prunes' = prunes /\ ~Stored(t, o)
  BY InTopic DEF AdmitOutput, Mutating, JobInv
<1>2. PICK retain : retain = j.verdict[t].retain
  OBVIOUS
<1>3. rows' = [rows EXCEPT ![t][o] = [spentBy |-> {}, by |-> {}, consumed |-> retain]]
  BY <1>1, <1>2 DEF AdmitOutput
<1>4. Unspent(t, o)'
  BY <1>1, <1>2, <1>3, InsertRow
<1>5. /\ rows'[t][o] = [spentBy |-> {}, by |-> {}, consumed |-> retain]
      /\ \A u \in Topics, x \in Outs : <<u, x>> # <<t, o>> => rows'[u][x] = rows[u][x]
  BY <1>1, <1>3 DEF RowsTyped
<1>6. rows'[t][o].by = {} /\ rows'[t][o].consumed = retain
  BY <1>5
<1>7. \A u \in Topics, x \in Outs : <<u, x>> # <<t, o>> => Alike(u, x)
  BY <1>5 DEF Alike, Same, Stored, Unspent
<1>8. o \in j.verdict[t].admit
  BY <1>1 DEF Phase
<1>9. \A c \in j.verdict[t].retain : Own(j, t, c)
  BY <1>1 DEF CoinsKept, Owned, Retained
<1> QED BY <1>1, <1>2, <1>4, <1>6, <1>7, <1>8, <1>9 DEF Insertion

LEMMA InsertKeeps ==
    ASSUME RowsTyped, JobInv, AllKept, job # Idle => CoinsKept(job), NEW o \in Outs,
           AdmitOutput(o), ~Stored(Head(job.topics), o)
    PROVE  AllKept' /\ CoinsKept(job)'
<1>1. PICK j : j = job
  OBVIOUS
<1>2. PICK t : t = Head(j.topics)
  OBVIOUS
<1>3. /\ job # Idle /\ j.step = "admit" /\ j.step \in {"prune", "admit", "record"}
      /\ j \in Jobs /\ t \in Topics /\ CoinsKept(j)
      /\ j.verdict[t].retain \subseteq Outs /\ Later(j) \subseteq Topics \ {t}
      /\ job' = [job EXCEPT !.todo = @ \ {o}]
  BY <1>1, <1>2, InTopic DEF AdmitOutput, Mutating, JobInv
<1>4. \A c \in j.verdict[t].retain : Own(j, t, c)
  BY <1>2, <1>3 DEF CoinsKept, Owned, Retained
<1>5. Insertion(j, t, o)
  BY <1>1, <1>2, Inserting
<1>6. /\ AllKept' /\ FreeStays(Topics \ {t})
      /\ \A c \in Outs : Own(j, t, c) => Own(j, t, c)'
  BY <1>5, InsertionKeeps
<1>7. FreeStays(Later(job))
  BY <1>1, <1>3, <1>6 DEF FreeStays
<1>8. PICK todo : todo = job.todo \ {o}
  OBVIOUS
<1>9. /\ todo \in SUBSET (Topics \cup (Topics \X Outs) \cup Outs \cup Txs)
      /\ job' = [job EXCEPT !.step = "admit", !.todo = todo]
  BY <1>1, <1>3, <1>8 DEF Jobs
<1>10. \A c \in j.verdict[Head(j.topics)].retain : Own(j, Head(j.topics), c)'
  BY <1>2, <1>3, <1>4, <1>6
<1>11. PICK step : step = "admit"
  OBVIOUS
<1>12. /\ step \in {"prune", "admit", "record"} /\ step # "record"
       /\ job' = [job EXCEPT !.step = step, !.todo = todo]
  BY <1>9, <1>11
<1>13. CoinsKept(job)'
  BY <1>1, <1>3, <1>7, <1>9, <1>10, <1>12, CoinsWithin
<1> QED BY <1>6, <1>13

(***************************************************************************)
(* updateConsumedOutput: a retained coin gets its references.              *)
(***************************************************************************)
\* What that comes to, by a submission j in topic t.
Updates(j, t, o) ==
    /\ t \in Topics /\ o \in Outs /\ o \in j.verdict[t].retain /\ Own(j, t, o)
    /\ rows'[t][o].by = rows[t][o].by \cup j.verdict[t].admit
    /\ \A u \in Topics, x \in Outs : <<u, x>> # <<t, o>> => Alike(u, x)
    /\ \A u \in Topics, x, c \in Outs : Uses(u, x, c)' <=> Uses(u, x, c)
    /\ \A u \in Topics, x \in Outs : rows'[u][x].consumed = rows[u][x].consumed
    /\ RowsKept /\ prunes' = prunes

LEMMA Updating ==
    ASSUME RowsTyped, JobInv, job # Idle => CoinsKept(job), NEW o \in Outs,
           UpdateConsumedOutput(o), NEW j, NEW t, j = job, t = Head(j.topics)
    PROVE  Updates(j, t, o)
<1>1. /\ job # Idle /\ j.step = "record" /\ t \in Topics /\ CoinsKept(j) /\ o \in j.todo
      /\ j.verdict[t].retain \subseteq Outs /\ prunes' = prunes
  BY InTopic DEF UpdateConsumedOutput, Mutating
<1>2. o \in j.verdict[t].retain
  BY <1>1 DEF CoinsKept, RetainsCoins
<1>3. Own(j, t, o)
  BY <1>1, <1>2 DEF CoinsKept, Owned, Retained
<1>4. Stored(t, o) /\ rows[t][o] \in Rows
  BY <1>1, <1>3 DEF Own, RowsTyped, Stored
<1>5. PICK r : r = [rows[t][o] EXCEPT !.by = @ \cup j.verdict[t].admit]
  OBVIOUS
<1>6. /\ r.by = rows[t][o].by \cup j.verdict[t].admit /\ r.consumed = rows[t][o].consumed
  BY <1>4, <1>5 DEF Rows
<1>7. /\ rows'[t][o] = r
      /\ \A u \in Topics, x \in Outs : <<u, x>> # <<t, o>> => rows'[u][x] = rows[u][x]
  <2>1. rows' = [rows EXCEPT ![t][o].by = @ \cup j.verdict[t].admit]
    BY <1>4 DEF UpdateConsumedOutput
  <2> QED BY <1>1, <1>5, <2>1 DEF RowsTyped
<1>8. RowsKept
  BY References
<1>9. \A u \in Topics, x \in Outs : <<u, x>> # <<t, o>> => Alike(u, x)
  BY <1>7 DEF Alike, Same, Stored, Unspent
<1>10. \A u \in Topics, x \in Outs : rows'[u][x].consumed = rows[u][x].consumed
  BY <1>6, <1>7
<1>11. \A u \in Topics, x, c \in Outs : Uses(u, x, c)' <=> Uses(u, x, c)
  BY <1>8, <1>10 DEF RowsKept, Uses
<1> QED BY <1>1, <1>2, <1>3, <1>6, <1>7, <1>8, <1>9, <1>10, <1>11 DEF Updates

LEMMA UpdateKeeps ==
    ASSUME RowsTyped, JobInv, AllKept, job # Idle => CoinsKept(job), NEW o \in Outs,
           UpdateConsumedOutput(o)
    PROVE  AllKept' /\ CoinsKept(job)'
<1>1. PICK j : j = job
  OBVIOUS
<1>2. PICK t : t = Head(j.topics)
  OBVIOUS
<1>3. /\ job # Idle /\ j.step = "record" /\ j.step \in {"prune", "admit", "record"}
      /\ j \in Jobs /\ t \in Topics /\ CoinsKept(j) /\ o \in j.todo
      /\ j.verdict[t].retain \subseteq Outs /\ Later(j) \subseteq Topics \ {t}
      /\ job' = [job EXCEPT !.todo = @ \ {o}] /\ prunes' = prunes
  BY <1>1, <1>2, InTopic DEF UpdateConsumedOutput, Mutating, JobInv
<1>4. \A c \in j.verdict[t].retain \cap j.todo : Own(j, t, c)
  BY <1>2, <1>3 DEF CoinsKept, Owned, Retained
<1>5. Updates(j, t, o)
  BY <1>1, <1>2, Updating
<1>6. /\ o \in j.verdict[t].retain /\ Own(j, t, o) /\ RowsKept
      /\ Stored(t, o) /\ ~Unspent(t, o) /\ Quiet(t, o)
  BY <1>5 DEF Updates, Own
<1>7. rows'[t][o].by = rows[t][o].by \cup j.verdict[t].admit
  BY <1>5 DEF Updates
<1>8. \A u \in Topics, x \in Outs : <<u, x>> # <<t, o>> => Alike(u, x)
  BY <1>5 DEF Updates
<1>9. \A u \in Topics, x, c \in Outs : Uses(u, x, c)' => Uses(u, x, c)
  BY <1>5 DEF Updates
<1>10. ASSUME NEW u \in Topics, NEW c \in Outs, <<u, c>> # <<t, o>>
       PROVE  /\ OutputKept(u, c)'
              /\ Free(u, c) => Free(u, c)'
              /\ Own(j, u, c) => Own(j, u, c)'
  <2>1. OutputKept(u, c) /\ Same(u, c) /\ Fewer(u, c)
    BY <1>3, <1>8, <1>10 DEF AllKept, Alike, Fewer
  <2>2. \A x \in Outs : Uses(u, x, c)' => Uses(u, x, c) /\ (Unspent(u, x) => Unspent(u, x)')
    BY <1>6, <1>9 DEF RowsKept
  <2> QED BY <2>1, <2>2, LessKept, LessFree, LessOwn
<1>11. OutputKept(t, o)'
  <2>1. Stored(t, o)' /\ ~Unspent(t, o)'
    BY <1>3, <1>6 DEF RowsKept
  <2>2. \A p \in prunes' : ~Works(p, t, o) /\ ~Queues(p, t, o)
    BY <1>3, <1>6 DEF Own, Quiet, Works
  <2>3. \A x \in Outs : Uses(t, x, o)' => x \in rows'[t][o].by
    BY <1>3, <1>6, <1>7, <1>9 DEF Own
  <2>4. UserKept(t, o)'
    BY <2>2, <2>3, UserNext DEF Spares, Works, Holds
  <2>5. Fresh(t, o)'
    BY <2>1 DEF Fresh
  <2>6. PruneKept(t, o)'
    BY <2>2, PruneNext DEF Apart, Entitled, Works, Holds, Seeks
  <2>7. QueueKept(t, o)'
    BY <2>2, QueueNext DEF Queues
  <2> QED BY <2>4, <2>5, <2>6, <2>7 DEF OutputKept
<1>12. AllKept'
  BY <1>10, <1>11 DEF AllKept
<1>13. FreeStays(Later(job))
  <2>1. ASSUME NEW u \in Later(job), NEW c \in Outs, Stored(u, c), Free(u, c)
        PROVE  Stored(u, c)' /\ Free(u, c)' /\ (Unspent(u, c)' => Unspent(u, c))
    <3>1. u \in Topics /\ u # t
      BY <1>1, <1>3
    <3>2. Free(u, c)'
      BY <1>10, <2>1, <3>1
    <3> QED BY <1>6, <2>1, <3>1, <3>2 DEF RowsKept
  <2> QED BY <2>1 DEF FreeStays
<1>14. PICK todo : todo = job.todo \ {o}
  OBVIOUS
<1>15. PICK step : step = "record"
  OBVIOUS
<1>16. /\ todo \in SUBSET (Topics \cup (Topics \X Outs) \cup Outs \cup Txs)
       /\ job' = [job EXCEPT !.step = step, !.todo = todo]
       /\ step \in {"prune", "admit", "record"}
  BY <1>1, <1>3, <1>14, <1>15 DEF Jobs
<1>17. todo \cap Outs \subseteq j.verdict[Head(j.topics)].retain
  BY <1>1, <1>3, <1>14 DEF CoinsKept, RetainsCoins
<1>18. \A c \in j.verdict[Head(j.topics)].retain :
         (step = "record" => c \in todo) => Own(j, Head(j.topics), c)'
  BY <1>1, <1>2, <1>3, <1>4, <1>10, <1>14, <1>15
<1>19. CoinsKept(job)'
  BY <1>1, <1>3, <1>13, <1>16, <1>17, <1>18, CoinsWithin
<1> QED BY <1>12, <1>19

\* The submission moves on within a topic, and the rows stay.
LEMMA CoinsCalm ==
    ASSUME JobInv, AllKept, job # Idle => CoinsKept(job), job # Idle,
           rows' = rows, prunes' \subseteq prunes,
           job.step \in {"prune", "admit", "record"},
           NEW step \in {"prune", "admit", "record"},
           NEW todo \in SUBSET (Topics \cup (Topics \X Outs) \cup Outs \cup Txs),
           job' = [job EXCEPT !.step = step, !.todo = todo],
           step = "record" => todo \cap Outs \subseteq job.verdict[Head(job.topics)].retain,
           job.step = "record" => step = "record" /\ todo \subseteq job.todo
    PROVE  AllKept' /\ CoinsKept(job)'
<1>1. PICK j : j = job
  OBVIOUS
<1>2. PICK t : t = Head(j.topics)
  OBVIOUS
<1>3. j \in Jobs /\ t \in Topics /\ j.verdict[t].retain \subseteq Outs
  BY <1>1, <1>2, InTopic
<1>4. AllKept' /\ Gentle
  BY CalmKeeps
<1>5. FreeStays(Later(job))
  BY <1>1, <1>3, <1>4, GentleStays
<1>6. ASSUME NEW c \in j.verdict[Head(j.topics)].retain, step = "record" => c \in todo
      PROVE  Own(j, Head(j.topics), c)'
  <2>1. c \in Retained(j)
    BY <1>1, <1>6 DEF Retained
  <2>2. Own(j, t, c) /\ c \in Outs
    BY <1>1, <1>2, <1>3, <1>6, <2>1 DEF CoinsKept, Owned
  <2> QED BY <1>2, <1>3, <1>4, <2>2 DEF Gentle
<1>7. /\ \A c \in j.verdict[Head(j.topics)].retain :
           (step = "record" => c \in todo) => Own(j, Head(j.topics), c)'
      /\ step = "record" => todo \cap Outs \subseteq j.verdict[Head(j.topics)].retain
  BY <1>1, <1>6
<1>8. CoinsKept(job)'
  BY <1>1, <1>5, <1>7, CoinsWithin
<1> QED BY <1>4, <1>8

-----------------------------------------------------------------------------
(***************************************************************************)
(* The theorem.                                                            *)
(***************************************************************************)
LEMMA HistoryStep ==
    ASSUME EngineInv, HistoryInv, Next, evicted = {}, evicted' = {}
    PROVE  HistoryInv'
<1> USE DEF storage, history
<1>1. /\ Shape /\ RowsTyped /\ JobInv /\ AllKept /\ evictions = {}
      /\ job # Idle => CoinsKept(job)
  BY DEF EngineInv, HistoryInv, Shape, EvictionsTyped
<1>2. ASSUME AllKept', Gentle, job' = job
      PROVE  HistoryInv'
  <2>1. job # Idle => job \in Jobs /\ RetainsCoins(job)
    BY <1>1 DEF JobInv, CoinsKept
  <2>2. job # Idle /\ job.step \in {"prune", "admit", "record"} => Head(job.topics) \in Topics
    BY <1>1, InTopic
  <2>3. job # Idle => CoinsKept(job)'
    BY <1>1, <1>2, <2>1, <2>2, CoinsStay
  <2> QED BY <1>2, <2>3 DEF HistoryInv
<1>3. ASSUME rows' = rows, prunes' \subseteq prunes, job' = Idle \/ job' = job
      PROVE  HistoryInv'
  <2>1. AllKept' /\ Gentle
    BY <1>1, <1>3, CalmKeeps
  <2> QED BY <1>2, <1>3, <2>1 DEF HistoryInv
<1>4. CASE Start
  <2>1. AllKept'
    BY <1>1, <1>4, CalmKeeps DEF Start
  <2> QED BY <1>4, <2>1, CoinsStart DEF HistoryInv
<1>5. ASSUME NEW t \in Topics, ValidateTopic(t)
      PROVE  HistoryInv'
  BY <1>1, <1>5, CoinsValidate DEF HistoryInv
<1>6. CASE Broadcast
  <2>1. /\ job # Idle /\ job.step = "validate" /\ rows' = rows /\ prunes' \subseteq prunes
        /\ Proceed \/ job' = Idle
    BY <1>6 DEF Broadcast, Finish
  <2>2. CASE Proceed
    <3>1. AllKept' /\ Gentle
      BY <1>1, <2>1, CalmKeeps
    <3>2. CoinsKept(job)'
      BY <1>1, <2>1, <2>2, <3>1, CoinsProceed
    <3> QED BY <3>1, <3>2 DEF HistoryInv
  <2> QED BY <1>3, <2>1, <2>2
<1>7. ASSUME NEW t \in Topics, NEW o \in Outs, MarkPreviousOutputSpent(t, o)
      PROVE  HistoryInv'
  <2>1. CASE Markable(t, o, TxOf[job.sub])
    BY <1>1, <1>7, <2>1, CoinsMark DEF HistoryInv
  <2>2. CASE ~Markable(t, o, TxOf[job.sub])
    BY <1>3, <1>7, <2>2 DEF MarkPreviousOutputSpent, Throw, Finish
  <2> QED BY <2>1, <2>2
<1>8. CASE NextTopic
  <2>1. /\ job # Idle /\ job \in Jobs /\ job.step = "mark" /\ job.todo = {} /\ rows' = rows
        /\ \/ prunes' = prunes /\ job' = Idle
           \/ /\ job.topics # <<>> /\ prunes' = prunes
              /\ job' = [job EXCEPT !.topics = Tail(@)]
           \/ job.topics # <<>> /\ Changing(Head(job.topics))
    BY <1>1, <1>8 DEF NextTopic, Mutating, Finish, JobInv
  <2>2. CASE /\ job.topics # <<>> /\ prunes' = prunes
             /\ job' = [job EXCEPT !.topics = Tail(@)]
    <3>1. AllKept' /\ Gentle
      BY <1>1, <2>1, <2>2, CalmKeeps
    <3>2. job' = [job EXCEPT !.step = "mark", !.topics = Tail(@)]
      BY <2>1, <2>2 DEF Jobs
    <3>3. CoinsKept(job)'
      BY <1>1, <2>1, <2>2, <3>1, <3>2, CoinsNext
    <3> QED BY <3>1, <3>3 DEF HistoryInv
  <2>3. CASE job.topics # <<>> /\ Changing(Head(job.topics))
    BY <1>1, <1>8, <2>3, RootsKeep DEF HistoryInv
  <2> QED BY <1>3, <2>1, <2>2, <2>3
<1>9. ASSUME job # Idle, job.step \in {"prune", "admit", "record"}, rows' = rows,
             prunes' \subseteq prunes,
             NEW step \in {"prune", "admit", "record"},
             NEW todo \in SUBSET (Topics \cup (Topics \X Outs) \cup Outs \cup Txs),
             job' = [job EXCEPT !.step = step, !.todo = todo],
             step = "record" => todo \cap Outs \subseteq job.verdict[Head(job.topics)].retain,
             job.step = "record" => step = "record" /\ todo \subseteq job.todo
      PROVE  HistoryInv'
  BY <1>1, <1>9, CoinsCalm DEF HistoryInv
<1>10. CASE StaleRemoved
  <2>1. /\ job # Idle /\ job.step = "prune" /\ rows' = rows /\ prunes' \subseteq prunes
        /\ job.step \in {"prune", "admit", "record"} /\ job \in Jobs
    BY <1>1, <1>10 DEF StaleRemoved, Mutating, JobInv
  <2>2. PICK step : step = "admit"
    OBVIOUS
  <2>3. PICK todo : todo = job.todo \cup job.verdict[Head(job.topics)].admit
    OBVIOUS
  <2>4. /\ job' = [job EXCEPT !.step = step, !.todo = todo]
        /\ step \in {"prune", "admit", "record"} /\ step # "record"
    BY <1>10, <2>1, <2>2, <2>3 DEF StaleRemoved
  <2>5. todo \in SUBSET (Topics \cup (Topics \X Outs) \cup Outs \cup Txs)
    BY <1>1, <2>1, <2>3, InTopic DEF Verdicts, Jobs
  <2> QED BY <1>9, <2>1, <2>4, <2>5
<1>11. ASSUME NEW o \in Outs, AdmitOutput(o)
       PROVE  HistoryInv'
  <2>1. CASE ~Stored(Head(job.topics), o)
    BY <1>1, <1>11, <2>1, InsertKeeps DEF HistoryInv
  <2>2. CASE Stored(Head(job.topics), o)
    <3>1. /\ job # Idle /\ job.step = "admit" /\ rows' = rows /\ prunes' \subseteq prunes
          /\ job.step \in {"prune", "admit", "record"} /\ job \in Jobs
      BY <1>1, <1>11, <2>2 DEF AdmitOutput, Mutating, JobInv
    <3>2. PICK step : step = "admit"
      OBVIOUS
    <3>3. PICK todo : todo = job.todo \ {o}
      OBVIOUS
    <3>4. /\ job' = [job EXCEPT !.step = step, !.todo = todo]
          /\ step \in {"prune", "admit", "record"} /\ step # "record"
      BY <1>11, <3>1, <3>2, <3>3 DEF AdmitOutput, Jobs
    <3>5. todo \in SUBSET (Topics \cup (Topics \X Outs) \cup Outs \cup Txs)
      BY <3>1, <3>3 DEF Jobs
    <3> QED BY <1>9, <3>1, <3>4, <3>5
  <2> QED BY <2>1, <2>2
<1>12. CASE AllAdmitted
  <2>1. /\ job # Idle /\ job.step = "admit" /\ rows' = rows /\ prunes' \subseteq prunes
        /\ job.step \in {"prune", "admit", "record"} /\ job \in Jobs
    BY <1>1, <1>12 DEF AllAdmitted, Mutating, JobInv
  <2>2. PICK step : step = "record"
    OBVIOUS
  <2>3. PICK todo : todo = job.verdict[Head(job.topics)].retain \cup {TxOf[job.sub]}
    OBVIOUS
  <2>4. /\ job' = [job EXCEPT !.step = step, !.todo = todo]
        /\ step \in {"prune", "admit", "record"}
    BY <1>12, <2>2, <2>3 DEF AllAdmitted
  <2>5. /\ todo \in SUBSET (Topics \cup (Topics \X Outs) \cup Outs \cup Txs)
        /\ todo \cap Outs \subseteq job.verdict[Head(job.topics)].retain
    BY <1>1, <2>1, <2>3, InTopic, JobTyped
  <2> QED BY <1>9, <2>1, <2>4, <2>5
<1>13. ASSUME NEW o \in Outs, UpdateConsumedOutput(o)
       PROVE  HistoryInv'
  BY <1>1, <1>13, UpdateKeeps DEF HistoryInv
<1>14. CASE InsertAppliedTransaction
  <2>1. /\ job # Idle /\ job.step = "record" /\ rows' = rows /\ prunes' \subseteq prunes
        /\ job.step \in {"prune", "admit", "record"} /\ job \in Jobs /\ CoinsKept(job)
    BY <1>1, <1>14 DEF InsertAppliedTransaction, Mutating, JobInv
  <2>2. PICK step : step = "record"
    OBVIOUS
  <2>3. PICK todo : todo = job.todo \ {TxOf[job.sub]}
    OBVIOUS
  <2>4. /\ job' = [job EXCEPT !.step = step, !.todo = todo]
        /\ step \in {"prune", "admit", "record"}
    BY <1>14, <2>1, <2>2, <2>3 DEF InsertAppliedTransaction, Jobs
  <2>5. /\ todo \in SUBSET (Topics \cup (Topics \X Outs) \cup Outs \cup Txs)
        /\ todo \subseteq job.todo
        /\ todo \cap Outs \subseteq job.verdict[Head(job.topics)].retain
    BY <2>1, <2>3 DEF Jobs, CoinsKept, RetainsCoins
  <2> QED BY <1>9, <2>1, <2>2, <2>4, <2>5
<1>15. CASE TopicApplied
  <2>1. /\ job # Idle /\ job.step = "record" /\ rows' = rows /\ prunes' \subseteq prunes
        /\ job.step \in {"prune", "admit", "record"}
        /\ job' = [job EXCEPT !.step = "mark", !.topics = Tail(@)]
    BY <1>15 DEF TopicApplied, Mutating
  <2>2. AllKept' /\ Gentle
    BY <1>1, <2>1, CalmKeeps
  <2>3. CoinsKept(job)'
    BY <1>1, <2>1, <2>2, InTopic, CoinsNext
  <2> QED BY <2>2, <2>3 DEF HistoryInv
<1>16. ASSUME NEW p \in prunes, Prune(p)
       PROVE  HistoryInv'
  <2>1. job' = job
    BY <1>16 DEF Prune, PruneDelete, PruneRead, PruneWrite
  <2>2. AllKept' /\ Gentle
    BY <1>1, <1>16, DeleteKeeps, ReadKeeps, WriteKeeps DEF Prune
  <2> QED BY <1>2, <2>1, <2>2
<1>17. CASE Refuse \/ StorageFails
  BY <1>3, <1>17 DEF Refuse, StorageFails, Throw, Finish
<1>18. CASE Crash
  BY <1>3, <1>18 DEF Crash
<1>19. ASSUME NEW s \in Subs, Submit(s)
       PROVE  HistoryInv'
  BY <1>3, <1>19 DEF Submit
<1>20. ASSUME NEW p \in prunes, PruneFails(p)
       PROVE  HistoryInv'
  <2>1. rows' = rows /\ prunes' \subseteq prunes /\ (job' = job \/ job' = Idle)
    BY <1>20 DEF PruneFails, Finish
  <2> QED BY <1>3, <2>1
<1>21. ASSUME NEW tx \in Txs, NEW scope, Evict(tx, scope)
       PROVE  FALSE
  BY <1>21 DEF Evict
<1> QED
  BY <1>1, <1>4, <1>5, <1>6, <1>7, <1>8, <1>10, <1>11, <1>12, <1>13, <1>14, <1>15, <1>16,
     <1>17, <1>18, <1>19, <1>20, <1>21
     DEF Next, EngineStep

LEMMA EvictedGrows ==
    ASSUME Next
    PROVE  evicted \subseteq evicted'
<1> USE DEF history
<1>1. CASE EngineStep
  BY <1>1 DEF EngineStep, Start, ValidateTopic, Broadcast, MarkPreviousOutputSpent, NextTopic,
              StaleRemoved, AdmitOutput, AllAdmitted, UpdateConsumedOutput,
              InsertAppliedTransaction, TopicApplied, Prune, PruneDelete, PruneRead, PruneWrite,
              EvictApplied, EvictOutput
<1>2. CASE Refuse \/ StorageFails \/ Crash \/ (\E s \in Subs : Submit(s))
           \/ (\E p \in prunes : PruneFails(p))
  BY <1>2 DEF Refuse, StorageFails, Crash, Submit, PruneFails
<1>3. ASSUME NEW tx \in Txs, NEW scope, Evict(tx, scope)
      PROVE  evicted \subseteq evicted'
  BY <1>3 DEF Evict
<1> QED BY <1>1, <1>2, <1>3 DEF Next

LEMMA HistoryInit ==
    ASSUME Init
    PROVE  HistoryInv
<1>1. /\ prunes = {} /\ job = Idle
      /\ \A t \in Topics, o \in Outs : ~Stored(t, o)
  BY DEF Init, Stored
<1>2. \A t \in Topics, c \in Outs : Free(t, c)
  BY <1>1 DEF Free, Quiet, Uses
<1>3. AllKept
  BY <1>1, <1>2 DEF AllKept, OutputKept, Fresh, UserKept, PruneKept, QueueKept, Uses
<1> QED BY <1>1, <1>3 DEF HistoryInv

\* A step that changes nothing.
LEMMA HistorySame ==
    ASSUME EngineInv, evicted = {} => HistoryInv, UNCHANGED vars
    PROVE  evicted' = {} => HistoryInv'
<1>1. rows' = rows /\ prunes' \subseteq prunes /\ job' = job /\ evicted' = evicted
  BY DEF vars, storage, history
<1>2. ASSUME HistoryInv
      PROVE  HistoryInv'
  <2>1. AllKept' /\ Gentle
    BY <1>1, <1>2, CalmKeeps DEF HistoryInv
  <2>2. job # Idle => job \in Jobs /\ RetainsCoins(job)
    BY <1>2 DEF HistoryInv, EngineInv, JobInv, CoinsKept
  <2>3. job # Idle /\ job.step \in {"prune", "admit", "record"} => Head(job.topics) \in Topics
    BY InTopic DEF EngineInv
  <2>4. job # Idle => CoinsKept(job)'
    BY <1>1, <1>2, <2>1, <2>2, <2>3, CoinsStay DEF HistoryInv
  <2> QED BY <1>1, <2>1, <2>4 DEF HistoryInv
<1> QED BY <1>1, <1>2

LEMMA EngineNext ==
    ASSUME EngineInv, Next
    PROVE  EngineInv'
BY RowsStep, TablesStep, PrunesStep, EvictionsStep, TurnsStep, JobStep, OutputsStep
   DEF EngineInv, Shape, Turns

\* As long as nothing is evicted, what deleteUTXODeep does, with any number of
\* calls at once, submissions cut short and retried, leaves every stored output
\* the history it was built on.
THEOREM HistoryStays == Spec => [](evicted = {} => HistoryKept)
<1> DEFINE Inv == EngineInv /\ (evicted = {} => HistoryInv)
<1>1. Init => Inv
  BY EngineInit, HistoryInit
<1>2. Inv /\ [Next]_vars => Inv'
  <2>1. ASSUME Inv, Next
        PROVE  Inv'
    BY <2>1, EngineNext, EvictedGrows, HistoryStep
  <2>2. ASSUME Inv, UNCHANGED vars
        PROVE  Inv'
    BY <2>2, EngineStays, HistorySame
  <2> QED BY <2>1, <2>2
<1>3. Inv => (evicted = {} => HistoryKept)
  <2> SUFFICES ASSUME Inv, evicted = {}, NEW t \in Topics, NEW o \in Outs, Stored(t, o),
                      NEW c \in rows[t][o].consumed
               PROVE  Stored(t, c)
    BY DEF HistoryKept
  <2>1. c \in Outs
    BY DEF EngineInv, Shape, RowsTyped, Rows, Stored
  <2>2. Uses(t, o, c)
    BY DEF Uses
  <2> QED BY <2>1, <2>2 DEF HistoryInv, AllKept, OutputKept, Fresh, Free
<1> QED BY <1>1, <1>2, <1>3, PTL DEF Spec

-----------------------------------------------------------------------------
(***************************************************************************)
(* The references in consumedBy, as long as nothing was interrupted or     *)
(* evicted and no two prunes held the same ancestor.                       *)
(***************************************************************************)
Plain == torn = {} /\ evicted = {} /\ ~crossed

\* Prunes are under way only while their submission waits for them.
Awaited == \A p \in prunes : job # Idle /\ job.step = "prune" /\ p.sub = job.sub

\* Output o is in topic t as submission j admits it.
Built(j, t, o) == Stored(t, o) /\ rows[t][o].consumed = j.verdict[t].retain

\* What the submission has admitted to the topic it is in is there, built on
\* the coins it retains: what it finds in the storage it has put there itself.
BuiltSoFar(j) ==
    j.step \in {"admit", "record"} =>
      \A o \in j.verdict[Head(j.topics)].admit :
        (j.step = "admit" /\ o \in j.todo) \/ Built(j, Head(j.topics), o)

\* The submission is still to write the references of coin c.
Owes(t, c) == job # Idle /\ c \in Retained(job) /\ t = Head(job.topics)

\* Every output built on c is in c's references, or the submission still is to
\* write them.
Listed(t, c) ==
    \A x \in Outs : Uses(t, x, c) => x \in rows[t][c].by \/ Owes(t, c)

\* Every reference is an output built on c, or a prune has deleted that output
\* and is to take the reference off.
Backed(t, c) ==
    \A y \in Outs : Stored(t, c) /\ y \in rows[t][c].by =>
      Uses(t, y, c) \/ \E p \in prunes : Works(p, t, c) /\ p.last = y

\* A prune holds one row, which no other prune holds, as it is in the storage
\* but for its own reference.
HeldAlone(t, c) == \A p, q \in prunes : Holds(p, t, c) /\ Holds(q, t, c) => p = q
HeldExact(p) ==
    \A h \in p.held : p.held = {h} /\ h.by = rows[p.topic][h.out].by \ {p.last}

RefsKept(t, c) == Backed(t, c) /\ HeldAlone(t, c)
AllBacked == \A t \in Topics, c \in Outs : RefsKept(t, c)
AllListed == \A t \in Topics, c \in Outs : Listed(t, c)
AllHeld == \A p \in prunes : HeldExact(p)

RefsInv ==
    /\ Awaited /\ AllBacked /\ AllHeld /\ AllListed
    /\ job # Idle => BuiltSoFar(job)

-----------------------------------------------------------------------------
\* The parts of the invariant, in the next state.
LEMMA BackedNext ==
    ASSUME NEW t, NEW c,
           \A y \in Outs : Stored(t, c)' /\ y \in rows'[t][c].by =>
             Uses(t, y, c)' \/ \E p \in prunes' : Works(p, t, c) /\ p.last = y
    PROVE  Backed(t, c)'
BY DEF Backed, Works, Seeks, Holds

LEMMA AloneNext ==
    ASSUME NEW t, NEW c,
           \A p, q \in prunes' : Holds(p, t, c) /\ Holds(q, t, c) => p = q
    PROVE  HeldAlone(t, c)'
BY DEF HeldAlone, Holds

LEMMA HeldNext ==
    ASSUME \A p \in prunes' : \A h \in p.held :
             p.held = {h} /\ h.by = rows'[p.topic][h.out].by \ {p.last}
    PROVE  AllHeld'
BY DEF AllHeld, HeldExact

LEMMA ListedNext ==
    ASSUME NEW t, NEW c,
           \A x \in Outs : Uses(t, x, c)' => x \in rows'[t][c].by \/ Owes(t, c)'
    PROVE  Listed(t, c)'
BY DEF Listed

LEMMA BuiltNext ==
    ASSUME NEW k, job' = k,
           k.step \in {"admit", "record"} =>
             \A o \in k.verdict[Head(k.topics)].admit :
               (k.step = "admit" /\ o \in k.todo) \/ Built(k, Head(k.topics), o)'
    PROVE  BuiltSoFar(job)'
BY DEF BuiltSoFar, Built

\* Steps that leave the references alone: a prune that is new holds nothing.
LEMMA StillBacked ==
    ASSUME AllBacked, AllHeld, PrunesTyped, \A t \in Topics, o \in Outs : Same(t, o),
           prunes \subseteq prunes',
           \A p \in prunes' : p \in prunes \/ p.held = {}
    PROVE  AllBacked' /\ AllHeld'
<1>1. ASSUME NEW t \in Topics, NEW c \in Outs
      PROVE  RefsKept(t, c)'
  <2>1. Backed(t, c) /\ HeldAlone(t, c) /\ Same(t, c)
    BY DEF AllBacked, RefsKept
  <2>2. ASSUME NEW y \in Outs, Stored(t, c)', y \in rows'[t][c].by
        PROVE  Uses(t, y, c)' \/ \E p \in prunes' : Works(p, t, c) /\ p.last = y
    <3>1. Stored(t, c) /\ y \in rows[t][c].by
      BY <2>1, <2>2 DEF Same
    <3>2. Uses(t, y, c) \/ \E p \in prunes : Works(p, t, c) /\ p.last = y
      BY <2>1, <3>1 DEF Backed
    <3>3. Uses(t, y, c)' <=> Uses(t, y, c)
      BY SameUses
    <3> QED BY <3>2, <3>3
  <2>3. Backed(t, c)'
    BY <2>2, BackedNext
  <2>4. \A p, q \in prunes' : Holds(p, t, c) /\ Holds(q, t, c) => p = q
    BY <2>1 DEF HeldAlone, Holds
  <2> QED BY <2>3, <2>4, AloneNext DEF RefsKept
<1>2. ASSUME NEW p \in prunes', NEW h \in p.held
      PROVE  p.held = {h} /\ h.by = rows'[p.topic][h.out].by \ {p.last}
  <2>1. p \in prunes /\ p.topic \in Topics /\ h.out \in Outs
    BY <1>2 DEF PrunesTyped, Prunes, Reads
  <2>2. Same(p.topic, h.out)
    BY <2>1
  <2> QED BY <1>2, <2>1, <2>2 DEF AllHeld, HeldExact, Same
<1>3. AllHeld'
  BY <1>2, HeldNext
<1> QED BY <1>1, <1>3 DEF AllBacked

\* And every output built on a coin stays listed, while the submission does not
\* give up a coin it owes references to.
LEMMA StillListed ==
    ASSUME AllListed, \A t \in Topics, o \in Outs : Same(t, o),
           \A t \in Topics, c \in Outs : Owes(t, c) => Owes(t, c)'
    PROVE  AllListed'
<1>1. ASSUME NEW t \in Topics, NEW c \in Outs
      PROVE  Listed(t, c)'
  <2>1. ASSUME NEW x \in Outs, Uses(t, x, c)'
        PROVE  x \in rows'[t][c].by \/ Owes(t, c)'
    <3>1. Uses(t, x, c)
      BY <2>1, SameUses
    <3>2. x \in rows[t][c].by \/ Owes(t, c)
      BY <3>1 DEF AllListed, Listed
    <3> QED BY <3>2 DEF Same
  <2> QED BY <2>1, ListedNext
<1> QED BY <1>1 DEF AllListed

(***************************************************************************)
(* A prune moves on.                                                       *)
(***************************************************************************)
LEMMA TakesBacked ==
    ASSUME NEW p \in prunes, NEW q, Takes(p, q), Leaves(p, q), NEW t, NEW c, Backed(t, c),
           \A y \in Outs : Stored(t, c)' /\ y \in rows'[t][c].by =>
             /\ Stored(t, c) /\ y \in rows[t][c].by
             /\ Uses(t, y, c) \/ (Works(p, t, c) /\ p.last = y) =>
                  Uses(t, y, c)' \/ (Works(q, t, c) /\ q.last = y)
    PROVE  Backed(t, c)'
<1>1. Works(q, t, c) => q \in prunes'
  BY DEF Works, Seeks, Holds, Leaves
<1>2. ASSUME NEW y \in Outs, Stored(t, c)', y \in rows'[t][c].by
      PROVE  Uses(t, y, c)' \/ \E r \in prunes' : Works(r, t, c) /\ r.last = y
  <2>1. Uses(t, y, c) \/ \E r \in prunes : Works(r, t, c) /\ r.last = y
    BY <1>2 DEF Backed
  <2>2. CASE Uses(t, y, c) \/ (Works(p, t, c) /\ p.last = y)
    BY <1>1, <1>2, <2>2
  <2>3. CASE \E r \in prunes \ {p} : Works(r, t, c) /\ r.last = y
    BY <2>3 DEF Leaves
  <2> QED BY <2>1, <2>2, <2>3
<1> QED BY <1>2, BackedNext

LEMMA TakesAlone ==
    ASSUME NEW p \in prunes, NEW q, Takes(p, q), NEW t, NEW c, HeldAlone(t, c),
           Holds(q, t, c) => Holds(p, t, c) \/ \A r \in prunes \ {p} : ~Holds(r, t, c)
    PROVE  HeldAlone(t, c)'
<1>1. \A r, s \in prunes' : Holds(r, t, c) /\ Holds(s, t, c) => r = s
  BY DEF HeldAlone, Takes
<1> QED BY <1>1, AloneNext

LEMMA TakesHeld ==
    ASSUME NEW p \in prunes, NEW q, Takes(p, q), AllHeld,
           \A r \in prunes \ {p} : \A h \in r.held :
             rows'[r.topic][h.out].by = rows[r.topic][h.out].by,
           \A h \in q.held : q.held = {h} /\ h.by = rows'[q.topic][h.out].by \ {q.last}
    PROVE  AllHeld'
BY HeldNext DEF AllHeld, HeldExact, Takes

LEMMA TakesAwaited ==
    ASSUME NEW p \in prunes, NEW q, Takes(p, q), q.sub = p.sub, Awaited, job' = job
    PROVE  Awaited' /\ (job # Idle => BuiltSoFar(job)')
BY DEF Awaited, Takes, BuiltSoFar

LEMMA DeleteBacks ==
    ASSUME Shape, AllKept, RefsInv, NEW p \in prunes, PruneDelete(p), job' = job
    PROVE  RefsInv'
<1>1. PICK q, t, x : Deletion(p, q, t, x)
  BY Deleting
<1>2. /\ t \in Topics /\ x \in Outs /\ p.topic = t /\ Takes(p, q) /\ Leaves(p, q)
      /\ p.refs = {} /\ p.held = {} /\ q.sub = p.sub
      /\ q.topic = t /\ q.last = x /\ q.refs = rows[t][x].consumed /\ q.held = {}
      /\ Stored(t, x) /\ ~Stored(t, x)'
  BY <1>1 DEF Deletion
<1>3. \A u \in Topics, o \in Outs : <<u, o>> # <<t, x>> => Same(u, o)
  BY <1>1 DEF Deletion, Alike
<1>4. ASSUME NEW u \in Topics, NEW c \in Outs
      PROVE  RefsKept(u, c)'
  <2>1. Backed(u, c) /\ HeldAlone(u, c)
    BY DEF RefsInv, AllBacked, RefsKept
  <2>2. ~Works(p, u, c) /\ ~Holds(q, u, c)
    BY <1>2 DEF Works, Seeks, Holds
  <2>3. ASSUME NEW y \in Outs, Stored(u, c)', y \in rows'[u][c].by
        PROVE  /\ Stored(u, c) /\ y \in rows[u][c].by
               /\ Uses(u, y, c) => Uses(u, y, c)' \/ (Works(q, u, c) /\ q.last = y)
    <3>1. Same(u, c)
      BY <1>2, <1>3, <2>3
    <3>2. CASE <<u, y>> = <<t, x>>
      BY <1>2, <2>3, <3>1, <3>2 DEF Same, Uses, Works, Seeks
    <3>3. CASE <<u, y>> # <<t, x>>
      BY <1>3, <2>3, <3>1, <3>3, SameUses DEF Same
    <3> QED BY <3>2, <3>3
  <2>4. Backed(u, c)'
    BY <1>2, <2>1, <2>2, <2>3, TakesBacked
  <2>5. HeldAlone(u, c)'
    BY <1>2, <2>1, <2>2, TakesAlone
  <2> QED BY <2>4, <2>5 DEF RefsKept
<1>5. AllHeld'
  <2>1. ASSUME NEW r \in prunes \ {p}, NEW h \in r.held
        PROVE  rows'[r.topic][h.out].by = rows[r.topic][h.out].by
    <3>1. r.topic \in Topics /\ h.out \in Outs
      BY <2>1 DEF Shape, PrunesTyped, Prunes, Reads
    <3>2. <<r.topic, h.out>> # <<t, x>>
      BY <1>1, <2>1 DEF Deletion, Works, Holds
    <3> QED BY <1>3, <3>1, <3>2 DEF Same
  <2> QED BY <1>2, <2>1, TakesHeld DEF RefsInv
<1>6. ASSUME NEW u \in Topics, NEW c \in Outs
      PROVE  Listed(u, c)'
  <2>1. ASSUME NEW y \in Outs, Uses(u, y, c)'
        PROVE  y \in rows'[u][c].by \/ Owes(u, c)'
    <3>1. Uses(u, y, c) /\ <<u, c>> # <<t, x>>
      <4>1. CASE u = t
        BY <1>1, <2>1, <4>1, DeletedUses DEF Deletion
      <4>2. CASE u # t
        BY <1>3, <2>1, <4>2, SameUses
      <4> QED BY <4>1, <4>2
    <3>2. y \in rows[u][c].by \/ Owes(u, c)
      BY <3>1 DEF RefsInv, AllListed, Listed
    <3> QED BY <1>3, <3>1, <3>2 DEF Same, Owes
  <2> QED BY <2>1, ListedNext
<1>7. Awaited' /\ (job # Idle => BuiltSoFar(job)')
  BY <1>2, TakesAwaited DEF RefsInv
<1> QED BY <1>4, <1>5, <1>6, <1>7 DEF RefsInv, AllBacked, AllListed

LEMMA ReadBacks ==
    ASSUME Shape, AllKept, RefsInv, NEW p \in prunes, NEW o \in Outs, PruneRead(p, o),
           job' = job, ~crossed'
    PROVE  RefsInv'
<1>1. PICK q, t : Reading(p, q, t, o)
  BY ReadsRow
<1>2. /\ t \in Topics /\ o \in Outs /\ p.topic = t /\ Takes(p, q) /\ Leaves(p, q)
      /\ p.held = {} /\ q.sub = p.sub
      /\ q.topic = t /\ q.last = p.last /\ q.refs = p.refs \ {o}
  BY <1>1 DEF Reading
<1>3. \A u \in Topics, c \in Outs : Same(u, c)
  BY <1>1 DEF Reading, Alike
<1>4. \A r \in prunes \ {p} : ~Holds(r, t, o)
  BY <1>2 DEF PruneRead, Holds
<1>5. ASSUME NEW u \in Topics, NEW c \in Outs
      PROVE  RefsKept(u, c)'
  <2>1. Backed(u, c) /\ HeldAlone(u, c) /\ Same(u, c)
    BY <1>3 DEF RefsInv, AllBacked, RefsKept
  <2>2. ASSUME NEW y \in Outs, Stored(u, c), y \in rows[u][c].by, Works(p, u, c), p.last = y
        PROVE  Works(q, u, c) /\ q.last = y
    <3>1. u = t /\ c \in p.refs
      BY <1>2, <2>2 DEF Works, Seeks, Holds
    <3>2. CASE c # o
      BY <1>2, <2>2, <3>1, <3>2 DEF Works, Seeks
    <3>3. CASE c = o
      BY <1>1, <1>2, <2>2, <3>1, <3>3 DEF Reading, Works, Holds
    <3> QED BY <3>2, <3>3
  <2>3. ASSUME NEW y \in Outs, Stored(u, c)', y \in rows'[u][c].by
        PROVE  /\ Stored(u, c) /\ y \in rows[u][c].by
               /\ Uses(u, y, c) => Uses(u, y, c)'
    BY <1>3, <2>1, <2>3, SameUses DEF Same
  <2>4. Backed(u, c)'
    BY <1>2, <2>1, <2>2, <2>3, TakesBacked
  <2>5. Holds(q, u, c) => u = t /\ c = o
    BY <1>1, <1>2 DEF Reading, Holds
  <2>6. HeldAlone(u, c)'
    BY <1>2, <1>4, <2>1, <2>5, TakesAlone
  <2> QED BY <2>4, <2>6 DEF RefsKept
<1>6. AllHeld'
  <2>1. ASSUME NEW r \in prunes, NEW h \in r.held
        PROVE  rows'[r.topic][h.out].by = rows[r.topic][h.out].by
    <3>1. r.topic \in Topics /\ h.out \in Outs
      BY <2>1 DEF Shape, PrunesTyped, Prunes, Reads
    <3> QED BY <1>3, <3>1 DEF Same
  <2>2. \A h \in q.held : q.held = {h} /\ h.by = rows'[q.topic][h.out].by \ {q.last}
    BY <1>1, <1>2, <1>3 DEF Reading, Same
  <2> QED BY <1>2, <2>1, <2>2, TakesHeld DEF RefsInv
<1>7. AllListed'
  BY <1>3, StillListed DEF RefsInv, Owes
<1>8. Awaited' /\ (job # Idle => BuiltSoFar(job)')
  BY <1>2, TakesAwaited DEF RefsInv
<1> QED BY <1>5, <1>6, <1>7, <1>8 DEF RefsInv, AllBacked

LEMMA WriteBacks ==
    ASSUME Shape, AllKept, RefsInv, NEW p \in prunes, PruneWrite(p), job' = job
    PROVE  RefsInv'
<1>1. PICK q, t, o, h : Writing(p, q, t, o, h)
  BY Writes
<1>2. /\ t \in Topics /\ o \in Outs /\ p.topic = t /\ Takes(p, q) /\ Leaves(p, q)
      /\ q.sub = p.sub /\ q.topic = t /\ q.last = p.last /\ q.refs = p.refs /\ q.held = {}
      /\ h \in p.held /\ h.out = o /\ (Stored(t, o) => rows'[t][o].by = h.by)
  BY <1>1 DEF Writing
<1>3. \A u \in Topics, c \in Outs : <<u, c>> # <<t, o>> => Same(u, c)
  BY <1>1 DEF Writing, Alike
<1>4. \A u \in Topics, x, c \in Outs : Uses(u, x, c)' <=> Uses(u, x, c)
  BY <1>1 DEF Writing, Uses
<1>5. /\ Holds(p, t, o) /\ p.held = {h} /\ h.by = rows[t][o].by \ {p.last}
      /\ \A r \in prunes \ {p} : ~Holds(r, t, o)
  BY <1>2 DEF RefsInv, AllHeld, HeldExact, AllBacked, RefsKept, HeldAlone, Holds
<1>6. ASSUME NEW u \in Topics, NEW c \in Outs
      PROVE  RefsKept(u, c)'
  <2>1. Backed(u, c) /\ HeldAlone(u, c)
    BY DEF RefsInv, AllBacked, RefsKept
  <2>2. ASSUME NEW y \in Outs, Stored(u, c)', y \in rows'[u][c].by
        PROVE  /\ Stored(u, c) /\ y \in rows[u][c].by
               /\ Works(p, u, c) /\ p.last = y => Works(q, u, c) /\ q.last = y
    <3>1. Stored(u, c)
      BY <1>1, <2>2 DEF Writing
    <3>2. CASE <<u, c>> = <<t, o>>
      BY <1>2, <1>5, <2>2, <3>1, <3>2
    <3>3. CASE <<u, c>> # <<t, o>>
      <4>1. Works(p, u, c) => Works(q, u, c)
        BY <1>2, <1>5, <3>3 DEF Works, Seeks, Holds
      <4> QED BY <1>2, <1>3, <2>2, <3>1, <3>3, <4>1 DEF Same
    <3> QED BY <3>2, <3>3
  <2>3. Backed(u, c)'
    BY <1>2, <1>4, <2>1, <2>2, TakesBacked
  <2>4. HeldAlone(u, c)'
    BY <1>2, <2>1, TakesAlone DEF Holds
  <2> QED BY <2>3, <2>4 DEF RefsKept
<1>7. AllHeld'
  <2>1. ASSUME NEW r \in prunes \ {p}, NEW g \in r.held
        PROVE  rows'[r.topic][g.out].by = rows[r.topic][g.out].by
    <3>1. r.topic \in Topics /\ g.out \in Outs
      BY <2>1 DEF Shape, PrunesTyped, Prunes, Reads
    <3>2. <<r.topic, g.out>> # <<t, o>>
      BY <1>5, <2>1 DEF Holds
    <3> QED BY <1>3, <3>1, <3>2 DEF Same
  <2> QED BY <1>2, <2>1, TakesHeld DEF RefsInv
<1>8. ASSUME NEW u \in Topics, NEW c \in Outs
      PROVE  Listed(u, c)'
  <2>1. ASSUME NEW y \in Outs, Uses(u, y, c)'
        PROVE  y \in rows'[u][c].by \/ Owes(u, c)'
    <3>1. Uses(u, y, c)
      BY <1>4, <2>1
    <3>2. CASE <<u, c>> = <<t, o>>
      <4>1. OutputKept(t, o) /\ Spares(p, t, y, o)
        BY <1>2, <3>1, <3>2 DEF AllKept, OutputKept, UserKept
      <4>2. Stored(t, o)
        BY <1>5, <4>1 DEF OutputKept, Fresh, Free, Quiet
      <4> QED BY <1>2, <3>2, <4>1, <4>2 DEF Spares
    <3>3. CASE <<u, c>> # <<t, o>>
      BY <1>3, <3>1, <3>3 DEF RefsInv, AllListed, Listed, Same, Owes
    <3> QED BY <3>2, <3>3
  <2> QED BY <2>1, ListedNext
<1>9. Awaited' /\ (job # Idle => BuiltSoFar(job)')
  BY <1>2, TakesAwaited DEF RefsInv
<1> QED BY <1>6, <1>7, <1>8, <1>9 DEF RefsInv, AllBacked, AllListed

(***************************************************************************)
(* The submission moves on.                                                *)
(***************************************************************************)
\* No prune is under way but in the step that waits for them.
LEMMA NoPrunes ==
    ASSUME Awaited, job # Idle => job.step # "prune"
    PROVE  prunes = {}
BY DEF Awaited

\* With no prune under way, and the references left alone.
LEMMA RefsMove ==
    ASSUME RefsInv, \A t \in Topics, o \in Outs : Same(t, o), prunes = {}, prunes' = {},
           NEW k, job' = k,
           \A t \in Topics, c \in Outs : Owes(t, c) => Owes(t, c)',
           k # Idle => BuiltSoFar(k)'
    PROVE  RefsInv'
<1>1. ASSUME NEW t \in Topics, NEW c \in Outs
      PROVE  RefsKept(t, c)'
  <2>1. Backed(t, c) /\ Same(t, c)
    BY DEF RefsInv, AllBacked, RefsKept
  <2>2. ASSUME NEW y \in Outs, Stored(t, c)', y \in rows'[t][c].by
        PROVE  Uses(t, y, c)'
    <3>1. Uses(t, y, c)
      BY <2>1, <2>2 DEF Same, Backed
    <3> QED BY <3>1, SameUses
  <2>3. Backed(t, c)'
    BY <2>2, BackedNext
  <2> QED BY <2>3, AloneNext DEF RefsKept
<1>2. AllHeld' /\ Awaited'
  BY DEF AllHeld, Awaited
<1>3. AllListed'
  BY StillListed DEF RefsInv
<1>4. job' # Idle => BuiltSoFar(job)'
  BY DEF BuiltSoFar, Built
<1> QED BY <1>1, <1>2, <1>3, <1>4 DEF RefsInv, AllBacked

\* To a step that writes no references.
LEMMA RefsPlain ==
    ASSUME RefsInv, \A t \in Topics, o \in Outs : Same(t, o), prunes' \subseteq prunes,
           job # Idle => job.step \in {"validate", "mark"} \/ (job.step = "record" /\ job.todo = {}),
           job' # Idle => job'.step \in {"validate", "mark"}
    PROVE  RefsInv'
<1>1. prunes = {} /\ prunes' = {}
  BY NoPrunes DEF RefsInv
<1>2. \A t \in Topics, c \in Outs : ~Owes(t, c)
  BY DEF Owes, Retained
<1>3. PICK k : k = job'
  OBVIOUS
<1>4. k # Idle => BuiltSoFar(k)'
  BY <1>3 DEF BuiltSoFar
<1> QED BY <1>1, <1>2, <1>3, <1>4, RefsMove

\* The submission does not move, nor do the prunes.
LEMMA RefsStay ==
    ASSUME Shape, RefsInv, rows' = rows, prunes' = prunes, job' = job
    PROVE  RefsInv'
<1>1. \A t \in Topics, o \in Outs : Same(t, o)
  BY DEF Same, Stored, Unspent
<1>2. AllBacked' /\ AllHeld'
  BY <1>1, StillBacked DEF RefsInv, Shape
<1>3. AllListed'
  BY <1>1, StillListed DEF RefsInv, Owes
<1>4. Awaited' /\ (job # Idle => BuiltSoFar(job)')
  BY DEF RefsInv, Awaited, BuiltSoFar, Built, Stored
<1> QED BY <1>2, <1>3, <1>4 DEF RefsInv

\* The prunes of a topic start.
LEMMA RootsBack ==
    ASSUME Shape, JobInv, RefsInv, NextTopic, job.topics # <<>>, Changing(Head(job.topics))
    PROVE  RefsInv'
<1>1. PICK t : t = Head(job.topics)
  OBVIOUS
<1>2. /\ job # Idle /\ job \in Jobs /\ job.step = "mark" /\ rows' = rows
      /\ prunes' = prunes \cup {PruneOf(t, o) : o \in {x \in Stale(t) : Stored(t, x)}}
      /\ job' = [job EXCEPT !.step = "prune"]
  BY <1>1 DEF NextTopic, Mutating, JobInv, Finish, storage
<1>3. job' # Idle /\ job'.step = "prune" /\ job'.sub = job.sub
  BY <1>2, ValuesAssumption DEF Jobs
<1>4. prunes = {}
  BY <1>2, NoPrunes DEF RefsInv
<1>5. \A p \in prunes' : p.held = {} /\ p.sub = job.sub
  BY <1>2, <1>4 DEF PruneOf
<1>6. \A u \in Topics, o \in Outs : Same(u, o)
  BY <1>2 DEF Same, Stored, Unspent
<1>7. AllBacked' /\ AllHeld'
  BY <1>4, <1>5, <1>6, StillBacked DEF RefsInv, Shape
<1>8. AllListed'
  BY <1>2, <1>6, StillListed DEF RefsInv, Owes, Retained
<1>9. Awaited' /\ BuiltSoFar(job)'
  BY <1>3, <1>5 DEF Awaited, BuiltSoFar
<1> QED BY <1>7, <1>8, <1>9 DEF RefsInv

\* An output that a submission comes to admit is not in the topic: its topic
\* has not recorded the transaction, and nobody was cut short admitting it.
LEMMA Unstored ==
    ASSUME EngineInv, Plain, NEW o \in Outs, AdmitOutput(o)
    PROVE  ~Stored(Head(job.topics), o)
<1>1. PICK t : t = Head(job.topics)
  OBVIOUS
<1>2. /\ job # Idle /\ job.step = "admit" /\ job \in Jobs /\ o \in job.todo
      /\ Phase(job) /\ Unrecorded(job)
  BY DEF AdmitOutput, Mutating, EngineInv, JobInv
<1>3. /\ t \in Topics /\ job.topics # <<>> /\ t \notin job.dupes \cup job.failed
      /\ o \in job.verdict[t].admit /\ job.topics \in Seq(Topics)
  BY <1>1, <1>2, InTopic DEF EngineInv, Phase, Jobs
<1>4. Maker[o] = TxOf[job.sub]
  BY <1>2, <1>3 DEF Phase, Made
<1>5. t \in Pending(job)
  <2>1. 1 \in 1..Len(job.topics) /\ job.topics[1] = t
    BY <1>1, <1>3
  <2> QED BY <1>2, <1>3, <2>1 DEF Pending
<1>6. TxOf[job.sub] \notin applied[t]
  BY <1>2, <1>5 DEF Unrecorded
<1>7. ~Admitting(t, o)
  BY <1>2 DEF Admitting
<1>8. Stored(t, o) => Maker[o] \in applied[t]
  BY <1>3, <1>7 DEF EngineInv, OutputsSound, Sound, Plain
<1> QED BY <1>1, <1>4, <1>6, <1>8

\* insertOutput: the coins the new output was built on are to be told.
LEMMA InsertBacks ==
    ASSUME EngineInv, HistoryInv, Plain, RefsInv, NEW o \in Outs, AdmitOutput(o)
    PROVE  RefsInv'
<1>1. PICK j : j = job
  OBVIOUS
<1>2. PICK t : t = Head(j.topics)
  OBVIOUS
<1>3. PICK k : k = job'
  OBVIOUS
<1>4. /\ j # Idle /\ j \in Jobs /\ j.step = "admit" /\ o \in j.todo
      /\ prunes' = prunes /\ prunes = {} /\ job' = [job EXCEPT !.todo = @ \ {o}]
      /\ AllKept /\ BuiltSoFar(j)
  BY <1>1, NoPrunes DEF AdmitOutput, Mutating, EngineInv, JobInv, HistoryInv, RefsInv
<1>5. /\ k \in Jobs /\ k.step = "admit" /\ k.topics = j.topics /\ k.todo = j.todo \ {o}
      /\ k.verdict = j.verdict
  BY <1>1, <1>3, <1>4 DEF Jobs
<1>6. Insertion(j, t, o)
  BY <1>1, <1>2, Unstored, Inserting DEF EngineInv, Shape, HistoryInv
<1>7. /\ t \in Topics /\ ~Stored(t, o) /\ Unspent(t, o)' /\ rows'[t][o].by = {}
      /\ rows'[t][o].consumed = j.verdict[t].retain
      /\ \A u \in Topics, x \in Outs : <<u, x>> # <<t, o>> => Same(u, x)
  BY <1>6 DEF Insertion, Alike
<1>8. ASSUME NEW u \in Topics, NEW x \in Outs, NEW c \in Outs, Uses(u, x, c)
      PROVE  Uses(u, x, c)' /\ <<u, c>> # <<t, o>>
  <2>1. <<u, x>> # <<t, o>>
    BY <1>7, <1>8 DEF Uses
  <2>2. Uses(u, x, c)'
    BY <1>7, <1>8, <2>1, SameUses
  <2>3. OutputKept(u, c)
    BY <1>4 DEF AllKept
  <2> QED BY <1>7, <1>8, <2>2, <2>3 DEF OutputKept, Fresh, Free
<1>9. ASSUME NEW u \in Topics, NEW c \in Outs
      PROVE  RefsKept(u, c)'
  <2>1. ASSUME NEW y \in Outs, Stored(u, c)', y \in rows'[u][c].by
        PROVE  Uses(u, y, c)'
    <3>1. <<u, c>> # <<t, o>> /\ Same(u, c)
      BY <1>7, <2>1
    <3>2. Uses(u, y, c)
      BY <1>4, <2>1, <3>1 DEF Same, RefsInv, AllBacked, RefsKept, Backed
    <3> QED BY <1>8, <3>2
  <2>2. Backed(u, c)'
    BY <2>1, BackedNext
  <2> QED BY <1>4, <2>2, AloneNext DEF RefsKept
<1>10. \A u, c : Owes(u, c) => Owes(u, c)'
  BY <1>1, <1>3, <1>4, <1>5, ValuesAssumption DEF Owes, Retained
<1>11. ASSUME NEW u \in Topics, NEW c \in Outs
       PROVE  Listed(u, c)'
  <2>1. ASSUME NEW y \in Outs, Uses(u, y, c)'
        PROVE  y \in rows'[u][c].by \/ Owes(u, c)'
    <3>1. CASE <<u, y>> = <<t, o>>
      <4>1. c \in k.verdict[Head(k.topics)].retain
        BY <1>2, <1>5, <1>7, <2>1, <3>1 DEF Uses
      <4> QED BY <1>2, <1>3, <1>5, <3>1, <4>1, ValuesAssumption DEF Owes, Retained
    <3>2. CASE <<u, y>> # <<t, o>>
      <4>1. Uses(u, y, c)
        BY <1>7, <2>1, <3>2, SameUses
      <4>2. Same(u, c) /\ (y \in rows[u][c].by \/ Owes(u, c))
        BY <1>7, <1>8, <4>1 DEF RefsInv, AllListed, Listed
      <4> QED BY <1>10, <4>2 DEF Same
    <3> QED BY <3>1, <3>2
  <2> QED BY <2>1, ListedNext
<1>12. ASSUME NEW x \in k.verdict[t].admit
       PROVE  x \in k.todo \/ Built(k, t, x)'
  <2>1. x \in Outs
    BY <1>5, <1>7, <1>12 DEF Jobs, Verdicts
  <2>2. CASE x = o
    BY <1>5, <1>7, <2>2 DEF Built, Unspent
  <2>3. CASE x # o
    <3>1. x \in j.todo \/ Built(j, t, x)
      BY <1>2, <1>4, <1>5, <1>12 DEF BuiltSoFar
    <3>2. Same(t, x)
      BY <1>7, <2>1, <2>3
    <3> QED BY <1>5, <2>3, <3>1, <3>2 DEF Built, Same
  <2> QED BY <2>2, <2>3
<1>13. BuiltSoFar(job)'
  BY <1>2, <1>3, <1>5, <1>12, BuiltNext
<1>14. AllHeld' /\ Awaited'
  BY <1>4 DEF AllHeld, Awaited
<1> QED BY <1>9, <1>11, <1>13, <1>14 DEF RefsInv, AllBacked, AllListed

\* updateConsumedOutput: every output it tells the coin of was built on it.
LEMMA UpdateBacks ==
    ASSUME EngineInv, HistoryInv, RefsInv, NEW o \in Outs, UpdateConsumedOutput(o)
    PROVE  RefsInv'
<1>1. PICK j : j = job
  OBVIOUS
<1>2. PICK t : t = Head(j.topics)
  OBVIOUS
<1>3. PICK k : k = job'
  OBVIOUS
<1>4. /\ j # Idle /\ j \in Jobs /\ j.step = "record"
      /\ prunes' = prunes /\ prunes = {} /\ job' = [job EXCEPT !.todo = @ \ {o}]
      /\ BuiltSoFar(j)
  BY <1>1, NoPrunes DEF UpdateConsumedOutput, Mutating, EngineInv, JobInv, RefsInv
<1>5. /\ k \in Jobs /\ k.step = "record" /\ k.topics = j.topics /\ k.todo = j.todo \ {o}
      /\ k.verdict = j.verdict
  BY <1>1, <1>3, <1>4 DEF Jobs
<1>6. Updates(j, t, o)
  BY <1>1, <1>2, Updating DEF EngineInv, Shape, HistoryInv
<1>7. /\ t \in Topics /\ o \in j.verdict[t].retain /\ Own(j, t, o)
      /\ rows'[t][o].by = rows[t][o].by \cup j.verdict[t].admit
      /\ \A u \in Topics, x \in Outs : <<u, x>> # <<t, o>> => Same(u, x)
      /\ \A u \in Topics, x, c \in Outs : Uses(u, x, c)' <=> Uses(u, x, c)
      /\ \A u \in Topics, x \in Outs : rows'[u][x].consumed = rows[u][x].consumed
      /\ RowsKept
  BY <1>6 DEF Updates, Alike
<1>8. \A x \in j.verdict[t].admit : Built(j, t, x) /\ x \in Outs
  BY <1>2, <1>4, <1>7 DEF BuiltSoFar, Jobs, Verdicts
<1>9. ASSUME NEW u \in Topics, NEW c \in Outs
      PROVE  RefsKept(u, c)'
  <2>1. ASSUME NEW y \in Outs, Stored(u, c)', y \in rows'[u][c].by
        PROVE  Uses(u, y, c)'
    <3>1. Stored(u, c)
      BY <1>7, <2>1 DEF RowsKept
    <3>2. y \in rows[u][c].by => Uses(u, y, c)
      BY <1>4, <3>1 DEF RefsInv, AllBacked, RefsKept, Backed
    <3>3. CASE <<u, c>> = <<t, o>> /\ y \in j.verdict[t].admit
      BY <1>7, <1>8, <3>3 DEF Built, Uses
    <3>4. CASE ~(<<u, c>> = <<t, o>> /\ y \in j.verdict[t].admit)
      BY <1>7, <2>1, <3>2, <3>4 DEF Same
    <3> QED BY <3>3, <3>4
  <2>2. Backed(u, c)'
    BY <2>1, BackedNext
  <2> QED BY <1>4, <2>2, AloneNext DEF RefsKept
<1>10. \A u, c : Owes(u, c) /\ <<u, c>> # <<t, o>> => Owes(u, c)'
  BY <1>1, <1>2, <1>3, <1>4, <1>5, ValuesAssumption DEF Owes, Retained
<1>11. ASSUME NEW u \in Topics, NEW c \in Outs
       PROVE  Listed(u, c)'
  <2>1. ASSUME NEW y \in Outs, Uses(u, y, c)'
        PROVE  y \in rows'[u][c].by \/ Owes(u, c)'
    <3>1. Uses(u, y, c)
      BY <1>7, <2>1
    <3>2. CASE <<u, c>> = <<t, o>>
      BY <1>7, <3>1, <3>2 DEF Own
    <3>3. CASE <<u, c>> # <<t, o>>
      BY <1>7, <1>10, <3>1, <3>3 DEF RefsInv, AllListed, Listed, Same
    <3> QED BY <3>2, <3>3
  <2> QED BY <2>1, ListedNext
<1>12. \A x \in k.verdict[t].admit : Built(k, t, x)'
  BY <1>5, <1>7, <1>8 DEF Built, RowsKept
<1>13. BuiltSoFar(job)'
  BY <1>2, <1>3, <1>5, <1>12, BuiltNext
<1>14. AllHeld' /\ Awaited'
  BY <1>4 DEF AllHeld, Awaited
<1> QED BY <1>9, <1>11, <1>13, <1>14 DEF RefsInv, AllBacked, AllListed

LEMMA PlainGrows ==
    ASSUME Next, Plain'
    PROVE  Plain
<1> USE DEF history, Plain
<1>1. CASE EngineStep
  <2>1. CASE Start \/ Broadcast \/ NextTopic \/ StaleRemoved \/ AllAdmitted
             \/ InsertAppliedTransaction \/ TopicApplied
    BY <2>1 DEF Start, Broadcast, NextTopic, StaleRemoved, AllAdmitted,
                InsertAppliedTransaction, TopicApplied
  <2>2. ASSUME NEW t \in Topics, ValidateTopic(t)
        PROVE  Plain
    BY <2>2 DEF ValidateTopic
  <2>3. ASSUME NEW t \in Topics, NEW o \in Outs, MarkPreviousOutputSpent(t, o)
        PROVE  Plain
    BY <2>3 DEF MarkPreviousOutputSpent, Throw
  <2>4. ASSUME NEW o \in Outs, AdmitOutput(o) \/ UpdateConsumedOutput(o)
        PROVE  Plain
    BY <2>4 DEF AdmitOutput, UpdateConsumedOutput
  <2>5. ASSUME NEW p \in prunes, PruneDelete(p) \/ PruneWrite(p)
        PROVE  Plain
    <3>1. torn' = torn /\ evicted' = evicted /\ crossed' = crossed
      BY <2>5, Zenon DEF PruneDelete, PruneWrite
    <3> QED BY <3>1
  <2>6. ASSUME NEW p \in prunes, NEW o \in Outs, PruneRead(p, o)
        PROVE  Plain
    <3>1. torn' = torn /\ evicted' = evicted /\ (crossed => crossed')
      BY <2>6, Zenon DEF PruneRead
    <3> QED BY <3>1
  <2>7. ASSUME NEW e \in evictions, NEW t \in Topics, EvictApplied(e, t)
        PROVE  Plain
    BY <2>7 DEF EvictApplied
  <2>8. ASSUME NEW e \in evictions, NEW t \in Topics, NEW o \in Outs, EvictOutput(e, t, o)
        PROVE  Plain
    BY <2>8 DEF EvictOutput
  <2> QED BY <1>1, <2>1, <2>2, <2>3, <2>4, <2>5, <2>6, <2>7, <2>8 DEF EngineStep, Prune
<1>2. CASE Refuse \/ StorageFails \/ Crash \/ (\E s \in Subs : Submit(s))
           \/ (\E p \in prunes : PruneFails(p))
  BY <1>2 DEF Refuse, StorageFails, Crash, Submit, PruneFails, Throw
<1>3. ASSUME NEW tx \in Txs, NEW scope, Evict(tx, scope)
      PROVE  Plain
  BY <1>3 DEF Evict
<1> QED BY <1>1, <1>2, <1>3 DEF Next

LEMMA RefsStep ==
    ASSUME EngineInv, HistoryInv, RefsInv, Next, Plain, Plain'
    PROVE  RefsInv'
<1> USE DEF storage, history
<1>1. /\ Shape /\ RowsTyped /\ JobInv /\ AllKept /\ evictions = {}
      /\ torn' = {} /\ evicted' = {} /\ ~crossed'
  BY DEF EngineInv, HistoryInv, Shape, EvictionsTyped, Plain
<1>2. rows' = rows => \A t \in Topics, o \in Outs : Same(t, o)
  BY DEF Same, Stored, Unspent
<1>3. CASE Start
  <2>1. job = Idle /\ job'.step = "validate" /\ rows' = rows /\ prunes' \subseteq prunes
    BY <1>3 DEF Start
  <2> QED BY <1>2, <2>1, RefsPlain
<1>4. ASSUME NEW t \in Topics, ValidateTopic(t)
      PROVE  RefsInv'
  <2>1. /\ job # Idle /\ job.step = "validate" /\ rows' = rows /\ prunes' \subseteq prunes
        /\ job \in Jobs
    BY <1>1, <1>4 DEF ValidateTopic, JobInv
  <2>2. PICK r : r = [job EXCEPT !.todo = @ \ {t}]
    OBVIOUS
  <2>3. r.step = "validate" /\ r \in Jobs
    BY <2>1, <2>2 DEF Jobs
  <2>4. job'.step = "validate"
    BY <1>4, <2>2, <2>3 DEF ValidateTopic, Jobs
  <2> QED BY <1>2, <2>1, <2>4, RefsPlain
<1>5. CASE Broadcast
  <2>1. /\ job # Idle /\ job.step = "validate" /\ rows' = rows /\ prunes' \subseteq prunes
        /\ (Proceed \/ job' = Idle)
        /\ job \in Jobs
    BY <1>1, <1>5 DEF Broadcast, Finish, JobInv
  <2>2. job' # Idle => job'.step = "mark"
    BY <1>1, <2>1 DEF Proceed, JobInv, Jobs
  <2> QED BY <1>2, <2>1, <2>2, RefsPlain
<1>6. ASSUME NEW t \in Topics, NEW o \in Outs, MarkPreviousOutputSpent(t, o)
      PROVE  RefsInv'
  <2>1. Markable(t, o, TxOf[job.sub])
    BY <1>1, <1>6 DEF MarkPreviousOutputSpent, Throw
  <2>2. /\ job # Idle /\ job.step = "mark" /\ job \in Jobs /\ prunes' \subseteq prunes
        /\ job' = [job EXCEPT !.todo = @ \ {<<t, o>>}]
    BY <1>1, <1>6, <2>1 DEF MarkPreviousOutputSpent, Mutating, JobInv
  <2>3. job'.step = "mark"
    BY <2>2 DEF Jobs
  <2>4. \A u \in Topics, x \in Outs : Same(u, x)
    BY <1>1, <1>6, <2>1, MarkSame
  <2> QED BY <2>2, <2>3, <2>4, RefsPlain
<1>7. CASE NextTopic
  <2>1. /\ job # Idle /\ job \in Jobs /\ job.step = "mark" /\ rows' = rows
        /\ \/ prunes' = prunes /\ job' = Idle
           \/ prunes' = prunes /\ job' = [job EXCEPT !.topics = Tail(@)]
           \/ job.topics # <<>> /\ Changing(Head(job.topics))
    BY <1>1, <1>7 DEF NextTopic, Mutating, Finish, JobInv
  <2>2. CASE prunes' = prunes /\ (job' = Idle \/ job' = [job EXCEPT !.topics = Tail(@)])
    <3>1. job' # Idle => job'.step = "mark"
      BY <2>1, <2>2 DEF Jobs
    <3> QED BY <1>2, <2>1, <2>2, <3>1, RefsPlain
  <2>3. CASE job.topics # <<>> /\ Changing(Head(job.topics))
    BY <1>1, <1>7, <2>3, RootsBack
  <2> QED BY <2>1, <2>2, <2>3
<1>8. CASE StaleRemoved
  <2>1. PICK j : j = job
    OBVIOUS
  <2>2. PICK k : k = job'
    OBVIOUS
  <2>3. /\ job # Idle /\ j \in Jobs /\ j.step = "prune" /\ rows' = rows /\ prunes' = prunes
        /\ job' = [job EXCEPT !.step = "admit",
                              !.todo = @ \cup job.verdict[Head(job.topics)].admit]
    BY <1>1, <1>8, <2>1 DEF StaleRemoved, Mutating, JobInv
  <2>4. prunes = {}
    BY <1>8 DEF StaleRemoved, RefsInv, Awaited
  <2>5. /\ k.step = "admit" /\ k.topics = j.topics /\ k.verdict = j.verdict
        /\ k.todo = j.todo \cup j.verdict[Head(j.topics)].admit /\ k # Idle
    <3>1. PICK todo : todo = j.todo \cup j.verdict[Head(j.topics)].admit
      OBVIOUS
    <3>2. todo \in SUBSET (Topics \cup (Topics \X Outs) \cup Outs \cup Txs)
      BY <1>1, <2>1, <2>3, <3>1, InTopic DEF Verdicts, Jobs
    <3>3. k = [j EXCEPT !.step = "admit", !.todo = todo]
      BY <2>1, <2>2, <2>3, <3>1
    <3>4. k \in Jobs
      BY <2>3, <3>2, <3>3 DEF Jobs
    <3> QED BY <2>3, <3>1, <3>3, <3>4, ValuesAssumption DEF Jobs
  <2>6. \A t, c : Owes(t, c) => Owes(t, c)'
    BY <2>1, <2>2, <2>3, <2>5 DEF Owes, Retained
  <2>7. BuiltSoFar(k)'
    BY <2>5 DEF BuiltSoFar
  <2> QED BY <1>2, <2>2, <2>3, <2>4, <2>6, <2>7, RefsMove
<1>9. ASSUME NEW o \in Outs, AdmitOutput(o)
      PROVE  RefsInv'
  BY <1>9, InsertBacks
<1>10. CASE AllAdmitted
  <2>1. PICK j : j = job
    OBVIOUS
  <2>2. PICK k : k = job'
    OBVIOUS
  <2>3. /\ job # Idle /\ j \in Jobs /\ j.step = "admit" /\ rows' = rows /\ prunes' = prunes
        /\ job' = [job EXCEPT !.step = "record",
                              !.todo = job.verdict[Head(job.topics)].retain
                                       \cup {TxOf[job.sub]}]
        /\ j.todo = {} /\ BuiltSoFar(j)
    BY <1>1, <1>10, <2>1 DEF AllAdmitted, Mutating, JobInv, RefsInv
  <2>4. prunes = {}
    BY <2>1, <2>3, NoPrunes DEF RefsInv
  <2>5. /\ k.step = "record" /\ k.topics = j.topics /\ k.verdict = j.verdict
        /\ k.todo = j.verdict[Head(j.topics)].retain \cup {TxOf[j.sub]} /\ k # Idle
    <3>1. PICK todo : todo = j.verdict[Head(j.topics)].retain \cup {TxOf[j.sub]}
      OBVIOUS
    <3>2. todo \in SUBSET (Topics \cup (Topics \X Outs) \cup Outs \cup Txs)
      BY <1>1, <2>1, <2>3, <3>1, InTopic, JobTyped
    <3>3. k = [j EXCEPT !.step = "record", !.todo = todo]
      BY <2>1, <2>2, <2>3, <3>1
    <3>4. k \in Jobs
      BY <2>3, <3>2, <3>3 DEF Jobs
    <3> QED BY <2>3, <3>1, <3>3, <3>4, ValuesAssumption DEF Jobs
  <2>6. \A t, c : Owes(t, c) => Owes(t, c)'
    BY <2>1, <2>2, <2>3, <2>5 DEF Owes, Retained
  <2>7. BuiltSoFar(k)'
    BY <2>3, <2>5 DEF BuiltSoFar, Built, Stored
  <2> QED BY <1>2, <2>2, <2>3, <2>4, <2>6, <2>7, RefsMove
<1>11. ASSUME NEW o \in Outs, UpdateConsumedOutput(o)
       PROVE  RefsInv'
  BY <1>11, UpdateBacks
<1>12. CASE InsertAppliedTransaction
  <2>1. PICK j : j = job
    OBVIOUS
  <2>2. PICK k : k = job'
    OBVIOUS
  <2>3. /\ job # Idle /\ j \in Jobs /\ j.step = "record" /\ rows' = rows /\ prunes' = prunes
        /\ job' = [job EXCEPT !.todo = @ \ {TxOf[job.sub]}] /\ BuiltSoFar(j)
        /\ TxOf[j.sub] \notin Outs /\ j.verdict[Head(j.topics)].retain \subseteq Outs
    BY <1>1, <1>12, <2>1, InTopic DEF InsertAppliedTransaction, Mutating, RefsInv
  <2>4. prunes = {}
    BY <2>1, <2>3, NoPrunes DEF RefsInv
  <2>5. /\ k.step = "record" /\ k.topics = j.topics /\ k.verdict = j.verdict
        /\ k.todo = j.todo \ {TxOf[j.sub]} /\ k # Idle
    BY <2>1, <2>2, <2>3, ValuesAssumption DEF Jobs
  <2>6. \A t, c : Owes(t, c) => Owes(t, c)'
    BY <2>1, <2>2, <2>3, <2>5 DEF Owes, Retained
  <2>7. BuiltSoFar(k)'
    BY <2>3, <2>5 DEF BuiltSoFar, Built, Stored
  <2> QED BY <1>2, <2>2, <2>3, <2>4, <2>6, <2>7, RefsMove
<1>13. CASE TopicApplied
  <2>1. /\ job # Idle /\ job \in Jobs /\ job.step = "record" /\ job.todo = {}
        /\ rows' = rows /\ prunes' \subseteq prunes
        /\ job' = [job EXCEPT !.step = "mark", !.topics = Tail(@)]
    BY <1>1, <1>13 DEF TopicApplied, Mutating, JobInv
  <2>2. job'.step = "mark"
    BY <2>1 DEF Jobs
  <2> QED BY <1>2, <2>1, <2>2, RefsPlain
<1>14. ASSUME NEW p \in prunes, Prune(p)
       PROVE  RefsInv'
  <2>1. job' = job
    BY <1>14 DEF Prune, PruneDelete, PruneRead, PruneWrite
  <2> QED BY <1>1, <1>14, <2>1, DeleteBacks, ReadBacks, WriteBacks DEF Prune
<1>15. CASE Refuse
  <2>1. /\ job # Idle /\ job.step = "validate" /\ job' = Idle /\ rows' = rows
        /\ prunes' \subseteq prunes
    BY <1>15 DEF Refuse, Finish
  <2> QED BY <1>2, <2>1, RefsPlain
<1>16. CASE StorageFails \/ \E p \in prunes : PruneFails(p)
  BY <1>1, <1>16 DEF StorageFails, Throw, PruneFails
<1>17. CASE Crash
  <2>1. ~Mutating
    BY <1>1, <1>17 DEF Crash
  <2>2. job # Idle => job.step = "validate"
    BY <1>1, <2>1 DEF Mutating, JobInv, Jobs
  <2>3. rows' = rows /\ prunes' \subseteq prunes /\ job' = Idle
    BY <1>17 DEF Crash
  <2> QED BY <1>2, <2>2, <2>3, RefsPlain
<1>18. ASSUME NEW s \in Subs, Submit(s)
       PROVE  RefsInv'
  BY <1>1, <1>18, RefsStay DEF Submit
<1>19. ASSUME NEW tx \in Txs, NEW scope, Evict(tx, scope)
       PROVE  FALSE
  BY <1>1, <1>19 DEF Evict
<1> QED
  BY <1>1, <1>3, <1>4, <1>5, <1>6, <1>7, <1>8, <1>9, <1>10, <1>11, <1>12, <1>13, <1>14,
     <1>15, <1>16, <1>17, <1>18, <1>19 DEF Next, EngineStep

\* With nothing interrupted, nothing evicted and no two prunes of a submission
\* holding the same ancestor, what updateConsumedOutput and deleteUTXODeep write
\* to consumedBy is, whenever the engine rests, exactly the outputs built on the
\* row.
THEOREM ReferencesKept == Spec => []ReferencesExact
<1> DEFINE Inv == EngineInv /\ (evicted = {} => HistoryInv) /\ (Plain => RefsInv)
<1>1. Init => Inv
  <2> SUFFICES ASSUME Init
               PROVE  HistoryInv /\ RefsInv
    BY EngineInit
  <2>1. /\ prunes = {} /\ job = Idle
        /\ \A t \in Topics, o \in Outs : ~Stored(t, o)
    BY DEF Init, Stored
  <2>2. RefsInv
    BY <2>1 DEF RefsInv, Awaited, AllBacked, RefsKept, Backed, HeldAlone, AllHeld, AllListed,
                Listed, Uses
  <2> QED BY <2>2, HistoryInit
<1>2. Inv /\ [Next]_vars => Inv'
  <2>1. ASSUME Inv, Next
        PROVE  Inv'
    <3>1. EngineInv' /\ (evicted = {} => HistoryInv)'
      BY <2>1, EngineNext, EvictedGrows, HistoryStep
    <3>2. ASSUME Plain'
          PROVE  RefsInv'
      <4>1. Plain /\ evicted = {}
        BY <2>1, <3>2, PlainGrows DEF Plain
      <4> QED BY <2>1, <3>2, <4>1, RefsStep
    <3> QED BY <3>1, <3>2
  <2>2. ASSUME Inv, UNCHANGED vars
        PROVE  Inv'
    <3>1. EngineInv' /\ (evicted = {} => HistoryInv)'
      BY <2>2, EngineStays, HistorySame
    <3>2. /\ Shape /\ rows' = rows /\ prunes' = prunes /\ job' = job /\ (Plain' <=> Plain)
      BY <2>2 DEF vars, storage, history, Plain, EngineInv
    <3>3. Plain' => RefsInv'
      BY <2>2, <3>2, RefsStay
    <3> QED BY <3>1, <3>3
  <2> QED BY <2>1, <2>2
<1>3. Inv => ReferencesExact
  <2> SUFFICES ASSUME Inv, job = Idle, prunes = {}, Plain,
                      NEW t \in Topics, NEW o \in Outs, Stored(t, o)
               PROVE  rows[t][o].by = {c \in Outs : Stored(t, c) /\ o \in rows[t][c].consumed}
    BY DEF ReferencesExact, Plain
  <2>1. rows[t][o].by \subseteq Outs
    BY DEF EngineInv, Shape, RowsTyped, Rows, Stored
  <2>2. \A y \in Outs : y \in rows[t][o].by => Uses(t, y, o)
    BY DEF RefsInv, AllBacked, RefsKept, Backed
  <2>3. \A y \in Outs : Uses(t, y, o) => y \in rows[t][o].by
    BY DEF RefsInv, AllListed, Listed, Owes
  <2> QED BY <2>1, <2>2, <2>3 DEF Uses
<1> QED BY <1>1, <1>2, <1>3, PTL DEF Spec
=============================================================================
