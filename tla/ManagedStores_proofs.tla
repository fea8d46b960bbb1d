------------------------ MODULE ManagedStores_proofs ------------------------
(***************************************************************************)
(* The safety properties of ManagedStores, for any set of stores and any   *)
(* number of calls, switches and restarts.                                 *)
(***************************************************************************)
EXTENDS ManagedStores, FiniteSetTheorems, TLAPS

Managed == ToSet(stores)
Looping(p) == proc[p].pc \in {"ensure", "ensured"}
Syncing(p) == proc[p].pc \in {"merge", "mark", "push"}

\* The types of what is held by the stores.
HeldType ==
    /\ data \in [Stores -> SUBSET Rows]
    /\ link \in [Links -> SyncStates]
    /\ overtaken \subseteq Rows

(***************************************************************************)
(* In every environment.                                                   *)
(***************************************************************************)
\* A call under way has what its next step needs, and the sync lock if it syncs.
CallOK(p) ==
    /\ p \notin env.procs => proc[p] = Idle
    /\ IF Looping(p) THEN proc[p].i \in 1..Len(stores) ELSE proc[p].i = 0
    /\ proc[p].pc = "ensured" => proc[p].got \in Stores
    /\ Syncing(p) \/ proc[p].pc = "backup" => lock = p
    /\ lock = p => \/ Syncing(p) \/ proc[p].pc = "backup"
                   \/ Looping(p) /\ proc[p].then = "return"
    /\ \/ proc[p].pc \in {"request", "queued"} \/ Syncing(p)
       \/ Looping(p) /\ (proc[p].then # "return" \/ lock = p)
       => proc[p].key \in Stores
    /\ proc[p].pc \in {"mark", "push", "backup"} => proc[p].source \in Stores
    /\ proc[p].pc = "backup" => proc[p].key = None

\* Records are dated by the clock, and an available manager has an active store.
RecordsOK ==
    /\ stores # <<>>
    /\ isAvailable => active \in Stores
    /\ \A s \in Stores : db[s].at <= clock /\ (db[s].active = None => db[s] = Absent)

\* The calls of setActive that have yet to mark the active store.
Unmarked(p) ==
    \/ proc[p].pc \in {"request", "queued", "merge", "mark"}
    \/ Looping(p) /\ proc[p].then # "return"

\* The clock advances once in a call of setActive.
ClockOK ==
    LET U == {p \in Procs : Unmarked(p)}
    IN IsFiniteSet(U) /\ clock + Cardinality(U) <= switches + 1

CallsInv == TypeOK /\ RecordsOK /\ ClockOK /\ \A p \in Procs : CallOK(p)

(***************************************************************************)
(* In every environment: what a checkpoint means.  A row of store a dated  *)
(* before the checkpoint of a sync to b is in b, unless it has overtaken   *)
(* the checkpoint by coming to a later.                                    *)
(***************************************************************************)
LinkOK(a, b) ==
    LET l == link[<<a, b>>]
    IN /\ l.when <= clock /\ l.max <= clock
       /\ l.counted \subseteq data[b]
       /\ \A r \in data[a] : r.at < l.when => r \in data[b] \cup overtaken

LinkInv ==
    /\ \A s \in Stores : \A r \in data[s] : r.at <= clock
    /\ \A a, b \in Stores : LinkOK(a, b)

(***************************************************************************)
(* With one call at a time: the partition.                                 *)
(***************************************************************************)
\* The stores a call of makeAvailable has been to are the active one and its list.
LoopOK(p) ==
    LET r == proc[p]
    IN Looping(p) =>
        /\ ~isAvailable /\ backups = <<>> /\ conflictingActives = <<>>
        /\ IF r.i = 1 THEN active = None /\ r.list = <<>>
           ELSE /\ active \in Stores
                /\ Len(r.list) = r.i - 2
                /\ {active} \cup ToSet(r.list) = {stores[j] : j \in 1..(r.i - 1)}
        /\ \A j \in 1..(r.i - 1) : user[stores[j]] # None

Placed ==
    LET all == <<active>> \o backups \o conflictingActives
    IN Len(all) = Len(stores) /\ ToSet(all) = Managed

Settled ==
    /\ Placed
    /\ authIsActive <=> isActiveEnabled
    /\ \A b \in ToSet(backups) : user[b] = active

PartitionInv ==
    Orderly =>
        /\ isAvailable => \A s \in Managed : user[s] # None
        /\ \A p \in Procs : LoopOK(p) /\ (Syncing(p) \/ proc[p].pc = "backup" => isAvailable)
        /\ isAvailable /\ (\A p \in Procs : ~Syncing(p)) => Settled

(***************************************************************************)
(* With one call at a time: setActive.                                     *)
(***************************************************************************)
\* The choice, and what the source has, have come to store s.
Pushed(p, s) ==
    /\ user[s] = proc[p].key
    /\ db[s].active = proc[p].key
    /\ data[proc[p].source] \ overtaken \subseteq data[s]

SwitchOK(p) ==
    LET r == proc[p]
    IN /\ r.pc = "ensured" => lock # p
       /\ r.pc = "queued" \/ Syncing(p) => r.key \in Managed
       /\ r.pc = "merge" => /\ active \in Managed
                            /\ ToSet(r.todo) \subseteq Managed
       /\ r.pc \in {"mark", "push"} => r.source \in Managed
       /\ r.pc = "push" => /\ ToSet(r.todo) \subseteq Managed
                           /\ db[r.source] = [active |-> r.key, at |-> clock]
                           /\ \A s \in Stores :
                                  /\ db[s].at = clock => db[s].active = r.key
                                  /\ db[s].at = clock \/ link[<<r.source, s>>].when < clock
                           /\ \A s \in Managed \ ToSet(r.todo) : Pushed(p, s)
       /\ Looping(p) /\ r.then = "queue" => r.key \in Managed
       /\ Looping(p) /\ lock = p =>
              /\ r.key \in Managed /\ \A s \in Managed : Pushed(p, s)
              /\ active = r.key \/ \A j \in 1..(r.i - 1) : stores[j] # r.key

SwitchInv == Orderly => \A p \in Procs : SwitchOK(p)

(***************************************************************************)
(* With one call at a time, before a restart: the data.                    *)
(***************************************************************************)
\* A store that follows another has nothing the other one lacks, except what was overtaken.
Follows(s) ==
    user[s] # None => /\ user[s] \in Managed
                      /\ user[user[s]] = user[s]
                      /\ data[s] \ overtaken \subseteq data[user[s]]

\* What is on its way: stores merged into the target, the source with all data.
CarryOK(p) ==
    LET r == proc[p]
        target == IF conflictingActives # <<>> THEN r.key ELSE active
    IN /\ r.pc = "ensured" => user[stores[r.i]] = None /\ r.got = stores[r.i]
       /\ r.pc = "merge" =>
              /\ r.todo # <<>> => conflictingActives # <<>>
              /\ \A s \in Managed : \E c \in {target} \cup ToSet(r.todo) :
                                      data[s] \ overtaken \subseteq data[c]
       /\ r.pc \in {"mark", "push"} => \A s \in Managed : data[s] \ overtaken \subseteq data[r.source]
       /\ r.pc = "backup" => r.source = active /\ ToSet(r.todo) \subseteq ToSet(backups)

\* All of the user's data is in a managed store, and what a store first says is of itself.
OwnedOK ==
    /\ acked \subseteq UNION {data[s] : s \in Managed}
    /\ \A s \in Stores : /\ user[s] # None => s \in Managed
                         /\ user[s] = None => db[s].active \in {None, s}

DataInv ==
    Orderly /\ restarts = 0 =>
        /\ OwnedOK
        /\ \A p \in Procs : CarryOK(p)
        /\ (\A p \in Procs : ~Syncing(p)) => \A s \in Managed : Follows(s)

(***************************************************************************)
(* With one call at a time, before a restart: what was written through the *)
(* manager is never overtaken.  A store without a written row has nothing  *)
(* newer and no checkpoint past it, so nobody can go past the row before   *)
(* the store gets it; but while it is being synced from a store that has   *)
(* the row, newer rows may come first.                                     *)
(***************************************************************************)
Pulls(p, b, a) ==
    LET r == proc[p]
    IN /\ r.todo # <<>>
       /\ \/ r.pc = "merge" /\ b = Head(r.todo) /\ a = r.key
          \/ r.pc \in {"push", "backup"} /\ b = r.source /\ a = Head(r.todo)

Before(a, w) == (\A r \in data[a] : r.at <= w.at) /\ db[a].at <= w.at

MissingOK(w, a) ==
    /\ \A x \in Stores : link[<<a, x>>].when <= w.at /\ link[<<a, x>>].max <= w.at
    /\ \/ Before(a, w)
       \/ \E p \in Procs, b \in Stores : w \in data[b] /\ Pulls(p, b, a)

WrittenInv ==
    Orderly /\ restarts = 0 =>
        /\ \A r \in overtaken : r.of \notin Writes
        /\ \A s \in Stores : \A r \in data[s] : r.of \in Writes => r \in acked
        /\ \A w \in acked, a \in Stores : w.of \in Writes /\ w \notin data[a] => MissingOK(w, a)

StoresInv == CallsInv /\ LinkInv /\ PartitionInv /\ SwitchInv /\ DataInv /\ WrittenInv

-----------------------------------------------------------------------------
(***************************************************************************)
(* Sequences.                                                              *)
(***************************************************************************)
LEMMA ToSetFacts ==
  ASSUME NEW X
  PROVE  /\ ToSet(<<>>) = {}
         /\ \A s \in Seq(X) : ToSet(s) \subseteq X
         /\ \A s \in Seq(X), x \in X : ToSet(Append(s, x)) = ToSet(s) \cup {x}
         /\ \A s, t \in Seq(X) : ToSet(s \o t) = ToSet(s) \cup ToSet(t)
         /\ \A s \in Seq(X) : s # <<>> => /\ Head(s) \in X /\ Tail(s) \in Seq(X)
                                         /\ ToSet(s) = {Head(s)} \cup ToSet(Tail(s))
         /\ \A x : ToSet(<<x>>) = {x}
<1>1. \A s \in Seq(X), x \in X : ToSet(Append(s, x)) = ToSet(s) \cup {x}
  <2> SUFFICES ASSUME NEW s \in Seq(X), NEW x \in X
               PROVE  ToSet(Append(s, x)) = ToSet(s) \cup {x}
    OBVIOUS
  <2>1. /\ DOMAIN Append(s, x) = 1..(Len(s) + 1) /\ Append(s, x)[Len(s) + 1] = x
        /\ \A i \in 1..Len(s) : Append(s, x)[i] = s[i]
        /\ DOMAIN s = 1..Len(s) /\ Len(s) \in Nat
    OBVIOUS
  <2> QED BY <2>1 DEF ToSet
<1>2. \A s, t \in Seq(X) : ToSet(s \o t) = ToSet(s) \cup ToSet(t)
  <2> SUFFICES ASSUME NEW s \in Seq(X), NEW t \in Seq(X)
               PROVE  ToSet(s \o t) = ToSet(s) \cup ToSet(t)
    OBVIOUS
  <2>1. /\ DOMAIN (s \o t) = 1..(Len(s) + Len(t))
        /\ \A i \in 1..Len(s) : (s \o t)[i] = s[i]
        /\ \A i \in 1..Len(t) : (s \o t)[Len(s) + i] = t[i]
        /\ DOMAIN s = 1..Len(s) /\ DOMAIN t = 1..Len(t) /\ Len(s) \in Nat /\ Len(t) \in Nat
    OBVIOUS
  <2>2. \A i \in 1..(Len(s) + Len(t)) : i \in 1..Len(s) \/ \E j \in 1..Len(t) : i = Len(s) + j
    <3> SUFFICES ASSUME NEW i \in 1..(Len(s) + Len(t)), i \notin 1..Len(s)
                 PROVE  i - Len(s) \in 1..Len(t) /\ i = Len(s) + (i - Len(s))
      OBVIOUS
    <3> QED BY <2>1
  <2>3. \A i \in 1..Len(t) : Len(s) + i \in 1..(Len(s) + Len(t))
    BY <2>1
  <2>4. \A i \in 1..Len(s) : i \in 1..(Len(s) + Len(t))
    BY <2>1
  <2>5. ASSUME NEW y \in ToSet(s \o t) PROVE y \in ToSet(s) \cup ToSet(t)
    <3>1. PICK i \in 1..(Len(s) + Len(t)) : y = (s \o t)[i]
      BY <2>1, <2>5 DEF ToSet
    <3> QED BY <3>1, <2>1, <2>2 DEF ToSet
  <2>6. ASSUME NEW y \in ToSet(s) \cup ToSet(t) PROVE y \in ToSet(s \o t)
    BY <2>1, <2>3, <2>4, <2>6 DEF ToSet
  <2> QED BY <2>5, <2>6
<1>3. \A s \in Seq(X) : s # <<>> => /\ Head(s) \in X /\ Tail(s) \in Seq(X)
                                   /\ ToSet(s) = {Head(s)} \cup ToSet(Tail(s))
  <2> SUFFICES ASSUME NEW s \in Seq(X), s # <<>>
               PROVE  /\ Head(s) \in X /\ Tail(s) \in Seq(X)
                      /\ ToSet(s) = {Head(s)} \cup ToSet(Tail(s))
    OBVIOUS
  <2>1. /\ Head(s) \in X /\ Tail(s) \in Seq(X) /\ Head(s) = s[1]
        /\ DOMAIN s = 1..Len(s) /\ Len(s) \in Nat \ {0}
        /\ DOMAIN Tail(s) = 1..(Len(s) - 1)
        /\ \A i \in 1..(Len(s) - 1) : Tail(s)[i] = s[i + 1]
    OBVIOUS
  <2>2. \A i \in 1..Len(s) : i = 1 \/ (i - 1 \in 1..(Len(s) - 1) /\ i = (i - 1) + 1)
    BY <2>1
  <2>3. \A i \in 1..(Len(s) - 1) : i + 1 \in 1..Len(s)
    BY <2>1
  <2>4. ASSUME NEW y \in ToSet(s) PROVE y \in {Head(s)} \cup ToSet(Tail(s))
    <3>1. PICK i \in 1..Len(s) : y = s[i]
      BY <2>1, <2>4 DEF ToSet
    <3>2. CASE i = 1
      BY <3>1, <3>2, <2>1
    <3>3. CASE i # 1
      <4>1. i - 1 \in 1..(Len(s) - 1) /\ i = (i - 1) + 1
        BY <2>2, <3>3
      <4>2. Tail(s)[i - 1] = y
        BY <4>1, <3>1, <2>1
      <4> QED BY <4>1, <4>2, <2>1 DEF ToSet
    <3> QED BY <3>2, <3>3
  <2>5. ASSUME NEW y \in {Head(s)} \cup ToSet(Tail(s)) PROVE y \in ToSet(s)
    BY <2>1, <2>3, <2>5 DEF ToSet
  <2> QED BY <2>1, <2>4, <2>5
<1>4. \A x : ToSet(<<x>>) = {x}
  BY DEF ToSet
<1>5. ToSet(<<>>) = {} /\ \A s \in Seq(X) : ToSet(s) \subseteq X
  BY DEF ToSet
<1> QED BY <1>1, <1>2, <1>3, <1>4, <1>5

LEMMA StoreSets ==
  /\ ToSet(<<>>) = {}
  /\ \A s \in Seq(Stores) : ToSet(s) \subseteq Stores
  /\ \A s \in Seq(Stores), x \in Stores : /\ Append(s, x) \in Seq(Stores) /\ Len(Append(s, x)) = Len(s) + 1
                                        /\ ToSet(Append(s, x)) = ToSet(s) \cup {x}
  /\ \A s, t \in Seq(Stores) : /\ s \o t \in Seq(Stores) /\ Len(s \o t) = Len(s) + Len(t)
                              /\ ToSet(s \o t) = ToSet(s) \cup ToSet(t)
  /\ \A s \in Seq(Stores) : s # <<>> => /\ Head(s) \in Stores /\ Tail(s) \in Seq(Stores)
                                       /\ ToSet(s) = {Head(s)} \cup ToSet(Tail(s))
  /\ \A x \in Stores : <<x>> \in Seq(Stores) /\ Len(<<x>>) = 1 /\ ToSet(<<x>>) = {x}
<1>1. \A s \in Seq(Stores), x \in Stores : Append(s, x) \in Seq(Stores) /\ Len(Append(s, x)) = Len(s) + 1
  OBVIOUS
<1>2. \A s, t \in Seq(Stores) : s \o t \in Seq(Stores) /\ Len(s \o t) = Len(s) + Len(t)
  OBVIOUS
<1>3. \A x \in Stores : <<x>> \in Seq(Stores) /\ Len(<<x>>) = 1
  OBVIOUS
<1> QED BY <1>1, <1>2, <1>3, ToSetFacts

LEMMA Joined ==
  ASSUME NEW s \in Seq(Stores), NEW t \in Seq(Stores)
  PROVE  s \o t \in Seq(Stores) /\ Len(s \o t) = Len(s) + Len(t) /\ ToSet(s \o t) = ToSet(s) \cup ToSet(t)
<1>1. ToSet(s \o t) = ToSet(s) \cup ToSet(t)
  BY ToSetFacts
<1>2. s \o t \in Seq(Stores) /\ Len(s \o t) = Len(s) + Len(t)
  OBVIOUS
<1> QED BY <1>1, <1>2

LEMMA PartsJoined ==
  ASSUME NEW x \in Stores, NEW s \in Seq(Stores), NEW t \in Seq(Stores)
  PROVE  LET all == <<x>> \o s \o t
         IN Len(all) = 1 + Len(s) + Len(t) /\ ToSet(all) = {x} \cup ToSet(s) \cup ToSet(t)
<1> DEFINE one == <<x>>
<1>1. one \in Seq(Stores) /\ Len(one) = 1 /\ ToSet(one) = {x}
  BY StoreSets
<1> HIDE DEF one
<1>2. /\ one \o s \in Seq(Stores) /\ Len(one \o s) = 1 + Len(s)
      /\ ToSet(one \o s) = {x} \cup ToSet(s)
  BY <1>1, Joined, Zenon
<1>3. Len(one \o s \o t) = 1 + Len(s) + Len(t) /\ ToSet(one \o s \o t) = {x} \cup ToSet(s) \cup ToSet(t)
  BY <1>2, Joined, Zenon
<1> QED BY <1>3 DEF one

\* Filter numbers the positions it keeps from 1 on, each number once.
LEMMA FilterPlaces ==
  ASSUME NEW n \in Nat, NEW I \in SUBSET (1..n)
  PROVE  LET Place(i) == Cardinality({j \in I : j <= i})
         IN /\ IsFiniteSet(I) /\ Cardinality(I) \in Nat
            /\ \A i \in I : Place(i) \in 1..Cardinality(I)
            /\ \A i, k \in I : Place(i) = Place(k) => i = k
            /\ \A m \in 1..Cardinality(I) : \E i \in I : Place(i) = m
<1> DEFINE Upto(i) == {j \in I : j <= i}
           Place(i) == Cardinality(Upto(i))
<1>1. IsFiniteSet(I) /\ Cardinality(I) \in Nat
  <2>1. IsFiniteSet(1..n)
    <3>1. 1 \in Int /\ n \in Int
      OBVIOUS
    <3> QED BY <3>1, FS_Interval
  <2> QED BY <2>1, FS_Subset, FS_CardinalityType
<1>2. \A i : /\ IsFiniteSet(Upto(i)) /\ Place(i) \in Nat /\ Place(i) <= Cardinality(I)
  <2> SUFFICES ASSUME NEW i
               PROVE  IsFiniteSet(Upto(i)) /\ Place(i) \in Nat /\ Place(i) <= Cardinality(I)
    OBVIOUS
  <2>1. Upto(i) \in SUBSET I
    OBVIOUS
  <2> HIDE DEF Upto
  <2> QED BY <2>1, <1>1, FS_Subset, FS_CardinalityType
<1>3. \A i \in I : Place(i) \in 1..Cardinality(I)
  <2> SUFFICES ASSUME NEW i \in I PROVE Place(i) # 0
    BY <1>1, <1>2
  <2>1. i \in Upto(i)
    OBVIOUS
  <2> HIDE DEF Upto
  <2> QED BY <2>1, <1>2, FS_EmptySet
<1>4. \A i, k \in I : Place(i) = Place(k) => i = k
  <2>1. ASSUME NEW i \in I, NEW k \in I, i < k PROVE Place(i) # Place(k)
    <3>0. \A j \in I : j \in Nat
      OBVIOUS
    <3>1. Upto(i) \in SUBSET Upto(k) /\ k \in Upto(k) /\ k \notin Upto(i)
      <4>1. k \in Upto(k) /\ k \notin Upto(i)
        BY <2>1, <3>0
      <4>2. \A j \in I : j <= i => j <= k
        BY <2>1, <3>0
      <4>3. Upto(i) \subseteq Upto(k)
        BY <4>2
      <4> QED BY <4>1, <4>3
    <3> HIDE DEF Upto
    <3> QED BY <3>1, <1>2, FS_Subset
  <2> HIDE DEF Upto
  <2>2. ASSUME NEW i \in I, NEW k \in I, Place(i) = Place(k) PROVE i = k
    BY <2>1, <2>2
  <2> QED BY <2>2
<1>5. \A m \in 1..Cardinality(I) : \E i \in I : Place(i) = m
  <2> DEFINE f == [i \in I |-> Place(i)]
             N == 1..Cardinality(I)
  <2> HIDE DEF Upto
  <2>1. f \in Injection(I, N)
    BY <1>3, <1>4 DEF Injection, IsInjective
  <2>2. IsFiniteSet(N) /\ Cardinality(N) = Cardinality(I)
    BY <1>1, FS_Interval
  <2> HIDE DEF f, N
  <2>3. f \in Surjection(I, N)
    BY <2>1, <2>2, FS_Injection
  <2> QED BY <2>3 DEF Surjection, f, N
<1> QED BY <1>1, <1>3, <1>4, <1>5

LEMMA FilterFacts ==
  ASSUME NEW X, NEW seq \in Seq(X), NEW S
  PROVE  /\ Filter(seq, S) \in Seq(X)
         /\ ToSet(Filter(seq, S)) = ToSet(seq) \cap S
         /\ Len(Filter(seq, S)) = Cardinality({i \in 1..Len(seq) : seq[i] \in S})
<1> DEFINE I == {i \in 1..Len(seq) : seq[i] \in S}
           Place(i) == Cardinality({j \in I : j <= i})
           At(n) == CHOOSE i \in I : Place(i) = n
<1>1. Filter(seq, S) = [n \in 1..Cardinality(I) |-> seq[At(n)]]
  BY DEF Filter
<1>2. Len(seq) \in Nat /\ DOMAIN seq = 1..Len(seq) /\ \A i \in 1..Len(seq) : seq[i] \in X
  OBVIOUS
<1>3. I \in SUBSET (1..Len(seq)) /\ \A i \in I : seq[i] \in S
  OBVIOUS
<1>3a. \A i \in 1..Len(seq) : seq[i] \in S => i \in I
  OBVIOUS
<1> HIDE DEF I
<1>4. /\ Cardinality(I) \in Nat
      /\ \A i \in I : Place(i) \in 1..Cardinality(I)
      /\ \A i, k \in I : Place(i) = Place(k) => i = k
      /\ \A m \in 1..Cardinality(I) : \E i \in I : Place(i) = m
  BY <1>2, <1>3, FilterPlaces
<1> HIDE DEF Place
<1>5. \A n \in 1..Cardinality(I) : At(n) \in I /\ Place(At(n)) = n
  BY <1>4
<1>6. \A i \in I : At(Place(i)) = i
  BY <1>4, <1>5
<1> HIDE DEF At
<1>7. /\ Filter(seq, S) \in Seq(X) /\ Len(Filter(seq, S)) = Cardinality(I)
      /\ DOMAIN Filter(seq, S) = 1..Cardinality(I)
      /\ \A n \in 1..Cardinality(I) : Filter(seq, S)[n] = seq[At(n)]
  <2> DEFINE F == [n \in 1..Cardinality(I) |-> seq[At(n)]]
  <2>1. \A n \in 1..Cardinality(I) : seq[At(n)] \in X
    BY <1>2, <1>3, <1>5
  <2>2. F \in [1..Cardinality(I) -> X] /\ \A n \in 1..Cardinality(I) : F[n] = seq[At(n)]
    BY <2>1
  <2>3. F = Filter(seq, S)
    BY <1>1
  <2> HIDE DEF F
  <2>4. F \in Seq(X) /\ Len(F) = Cardinality(I) /\ DOMAIN F = 1..Cardinality(I)
    BY <2>2, <1>4
  <2> QED BY <2>2, <2>3, <2>4
<1>8. ASSUME NEW y \in ToSet(Filter(seq, S)) PROVE y \in ToSet(seq) \cap S
  <2>1. PICK n \in 1..Cardinality(I) : y = seq[At(n)]
    BY <1>7, <1>8 DEF ToSet
  <2> QED BY <2>1, <1>2, <1>3, <1>5 DEF ToSet
<1>9. ASSUME NEW y \in ToSet(seq) \cap S PROVE y \in ToSet(Filter(seq, S))
  <2>1. PICK i \in 1..Len(seq) : y = seq[i]
    BY <1>2, <1>9 DEF ToSet
  <2>2. i \in I
    BY <2>1, <1>3a, <1>9
  <2> QED BY <2>1, <2>2, <1>4, <1>6, <1>7 DEF ToSet
<1> QED BY <1>7, <1>8, <1>9 DEF I

\* What is kept and what is left out make up the sequence.
LEMMA FilterSplits ==
  ASSUME NEW X, NEW seq \in Seq(X), NEW S, NEW T, S \cap T = {}, X \subseteq S \cup T
  PROVE  Len(Filter(seq, S)) + Len(Filter(seq, T)) = Len(seq)
<1> DEFINE I(U) == {i \in 1..Len(seq) : seq[i] \in U}
<1>1. I(S) \cap I(T) = {} /\ I(S) \cup I(T) = 1..Len(seq)
  OBVIOUS
<1>2. Len(seq) \in Nat /\ IsFiniteSet(1..Len(seq)) /\ Cardinality(1..Len(seq)) = Len(seq)
  <2>1. Len(seq) \in Nat /\ 1 \in Int /\ Len(seq) \in Int
    OBVIOUS
  <2>2. IsFiniteSet(1..Len(seq)) /\ Cardinality(1..Len(seq)) = IF 1 > Len(seq) THEN 0 ELSE Len(seq) - 1 + 1
    BY <2>1, FS_Interval
  <2> QED BY <2>1, <2>2
<1>3. I(S) \in SUBSET (1..Len(seq)) /\ I(T) \in SUBSET (1..Len(seq))
  OBVIOUS
<1>4. Len(Filter(seq, S)) = Cardinality(I(S)) /\ Len(Filter(seq, T)) = Cardinality(I(T))
  BY FilterFacts
<1> HIDE DEF I
<1>5. IsFiniteSet(I(S)) /\ IsFiniteSet(I(T))
  BY <1>2, <1>3, FS_Subset
<1>6. Cardinality(I(S)) \in Nat /\ Cardinality(I(T)) \in Nat
  BY <1>5, FS_CardinalityType
<1>7. Cardinality(1..Len(seq)) = Cardinality(I(S)) + Cardinality(I(T)) - Cardinality(I(S) \cap I(T))
  BY <1>1, <1>5, FS_Union
<1>8. Cardinality(I(S) \cap I(T)) = 0
  BY <1>1, FS_EmptySet
<1> QED BY <1>2, <1>4, <1>6, <1>7, <1>8

-----------------------------------------------------------------------------
(***************************************************************************)
(* Every environment: CallsInv.                                            *)
(***************************************************************************)
\* Where the parts of the state live.
LEMMA EnvFacts ==
  ASSUME TypeOK
  PROVE  /\ env.procs \subseteq Procs /\ env.stores \subseteq Stores
         /\ env.storeFails \in BOOLEAN /\ env.restarts \in 0..MaxRestarts
         /\ env.switches \in 0..MaxSwitches
BY EnvironmentsAssumption DEF TypeOK

\* One call goes on; the clock advances only when a switch is marked.
CallStep(p) ==
    /\ env' = env
    /\ proc' \in [Procs -> Calls]
    /\ \A q \in Procs : q # p => proc'[q] = proc[q]
    /\ Len(stores') >= Len(stores)
    /\ \/ lock' = lock
       \/ lock = p /\ lock' = None
       \/ lock = None /\ lock' = p
    /\ CallOK(p)'
    /\ \/ clock' = clock /\ switches' = switches /\ (Unmarked(p)' => Unmarked(p))
       \/ clock' = clock /\ switches' = switches + 1 /\ switches < MaxSwitches
       \/ clock' = clock + 1 /\ switches' = switches /\ Unmarked(p) /\ ~Unmarked(p)'

LEMMA CallsStep ==
  ASSUME CallsInv, NEW p \in Procs, CallStep(p), stores' \in Seq(Stores)
  PROVE  /\ ClockOK' /\ \A q \in Procs : CallOK(q)'
         /\ clock' \in 1..(MaxSwitches + 1) /\ switches' \in 0..MaxSwitches
         /\ lock' \in Procs \cup {None}
<1>1. \A q \in Procs : CallOK(q)'
  <2> SUFFICES ASSUME NEW q \in Procs, q # p PROVE CallOK(q)'
    BY DEF CallStep
  <2>1. proc'[q] = proc[q] /\ env' = env /\ CallOK(q) /\ (lock' = q <=> lock = q)
    BY NoneAssumption DEF CallsInv, CallStep, TypeOK
  <2>2. Len(stores) \in Nat /\ Len(stores') \in Nat /\ Len(stores') >= Len(stores)
    BY DEF CallsInv, CallStep, TypeOK
  <2>3. \A i \in 1..Len(stores) : i \in 1..Len(stores')
    BY <2>2
  <2> QED BY <2>1, <2>3 DEF CallOK, Looping, Syncing
<1> DEFINE U == {q \in Procs : Unmarked(q)}
           V == {q \in Procs : Unmarked(q)'}
<1>2. V \subseteq U \cup {p} /\ (p \notin V => V \subseteq U \ {p})
  BY DEF CallStep, Unmarked, Looping
<1>3. IsFiniteSet(U) /\ clock + Cardinality(U) <= switches + 1
  BY DEF CallsInv, ClockOK
<1>4. clock \in Nat \ {0} /\ switches \in Nat /\ MaxSwitches \in Nat /\ switches <= MaxSwitches
  BY BoundsAssumption DEF CallsInv, TypeOK, Dates
<1>5. (p \in U <=> Unmarked(p)) /\ (p \in V <=> Unmarked(p)')
  OBVIOUS
<1>6. ClockOK' <=> IsFiniteSet(V) /\ clock' + Cardinality(V) <= switches' + 1
  BY DEF ClockOK
<1> HIDE DEF U, V
<1>7. /\ Cardinality(U) \in Nat /\ IsFiniteSet(U \cup {p}) /\ IsFiniteSet(U \ {p})
      /\ Cardinality(U \cup {p}) = IF p \in U THEN Cardinality(U) ELSE Cardinality(U) + 1
      /\ Cardinality(U \ {p}) = IF p \in U THEN Cardinality(U) - 1 ELSE Cardinality(U)
  BY <1>3, FS_CardinalityType, FS_AddElement, FS_RemoveElement
<1>8. /\ IsFiniteSet(V) /\ Cardinality(V) \in Nat /\ Cardinality(V) <= Cardinality(U \cup {p})
      /\ p \notin V => Cardinality(V) <= Cardinality(U \ {p})
      /\ p \in U => Cardinality(V) <= Cardinality(U)
  <2>1. V \in SUBSET (U \cup {p}) /\ (p \notin V => V \in SUBSET (U \ {p}))
    BY <1>2
  <2>2. p \in U => V \in SUBSET U
    BY <1>2
  <2> QED BY <2>1, <2>2, <1>3, <1>7, FS_Subset, FS_CardinalityType
<1>9. ClockOK' /\ clock' \in Nat \ {0} /\ switches' \in 0..MaxSwitches
  <2>1. CASE clock' = clock /\ switches' = switches /\ (Unmarked(p)' => Unmarked(p))
    BY <2>1, <1>3, <1>4, <1>5, <1>6, <1>7, <1>8
  <2>2. CASE clock' = clock /\ switches' = switches + 1 /\ switches < MaxSwitches
    BY <2>2, <1>3, <1>4, <1>6, <1>7, <1>8
  <2>3. CASE clock' = clock + 1 /\ switches' = switches /\ Unmarked(p) /\ ~Unmarked(p)'
    BY <2>3, <1>3, <1>4, <1>5, <1>6, <1>7, <1>8
  <2> QED BY <2>1, <2>2, <2>3 DEF CallStep
<1>10. clock' \in 1..(MaxSwitches + 1)
  BY <1>4, <1>6, <1>8, <1>9
<1>11. lock' \in Procs \cup {None}
  BY DEF CallStep, CallsInv, TypeOK
<1> QED BY <1>1, <1>9, <1>10, <1>11

\* CallsInv after a step of call p, from the parts of the state it may change.
LEMMA CallsAfter ==
  ASSUME CallsInv, NEW p \in Procs, CallStep(p),
         stores' \in Seq(Stores), stores' # <<>>,
         db' \in [Stores -> [active : Stores \cup {None}, at : Nat]],
         \A s \in Stores : db'[s].at <= clock' /\ (db'[s].active = None => db'[s] = Absent),
         HeldType',
         user' \in [Stores -> Stores \cup {None}], active' \in Stores \cup {None},
         backups' \in Seq(Stores), conflictingActives' \in Seq(Stores),
         isAvailable' \in BOOLEAN, authIsActive' \in BOOLEAN,
         isAvailable' => active' \in Stores,
         acked' \subseteq Rows, restarts' = restarts
  PROVE  CallsInv'
<1>1. /\ ClockOK' /\ \A q \in Procs : CallOK(q)'
      /\ clock' \in 1..(MaxSwitches + 1) /\ switches' \in 0..MaxSwitches
      /\ lock' \in Procs \cup {None}
  BY CallsStep
<1>2. db' \in [Stores -> [active : Stores \cup {None}, at : Dates]]
  <2>1. \A s \in Stores : db'[s] \in [active : Stores \cup {None}, at : Dates]
    <3> SUFFICES ASSUME NEW s \in Stores
                 PROVE  db'[s] \in [active : Stores \cup {None}, at : Dates]
      OBVIOUS
    <3>1. db'[s] \in [active : Stores \cup {None}, at : Nat] /\ db'[s].at <= clock'
      OBVIOUS
    <3>2. db'[s].at \in Dates
      BY <3>1, <1>1, BoundsAssumption DEF Dates
    <3> QED BY <3>1, <3>2
  <2> QED BY <2>1
<1>3. env' \in Environments /\ restarts' \in 0..MaxRestarts /\ proc' \in [Procs -> Calls]
  BY DEF CallsInv, TypeOK, CallStep
<1> QED BY <1>1, <1>2, <1>3 DEF CallsInv, TypeOK, RecordsOK, HeldType

\* The same for a step that changes no record, data or store list.
LEMMA CallsAfterLocal ==
  ASSUME CallsInv, NEW p \in Procs, CallStep(p), UNCHANGED <<durable, restarts>>,
         user' \in [Stores -> Stores \cup {None}], active' \in Stores \cup {None},
         backups' \in Seq(Stores), conflictingActives' \in Seq(Stores),
         isAvailable' \in BOOLEAN, authIsActive' \in BOOLEAN,
         isAvailable' => active' \in Stores
  PROVE  CallsInv'
<1>1. /\ stores' \in Seq(Stores) /\ stores' # <<>>
      /\ HeldType'
      /\ acked' \subseteq Rows
  BY DEF CallsInv, TypeOK, RecordsOK, HeldType, held, durable
<1>2. /\ db' \in [Stores -> [active : Stores \cup {None}, at : Nat]]
      /\ \A s \in Stores : db'[s].at <= clock' /\ (db'[s].active = None => db'[s] = Absent)
  <2>1. db' = db /\ clock' = clock
    BY DEF durable
  <2>2. \A s \in Stores : db[s] \in [active : Stores \cup {None}, at : Nat]
    BY BoundsAssumption DEF CallsInv, TypeOK, Dates
  <2> QED BY <2>1, <2>2 DEF CallsInv, TypeOK, RecordsOK
<1>3. restarts' = restarts
  OBVIOUS
<1> QED BY <1>1, <1>2, <1>3, CallsAfter

LEMMA IdleType == Idle \in Calls
BY DEF Idle, Calls

LEMMA SelectedType ==
  ASSUME NEW s \in Stores, NEW list \in Seq(Stores), NEW cache, active \in Stores \cup {None}
  PROVE  /\ Selected(s, list, cache)[1] \in Stores
         /\ Selected(s, list, cache)[2] \in Seq(Stores)
<1>1. CASE active = None
  BY <1>1 DEF Selected
<1>2. CASE active # None /\ cache[s] = s /\ ~EnabledWith(active, conflictingActives, cache)
  BY <1>2 DEF Selected
<1>3. CASE active # None /\ ~(cache[s] = s /\ ~EnabledWith(active, conflictingActives, cache))
  BY <1>3 DEF Selected
<1> QED BY <1>1, <1>2, <1>3

LEMMA SelectCalls ==
  ASSUME CallsInv, NEW p \in env.procs, Looping(p),
         NEW cache \in [Stores -> Stores \cup {None}], SelectAndAdvance(p, cache),
         UNCHANGED <<durable, switches, restarts>>
  PROVE  CallsInv'
<1> DEFINE r == proc[p]
           s == stores[r.i]
           sel == Selected(s, r.list, cache)
           last == r.i = Len(stores)
<1>1. p \in Procs /\ CallOK(p) /\ r \in Calls
  BY EnvFacts DEF CallsInv, TypeOK
<1>2. r.i \in 1..Len(stores) /\ s \in Stores /\ r.list \in Seq(Stores) /\ Len(stores) \in Nat
  BY <1>1 DEF CallOK, Calls, CallsInv, TypeOK
<1>3. sel[1] \in Stores /\ sel[2] \in Seq(Stores)
  <2>1. active \in Stores \cup {None}
    BY DEF CallsInv, TypeOK
  <2> QED BY <1>2, <2>1, SelectedType
<1>4. /\ Filter(sel[2], {b \in Stores : cache[b] # sel[1]}) \in Seq(Stores)
      /\ Filter(sel[2], {b \in Stores : cache[b] = sel[1]}) \in Seq(Stores)
  BY <1>3, FilterFacts
<1> DEFINE confl == IF last THEN conflictingActives \o Filter(sel[2], {b \in Stores : cache[b] # sel[1]})
                            ELSE conflictingActives
           next == IF ~last THEN [r EXCEPT !.pc = "ensure", !.got = None,
                                           !.i = r.i + 1, !.list = sel[2]]
                   ELSE Resumed(r)
<1>5. /\ user' = cache /\ active' = sel[1] /\ conflictingActives' = confl
      /\ backups' = IF last THEN backups \o Filter(sel[2], {b \in Stores : cache[b] = sel[1]})
                            ELSE backups
      /\ isAvailable' = (isAvailable \/ last)
      /\ authIsActive' = IF last THEN EnabledWith(sel[1], confl, cache) ELSE authIsActive
      /\ proc' = [proc EXCEPT ![p] = next]
      /\ lock' = IF last /\ lock = p THEN None ELSE lock
  BY DEF SelectAndAdvance
<1>6. /\ backups \in Seq(Stores) /\ conflictingActives \in Seq(Stores)
      /\ proc \in [Procs -> Calls] /\ isAvailable \in BOOLEAN /\ authIsActive \in BOOLEAN
  BY DEF CallsInv, TypeOK
<1> HIDE DEF sel, s
<1>7. confl \in Seq(Stores) /\ backups' \in Seq(Stores)
  BY <1>4, <1>5, <1>6
<1> HIDE DEF confl
<1>8. next \in Calls
  <2>1. CASE ~last
    <3>1. next = [r EXCEPT !.pc = "ensure", !.got = None, !.i = r.i + 1, !.list = sel[2]]
      BY <2>1
    <3>2. r.i + 1 \in Nat
      BY <1>2
    <3> HIDE DEF next
    <3> QED BY <3>1, <3>2, <1>1, <1>3 DEF Calls
  <2>2. CASE last /\ r.then # "return"
    <3>1. next = [Idle EXCEPT !.pc = IF r.then = "queue" THEN "queued" ELSE "request",
                              !.key = r.key]
      BY <2>2 DEF Resumed
    <3>2. r.key \in Stores \cup {None}
      BY <1>1 DEF Calls
    <3> HIDE DEF next
    <3> QED BY <3>1, <3>2, IdleType DEF Calls
  <2>3. CASE last /\ r.then = "return"
    BY <2>3, IdleType DEF Resumed
  <2> QED BY <2>1, <2>2, <2>3
<1>9. proc' \in [Procs -> Calls] /\ proc'[p] = next /\ \A q \in Procs : q # p => proc'[q] = proc[q]
  BY <1>1, <1>5, <1>6, <1>8
<1>10. CallOK(p)' /\ (Unmarked(p)' => Unmarked(p))
  <2>1. stores' = stores /\ env' = env
    BY DEF durable
  <2>2. CASE ~last
    <3>1. lock' = lock /\ r.i + 1 \in 1..Len(stores)
      BY <2>2, <1>2, <1>5
    <3>2. /\ next.pc = "ensure" /\ next.i = r.i + 1 /\ next.then = r.then /\ next.key = r.key
      BY <2>2, <1>1 DEF Calls
    <3> HIDE DEF next
    <3> QED BY <3>1, <3>2, <2>1, <1>1, <1>9 DEF CallOK, Unmarked, Looping, Syncing
  <2>3. CASE last /\ r.then # "return"
    <3>1. next.pc \in {"request", "queued"} /\ next.i = 0 /\ next.key = r.key
      BY <2>3 DEF Idle, Resumed
    <3>2. lock' # p /\ r.key \in Stores
      BY <2>3, <1>1, <1>5, NoneAssumption DEF CallOK, Looping, Syncing
    <3> HIDE DEF next
    <3> QED BY <3>1, <3>2, <2>1, <2>3, <1>9 DEF CallOK, Unmarked, Looping, Syncing
  <2>4. CASE last /\ r.then = "return"
    <3>1. next = Idle /\ lock' # p
      BY <2>4, <1>1, <1>5, NoneAssumption DEF Resumed
    <3> HIDE DEF next
    <3> QED BY <3>1, <2>1, <1>9 DEF CallOK, Unmarked, Looping, Syncing, Idle
  <2> QED BY <2>2, <2>3, <2>4
<1>11. CallStep(p)
  <2>1. env' = env /\ stores' = stores /\ clock' = clock /\ switches' = switches
    BY DEF durable
  <2>2. lock' = lock \/ (lock = p /\ lock' = None)
    BY <1>5 DEF last
  <2> QED BY <1>2, <1>9, <1>10, <2>1, <2>2 DEF CallStep
<1>12. isAvailable' \in BOOLEAN /\ authIsActive' \in BOOLEAN /\ active' \in Stores
  BY <1>3, <1>5, <1>6 DEF EnabledWith
<1>13. UNCHANGED <<durable, restarts>>
  OBVIOUS
<1> QED BY <1>1, <1>5, <1>7, <1>11, <1>12, <1>13, CallsAfterLocal

\* A call of makeAvailable begins: p goes on as r.
LEMMA StartCalls ==
  ASSUME CallsInv, NEW p \in Procs, NEW r \in Calls, NEW then \in {"return", "setActive", "queue"},
         StartMakeAvailable(p, r, then), p \in env.procs,
         isAvailable' = FALSE, lock' = lock, env' = env, clock' = clock, restarts' = restarts,
         db' = db, UNCHANGED held, stores' \in Seq(Stores), Len(stores') >= Len(stores),
         acked' \subseteq Rows,
         then # "return" => lock # p,
         then # "return" \/ lock = p => r.key \in Stores,
         \/ switches' = switches /\ (then # "return" => Unmarked(p))
         \/ switches' = switches + 1 /\ switches < MaxSwitches
  PROVE  CallsInv'
<1> DEFINE next == [r EXCEPT !.pc = "ensure", !.i = 1, !.list = <<>>, !.then = then]
<1>1. /\ active' = None /\ backups' = <<>> /\ conflictingActives' = <<>>
      /\ proc' = [proc EXCEPT ![p] = next] /\ user' = user /\ authIsActive' = authIsActive
  BY DEF StartMakeAvailable
<1>2. next \in Calls /\ next.pc = "ensure" /\ next.i = 1 /\ next.then = then /\ next.key = r.key
  <2>1. <<>> \in Seq(Stores) /\ 1 \in Nat
    OBVIOUS
  <2> QED BY <2>1 DEF Calls
<1> HIDE DEF next
<1>3. proc' \in [Procs -> Calls] /\ proc'[p] = next /\ \A q \in Procs : q # p => proc'[q] = proc[q]
  BY <1>1, <1>2 DEF CallsInv, TypeOK
<1>4. Len(stores') \in Nat /\ Len(stores') >= 1 /\ stores' # <<>>
  <2>1. stores \in Seq(Stores) /\ stores # <<>>
    BY DEF CallsInv, TypeOK, RecordsOK
  <2>2. Len(stores) \in Nat /\ Len(stores) >= 1
    BY <2>1
  <2>3. Len(stores') \in Nat /\ Len(stores') >= 1
    BY <2>2
  <2> QED BY <2>3
<1>5. CallOK(p)'
  BY <1>2, <1>3, <1>4 DEF CallOK, Looping, Syncing
<1>6. Unmarked(p)' => then # "return"
  BY <1>2, <1>3 DEF Unmarked, Looping
<1>7. CallStep(p)
  BY <1>3, <1>5, <1>6 DEF CallStep
<1>8. /\ HeldType'
      /\ user' \in [Stores -> Stores \cup {None}]
      /\ authIsActive' \in BOOLEAN /\ isAvailable' \in BOOLEAN
      /\ backups' \in Seq(Stores) /\ conflictingActives' \in Seq(Stores)
  <2>1. HeldType' /\ user \in [Stores -> Stores \cup {None}] /\ authIsActive \in BOOLEAN
    BY DEF CallsInv, TypeOK, HeldType, held
  <2>2. authIsActive' \in BOOLEAN /\ isAvailable' \in BOOLEAN
    BY <1>1, <2>1
  <2>3. backups' \in Seq(Stores) /\ conflictingActives' \in Seq(Stores)
    BY <1>1
  <2> QED BY <1>1, <2>1, <2>2, <2>3
<1>9. /\ db' \in [Stores -> [active : Stores \cup {None}, at : Nat]]
      /\ \A s \in Stores : db'[s].at <= clock' /\ (db'[s].active = None => db'[s] = Absent)
  <2>1. \A s \in Stores : db[s] \in [active : Stores \cup {None}, at : Nat]
    BY BoundsAssumption DEF CallsInv, TypeOK, Dates
  <2> QED BY <2>1 DEF CallsInv, TypeOK, RecordsOK
<1> QED BY <1>1, <1>4, <1>7, <1>8, <1>9, CallsAfter

\* Call p goes on as next, and only the lock may change besides.
LEMMA LocalCalls ==
  ASSUME CallsInv, NEW p \in env.procs, NEW next \in Calls, proc' = [proc EXCEPT ![p] = next],
         UNCHANGED <<durable, manager, switches, restarts>>,
         \/ lock' = lock
         \/ lock = p /\ lock' = None
         \/ lock = None /\ lock' = p,
         CallOK(p)', Unmarked(p)' => Unmarked(p)
  PROVE  CallsInv'
<1>1. p \in Procs
  BY EnvFacts DEF CallsInv
<1>2. proc' \in [Procs -> Calls] /\ proc'[p] = next /\ \A q \in Procs : q # p => proc'[q] = proc[q]
  BY <1>1 DEF CallsInv, TypeOK
<1>3. stores' = stores /\ env' = env /\ clock' = clock /\ switches' = switches /\ Len(stores) \in Nat
  BY DEF CallsInv, TypeOK, durable
<1>4. CallStep(p)
  BY <1>2, <1>3 DEF CallStep
<1>5. /\ user' \in [Stores -> Stores \cup {None}] /\ active' \in Stores \cup {None}
      /\ backups' \in Seq(Stores) /\ conflictingActives' \in Seq(Stores)
      /\ isAvailable' \in BOOLEAN /\ authIsActive' \in BOOLEAN
      /\ isAvailable' => active' \in Stores
  BY DEF CallsInv, TypeOK, RecordsOK, manager
<1>6. UNCHANGED <<durable, restarts>>
  OBVIOUS
<1> QED BY <1>1, <1>4, <1>5, <1>6, CallsAfterLocal

\* A page of a sync as the rows see it.
SyncRows(from, to) ==
    \/ \E r \in Pending(from, to) : SyncRow(from, to, r)
    \/ SyncDone(from, to)

\* A page changes the rows of the store it is written to and the link it is on.
LEMMA HeldTyped ==
  ASSUME TypeOK, NEW from \in Stores, NEW to \in Stores, SyncRows(from, to)
  PROVE  /\ HeldType'
         /\ \A s \in Stores : s # to => data'[s] = data[s]
         /\ \A l \in Links : l # <<from, to>> => link'[l] = link[l]
<1> DEFINE l == <<from, to>>
<1>1. /\ data \in [Stores -> SUBSET Rows] /\ link \in [Links -> SyncStates] /\ overtaken \subseteq Rows
      /\ l \in Links
  BY DEF TypeOK, Links
<1> HIDE DEF l
<1>2. /\ link[l].when \in Dates /\ link[l].max \in Dates /\ link[l].counted \in SUBSET Rows
      /\ link[l] \in SyncStates
  BY <1>1 DEF SyncStates
<1>3. CASE \E r \in Pending(from, to) : SyncRow(from, to, r)
  <2>1. PICK r \in Pending(from, to) : SyncRow(from, to, r)
    BY <1>3
  <2>2. r \in Rows /\ r.at \in Dates
    BY <1>1 DEF Pending, Rows
  <2> DEFINE new == [link[l] EXCEPT !.counted = @ \cup {r}, !.max = Later(@, r.at)]
  <2>3. Later(link[l].max, r.at) \in Dates
    BY <1>2, <2>2 DEF Later
  <2>4. new \in SyncStates
    BY <1>2, <2>2, <2>3 DEF SyncStates
  <2>5. /\ data' = [data EXCEPT ![to] = @ \cup {r}] /\ link' = [link EXCEPT ![l] = new]
        /\ overtaken' \subseteq overtaken \cup {r}
    <3>1. data' = [data EXCEPT ![to] = @ \cup {r}] /\ overtaken' \subseteq overtaken \cup {r}
      BY <2>1 DEF SyncRow
    <3>2. link' = [link EXCEPT ![l] = new]
      BY <2>1 DEF SyncRow, l
    <3> QED BY <3>1, <3>2
  <2> HIDE DEF new
  <2>6. data' \in [Stores -> SUBSET Rows] /\ \A s \in Stores : s # to => data'[s] = data[s]
    BY <1>1, <2>2, <2>5
  <2>7. link' \in [Links -> SyncStates] /\ \A k \in Links : k # l => link'[k] = link[k]
    BY <1>1, <2>4, <2>5
  <2>8. overtaken' \subseteq Rows
    BY <1>1, <2>2, <2>5
  <2> QED BY <2>6, <2>7, <2>8 DEF HeldType, l
<1>4. CASE SyncDone(from, to)
  <2> DEFINE when == IF UserMerged(from, to) THEN Later(link[l].max, db[from].at) ELSE link[l].max
             new == [link[l] EXCEPT !.when = when, !.counted = {}]
  <2>1. when \in Dates
    <3>1. db[from].at \in Dates
      BY DEF TypeOK
    <3> QED BY <3>1, <1>2 DEF Later
  <2>2. link' = [link EXCEPT ![l] = new] /\ data' = data /\ overtaken' = overtaken
    BY <1>4 DEF SyncDone, l
  <2> HIDE DEF when
  <2>3. new \in SyncStates
    BY <1>2, <2>1 DEF SyncStates
  <2> HIDE DEF new
  <2> QED BY <1>1, <2>2, <2>3 DEF HeldType, l
<1> QED BY <1>3, <1>4 DEF SyncRows

\* A page is copied; user records may change in the manager's cache.
LEMMA SyncCalls ==
  ASSUME CallsInv, NEW p \in env.procs, NEW from \in Stores, NEW to \in Stores,
         SyncHead(p, from, to), proc[p].todo # <<>>,
         proc[p].pc \in {"merge", "push", "backup"},
         user' \in [Stores -> Stores \cup {None}],
         UNCHANGED <<active, backups, conflictingActives, isAvailable, authIsActive>>
  PROVE  CallsInv'
<1>1. p \in Procs /\ CallOK(p) /\ proc[p] \in Calls
  BY EnvFacts DEF CallsInv, TypeOK
<1>2. /\ db' = IF UserMerged(from, to) THEN [db EXCEPT ![to] = db[from]] ELSE db
      /\ \/ /\ \E r \in Pending(from, to) : SyncRow(from, to, r)
            /\ proc' = proc
         \/ /\ SyncDone(from, to)
            /\ proc' = [proc EXCEPT ![p] = [proc[p] EXCEPT !.todo = Tail(@)]]
      /\ UNCHANGED <<stores, clock, acked, lock, switches, restarts, env>>
  BY DEF SyncHead
<1>3. \A s \in Stores : db[s] \in [active : Stores \cup {None}, at : Nat]
  BY BoundsAssumption DEF CallsInv, TypeOK, Dates
<1>4. /\ db' \in [Stores -> [active : Stores \cup {None}, at : Nat]]
      /\ \A s \in Stores : db'[s].at <= clock' /\ (db'[s].active = None => db'[s] = Absent)
  <2>1. db \in [Stores -> [active : Stores \cup {None}, at : Nat]]
    BY <1>3 DEF CallsInv, TypeOK
  <2>2. \A s \in Stores : db'[s] = db[s] \/ db'[s] = db[from]
    BY <1>2, <2>1
  <2>3. db' \in [Stores -> [active : Stores \cup {None}, at : Nat]]
    BY <1>2, <2>1
  <2> QED BY <1>2, <2>2, <2>3 DEF CallsInv, RecordsOK
<1>5. HeldType'
  <2>1. SyncRows(from, to)
    BY <1>2 DEF SyncRows
  <2> QED BY <2>1, HeldTyped DEF CallsInv
<1>6. /\ proc' \in [Procs -> Calls] /\ \A q \in Procs : q # p => proc'[q] = proc[q]
      /\ proc'[p] = proc[p] \/ proc'[p] = [proc[p] EXCEPT !.todo = Tail(@)]
  <2>1. proc[p].todo \in Seq(Stores) /\ Tail(proc[p].todo) \in Seq(Stores)
    BY <1>1 DEF Calls
  <2>2. [proc[p] EXCEPT !.todo = Tail(@)] \in Calls
    BY <1>1, <2>1 DEF Calls
  <2>3. proc \in [Procs -> Calls]
    BY DEF CallsInv, TypeOK
  <2> QED BY <1>1, <1>2, <2>2, <2>3
<1>7. /\ proc'[p].pc = proc[p].pc /\ proc'[p].i = proc[p].i /\ proc'[p].then = proc[p].then
      /\ proc'[p].key = proc[p].key /\ proc'[p].source = proc[p].source
      /\ p \notin env.procs => proc'[p] = proc[p]
  BY <1>1, <1>6 DEF Calls
<1>8. CallStep(p)
  <2>1. stores' = stores /\ env' = env /\ clock' = clock /\ switches' = switches /\ lock' = lock
    BY <1>2
  <2>2. CallOK(p)' /\ (Unmarked(p)' => Unmarked(p))
    BY <1>1, <1>7, <2>1 DEF CallOK, Unmarked, Looping, Syncing
  <2>3. Len(stores) \in Nat
    BY DEF CallsInv, TypeOK
  <2> QED BY <1>6, <2>1, <2>2, <2>3 DEF CallStep
<1>9. /\ active' \in Stores \cup {None}
      /\ backups' \in Seq(Stores) /\ conflictingActives' \in Seq(Stores)
      /\ isAvailable' \in BOOLEAN /\ authIsActive' \in BOOLEAN
      /\ isAvailable' => active' \in Stores
  BY DEF CallsInv, TypeOK, RecordsOK
<1>10. /\ stores' \in Seq(Stores) /\ stores' # <<>> /\ acked' \subseteq Rows
       /\ restarts' = restarts
  BY <1>2 DEF CallsInv, TypeOK, RecordsOK
<1> QED BY <1>1, <1>4, <1>5, <1>8, <1>9, <1>10, CallsAfter

LEMMA CallsInit == Init => CallsInv
<1> SUFFICES ASSUME Init PROVE CallsInv
  OBVIOUS
<1>1. env.procs \subseteq Procs /\ env.stores \subseteq Stores /\ env \in Environments
  BY EnvironmentsAssumption DEF Init
<1>2. PICK used \in SUBSET (env.stores \ {First}) :
        /\ db = [s \in Stores |-> IF s \in used THEN [active |-> s, at |-> 1] ELSE Absent]
        /\ \E recent \in SUBSET used :
              data = [s \in Stores |->
                        {Row(Basket, 0)} \cup
                        {Row(x, IF x \in recent THEN 1 ELSE 0) : x \in used \cap {s}}]
  BY DEF Init
<1>3. \A s \in Stores : /\ db[s] \in [active : Stores \cup {None}, at : Dates]
                        /\ db[s].at <= 1 /\ (db[s].active = None => db[s] = Absent)
  <2> SUFFICES ASSUME NEW s \in Stores
               PROVE  /\ db[s] \in [active : Stores \cup {None}, at : Dates]
                      /\ db[s].at <= 1 /\ (db[s].active = None => db[s] = Absent)
    OBVIOUS
  <2>1. 0 \in Dates /\ 1 \in Dates
    BY BoundsAssumption DEF Dates
  <2>2. CASE s \in used
    <3>1. db[s] = [active |-> s, at |-> 1]
      BY <1>2, <2>2
    <3> QED BY <3>1, <2>1, NoneAssumption
  <2>3. CASE s \notin used
    <3>1. db[s] = Absent
      BY <1>2, <2>3
    <3> QED BY <3>1, <2>1 DEF Absent
  <2> QED BY <2>2, <2>3
<1>4. HeldType
  <2>1. 0 \in Dates /\ 1 \in Dates
    BY BoundsAssumption DEF Dates
  <2>2. \A x \in used : x \in Legacy
    BY <1>1 DEF Legacy
  <2>3. data \in [Stores -> SUBSET Rows]
    BY <1>2, <2>1, <2>2 DEF Row, Rows
  <2>4. [when |-> 0, max |-> 0, counted |-> {}] \in SyncStates
    BY <2>1 DEF SyncStates
  <2>5. link \in [Links -> SyncStates] /\ overtaken = {}
    BY <2>4 DEF Init
  <2> QED BY <2>3, <2>5 DEF HeldType
<1>5. TypeOK
  <2>1. stores \in Seq(Stores) /\ backups \in Seq(Stores) /\ conflictingActives \in Seq(Stores)
    BY FirstAssumption DEF Init
  <2>2. db \in [Stores -> [active : Stores \cup {None}, at : Dates]]
    BY <1>2, <1>3
  <2>3. proc \in [Procs -> Calls] /\ user \in [Stores -> Stores \cup {None}]
    BY IdleType DEF Init
  <2>4. clock \in 1..(MaxSwitches + 1) /\ switches \in 0..MaxSwitches /\ restarts \in 0..MaxRestarts
    BY BoundsAssumption DEF Init
  <2> QED BY <1>1, <1>4, <2>1, <2>2, <2>3, <2>4 DEF Init, TypeOK, HeldType
<1>6. \A p \in Procs : CallOK(p) /\ ~Unmarked(p)
  BY NoneAssumption DEF Init, CallOK, Unmarked, Idle, Looping, Syncing
<1>7. ClockOK
  <2>1. {p \in Procs : Unmarked(p)} = {}
    BY <1>6
  <2>2. clock = 1 /\ switches = 0
    BY DEF Init
  <2> QED BY <2>1, <2>2, FS_EmptySet DEF ClockOK
<1>8. RecordsOK
  BY <1>3 DEF Init, RecordsOK
<1> QED BY <1>5, <1>6, <1>7, <1>8 DEF CallsInv

\* Everything of the manager is lost, and what is durable stays.
LEMMA CallsRestart == CallsInv /\ Restart => CallsInv'
<1> SUFFICES ASSUME CallsInv, Restart PROVE CallsInv'
  OBVIOUS
<1>1. /\ stores' = stores /\ db' = db /\ UNCHANGED held /\ clock' = clock /\ acked' = acked
      /\ env' = env /\ switches' = switches
  BY DEF Restart, durable
<1>2. TypeOK'
  <2>1. restarts' \in 0..MaxRestarts
    BY EnvFacts, BoundsAssumption DEF Restart, CallsInv, TypeOK
  <2>2. proc' \in [Procs -> Calls] /\ user' \in [Stores -> Stores \cup {None}]
    BY IdleType DEF Restart
  <2>3. backups' \in Seq(Stores) /\ conflictingActives' \in Seq(Stores)
    BY DEF Restart
  <2>4. lock' \in Procs \cup {None} /\ active' \in Stores \cup {None}
    BY DEF Restart
  <2>5. isAvailable' \in BOOLEAN /\ authIsActive' \in BOOLEAN
    BY DEF Restart
  <2> QED BY <1>1, <2>1, <2>2, <2>3, <2>4, <2>5 DEF CallsInv, TypeOK, held
<1>3. \A p \in Procs : CallOK(p)' /\ ~Unmarked(p)'
  BY NoneAssumption DEF Restart, CallOK, Unmarked, Idle, Looping, Syncing
<1>4. ClockOK'
  <2>1. {p \in Procs : Unmarked(p)'} = {}
    BY <1>3
  <2>2. clock <= switches + 1
    <3> DEFINE U == {p \in Procs : Unmarked(p)}
    <3>1. IsFiniteSet(U) /\ clock + Cardinality(U) <= switches + 1
      BY DEF CallsInv, ClockOK
    <3>2. Cardinality(U) \in Nat
      BY <3>1, FS_CardinalityType
    <3>3. clock \in Nat /\ switches \in Nat
      BY BoundsAssumption DEF CallsInv, TypeOK, Dates
    <3> HIDE DEF U
    <3> QED BY <3>1, <3>2, <3>3
  <2>3. clock' \in Nat
    BY <1>1, BoundsAssumption DEF CallsInv, TypeOK
  <2> QED BY <1>1, <2>1, <2>2, <2>3, FS_EmptySet DEF ClockOK
<1>5. RecordsOK'
  BY <1>1 DEF CallsInv, RecordsOK, Restart
<1> QED BY <1>2, <1>3, <1>4, <1>5 DEF CallsInv

\* The steps of makeAvailable.
LEMMA CallsEnsure ==
  ASSUME CallsInv, NEW p \in env.procs
  PROVE  /\ EnsureCached(p) => CallsInv'
         /\ EnsureFetch(p) => CallsInv'
         /\ EnsureApply(p) => CallsInv'
         /\ MakeAvailable(p) => CallsInv'
<1>1. p \in Procs /\ CallOK(p) /\ proc[p] \in Calls /\ proc \in [Procs -> Calls]
  BY EnvFacts DEF CallsInv, TypeOK
<1>2. user \in [Stores -> Stores \cup {None}] /\ Len(stores) \in Nat /\ stores \in Seq(Stores)
  BY DEF CallsInv, TypeOK
<1>3. ASSUME EnsureCached(p) PROVE CallsInv'
  <2>1. Looping(p) /\ SelectAndAdvance(p, user) /\ UNCHANGED <<durable, switches, restarts>>
    BY <1>3 DEF EnsureCached, Looping
  <2> QED BY <1>2, <2>1, SelectCalls
<1>4. ASSUME EnsureApply(p) PROVE CallsInv'
  <2> DEFINE cache == [user EXCEPT ![stores[proc[p].i]] = proc[p].got]
  <2>1. Looping(p) /\ SelectAndAdvance(p, cache) /\ UNCHANGED <<durable, switches, restarts>>
    BY <1>4 DEF EnsureApply, Looping
  <2>2. cache \in [Stores -> Stores \cup {None}]
    BY <1>1, <1>2 DEF Calls
  <2> HIDE DEF cache
  <2> QED BY <2>1, <2>2, SelectCalls
<1>5. ASSUME EnsureFetch(p) PROVE CallsInv'
  <2> DEFINE s == stores[proc[p].i]
             next == [proc[p] EXCEPT !.pc = "ensured", !.got = db'[s].active]
  <2>0. /\ proc[p].pc = "ensure"
        /\ db' = IF db[s] = Absent THEN [db EXCEPT ![s] = [active |-> s, at |-> 0]] ELSE db
        /\ proc' = [proc EXCEPT ![p] = [@ EXCEPT !.pc = "ensured", !.got = db'[s].active]]
        /\ UNCHANGED <<stores, held, clock, acked, manager, lock, switches, restarts, env>>
    BY <1>5 DEF EnsureFetch
  <2>1. proc' = [proc EXCEPT ![p] = next]
    BY <2>0, <1>1
  <2>2. proc[p].i \in 1..Len(stores) /\ s \in Stores
    BY <1>1, <1>2, <2>0 DEF CallOK, Looping
  <2>3. db \in [Stores -> [active : Stores \cup {None}, at : Nat]] /\ clock \in Nat
    BY BoundsAssumption DEF CallsInv, TypeOK, Dates
  <2>4. /\ db' \in [Stores -> [active : Stores \cup {None}, at : Nat]]
        /\ \A x \in Stores : db'[x].at <= clock' /\ (db'[x].active = None => db'[x] = Absent)
        /\ db'[s].active \in Stores
    <3>1. CASE db[s] = Absent
      <4>1. db' = [db EXCEPT ![s] = [active |-> s, at |-> 0]] /\ clock' = clock
        BY <2>0, <3>1
      <4>2. db'[s] = [active |-> s, at |-> 0] /\ \A x \in Stores : x # s => db'[x] = db[x]
        BY <4>1, <2>2, <2>3
      <4>3. db' \in [Stores -> [active : Stores \cup {None}, at : Nat]]
        BY <4>1, <2>2, <2>3
      <4> QED BY <4>1, <4>2, <4>3, <2>2, <2>3, NoneAssumption DEF CallsInv, RecordsOK
    <3>2. CASE db[s] # Absent
      BY <2>0, <2>2, <2>3, <3>2 DEF CallsInv, RecordsOK
    <3> QED BY <3>1, <3>2
  <2> HIDE DEF s
  <2>5. next \in Calls /\ next.pc = "ensured" /\ next.got \in Stores /\ next.i = proc[p].i
        /\ next.then = proc[p].then /\ next.key = proc[p].key
    BY <1>1, <2>4 DEF Calls
  <2> HIDE DEF next
  <2>6. proc' \in [Procs -> Calls] /\ proc'[p] = next /\ \A q \in Procs : q # p => proc'[q] = proc[q]
    BY <1>1, <2>1, <2>5
  <2>7. CallOK(p)' /\ (Unmarked(p)' => Unmarked(p))
    BY <1>1, <2>0, <2>5, <2>6 DEF CallOK, Unmarked, Looping, Syncing
  <2>8. CallStep(p)
    BY <1>2, <2>0, <2>6, <2>7 DEF CallStep
  <2>9. /\ user' \in [Stores -> Stores \cup {None}] /\ active' \in Stores \cup {None}
        /\ backups' \in Seq(Stores) /\ conflictingActives' \in Seq(Stores)
        /\ isAvailable' \in BOOLEAN /\ authIsActive' \in BOOLEAN
        /\ isAvailable' => active' \in Stores
    BY <2>0 DEF CallsInv, TypeOK, RecordsOK, manager
  <2>10. /\ stores' \in Seq(Stores) /\ stores' # <<>> /\ acked' \subseteq Rows
         /\ HeldType' /\ restarts' = restarts
    BY <2>0 DEF CallsInv, TypeOK, RecordsOK, HeldType, held
  <2> QED BY <1>1, <2>4, <2>8, <2>9, <2>10, CallsAfter
<1>6. ASSUME MakeAvailable(p) PROVE CallsInv'
  <2>1. /\ proc[p].pc = "idle" /\ StartMakeAvailable(p, Idle, "return") /\ isAvailable' = FALSE
        /\ lock' = lock /\ stores' = stores /\ db' = db /\ UNCHANGED held /\ clock' = clock
        /\ acked' = acked /\ env' = env /\ switches' = switches /\ restarts' = restarts
    <3>1. isAvailable = FALSE /\ isAvailable' = isAvailable
      BY <1>6 DEF MakeAvailable, CallsInv, TypeOK
    <3> QED BY <1>6, <3>1 DEF MakeAvailable, durable
  <2>2. lock # p
    BY <1>1, <2>1 DEF CallOK, Looping, Syncing
  <2>3. stores' \in Seq(Stores) /\ Len(stores') >= Len(stores) /\ acked' \subseteq Rows
    BY <1>2, <2>1 DEF CallsInv, TypeOK
  <2> QED BY <1>1, <2>1, <2>2, <2>3, IdleType, StartCalls
<1> QED BY <1>3, <1>4, <1>5, <1>6

\* The manager's other operations, up to the sync lock.
LEMMA CallsRequest ==
  ASSUME CallsInv, NEW p \in env.procs
  PROVE  /\ \A s \in env.stores : AddWalletStorageProvider(p, s) => CallsInv'
         /\ \A s \in env.stores : SetActive(p, s) => CallsInv'
         /\ SetActiveRetries(p) => CallsInv'
         /\ SetActiveReturns(p) => CallsInv'
         /\ SetActiveQueues(p) => CallsInv'
         /\ SetActiveFindsUnavailable(p) => CallsInv'
         /\ Throw(p) => CallsInv'
<1>1. p \in Procs /\ CallOK(p) /\ proc[p] \in Calls /\ proc \in [Procs -> Calls]
  BY EnvFacts DEF CallsInv, TypeOK
<1>2. /\ Len(stores) \in Nat /\ stores \in Seq(Stores) /\ acked \subseteq Rows
      /\ data \in [Stores -> SUBSET Rows] /\ env.stores \subseteq Stores
  BY EnvFacts DEF CallsInv, TypeOK
<1>3. ASSUME NEW s \in env.stores, AddWalletStorageProvider(p, s) PROVE CallsInv'
  <2>1. /\ proc[p].pc = "idle" /\ StartMakeAvailable(p, Idle, "return") /\ isAvailable' = FALSE
        /\ lock' = lock /\ stores' = Append(stores, s) /\ db' = db /\ UNCHANGED held
        /\ clock' = clock /\ acked' = acked \cup data[s]
        /\ env' = env /\ switches' = switches /\ restarts' = restarts
    BY <1>3 DEF AddWalletStorageProvider
  <2>2. lock # p
    BY <1>1, <2>1 DEF CallOK, Looping, Syncing
  <2>3. s \in Stores /\ stores' \in Seq(Stores) /\ Len(stores') >= Len(stores)
    BY <1>2, <2>1
  <2>4. acked' \subseteq Rows
    BY <1>2, <2>1, <2>3
  <2> QED BY <1>1, <2>1, <2>2, <2>3, <2>4, IdleType, StartCalls
<1>4. ASSUME NEW s \in env.stores, SetActive(p, s) PROVE CallsInv'
  <2> DEFINE r == [Idle EXCEPT !.key = s]
             next == [r EXCEPT !.pc = "request"]
  <2>0. /\ proc[p].pc = "idle" /\ switches < env.switches /\ switches' = switches + 1
        /\ lock' = lock /\ restarts' = restarts /\ UNCHANGED durable
        /\ \/ /\ isAvailable
              /\ proc' = [proc EXCEPT ![p] = next]
              /\ UNCHANGED manager
           \/ /\ ~isAvailable
              /\ StartMakeAvailable(p, r, "setActive")
              /\ UNCHANGED isAvailable
    BY <1>4 DEF SetActive
  <2>0a. switches < MaxSwitches
    <3>1. switches \in Nat /\ env.switches \in 0..MaxSwitches /\ MaxSwitches \in Nat
      BY EnvFacts, BoundsAssumption DEF CallsInv, TypeOK
    <3> QED BY <2>0, <3>1
  <2>1. s \in Stores /\ r \in Calls /\ r.key = s /\ lock # p
    BY <1>1, <1>2, <2>0, IdleType DEF Calls, CallOK, Looping, Syncing
  <2>1a. r.i = 0
    BY DEF Idle
  <2> HIDE DEF r
  <2>2. CASE isAvailable /\ proc' = [proc EXCEPT ![p] = next] /\ UNCHANGED manager
    <3>1. next \in Calls /\ next.pc = "request" /\ next.key = s /\ next.i = 0
      BY <2>1, <2>1a DEF Calls
    <3> HIDE DEF next
    <3>2. proc' \in [Procs -> Calls] /\ proc'[p] = next /\ \A q \in Procs : q # p => proc'[q] = proc[q]
      BY <1>1, <2>2, <3>1
    <3>3. env' = env /\ stores' = stores /\ clock' = clock
      BY <2>0 DEF durable
    <3>4. CallOK(p)'
      BY <2>0, <2>1, <3>1, <3>2, <3>3 DEF CallOK, Looping, Syncing
    <3>5. CallStep(p)
      BY <1>2, <2>0, <2>0a, <3>2, <3>3, <3>4 DEF CallStep
    <3>6. /\ user' \in [Stores -> Stores \cup {None}] /\ active' \in Stores \cup {None}
          /\ backups' \in Seq(Stores) /\ conflictingActives' \in Seq(Stores)
          /\ isAvailable' \in BOOLEAN /\ authIsActive' \in BOOLEAN
          /\ isAvailable' => active' \in Stores
      BY <2>2 DEF CallsInv, TypeOK, RecordsOK, manager
    <3>7. UNCHANGED <<durable, restarts>>
      BY <2>0
    <3> QED BY <1>1, <3>5, <3>6, <3>7, CallsAfterLocal
  <2>3. CASE ~isAvailable /\ StartMakeAvailable(p, r, "setActive") /\ UNCHANGED isAvailable
    <3>1. /\ stores' = stores /\ db' = db /\ UNCHANGED held /\ clock' = clock /\ acked' = acked
          /\ env' = env
      BY <2>0 DEF durable
    <3>2. isAvailable' = FALSE
      BY <2>3 DEF CallsInv, TypeOK
    <3>3. stores' \in Seq(Stores) /\ Len(stores') >= Len(stores) /\ acked' \subseteq Rows
      BY <1>2, <3>1
    <3> QED BY <1>1, <2>0, <2>0a, <2>1, <2>3, <3>1, <3>2, <3>3, StartCalls
  <2> QED BY <2>0, <2>2, <2>3
<1>5. ASSUME SetActiveRetries(p) PROVE CallsInv'
  <2>1. /\ proc[p].pc = "request" /\ StartMakeAvailable(p, proc[p], "setActive")
        /\ lock' = lock /\ stores' = stores /\ db' = db /\ UNCHANGED held /\ clock' = clock
        /\ acked' = acked /\ env' = env /\ switches' = switches /\ restarts' = restarts
    BY <1>5 DEF SetActiveRetries, durable
  <2>2. isAvailable' = FALSE
    BY <1>5 DEF SetActiveRetries, CallsInv, TypeOK
  <2>3. lock # p /\ proc[p].key \in Stores /\ Unmarked(p)
    BY <1>1, <2>1 DEF CallOK, Looping, Syncing, Unmarked
  <2>4. stores' \in Seq(Stores) /\ Len(stores') >= Len(stores) /\ acked' \subseteq Rows
    BY <1>2, <2>1
  <2> QED BY <1>1, <2>1, <2>2, <2>3, <2>4, StartCalls
<1>6. ASSUME SetActiveReturns(p) PROVE CallsInv'
  <2>1. /\ proc[p].pc = "request" /\ proc' = [proc EXCEPT ![p] = Idle] /\ lock' = lock
        /\ UNCHANGED <<durable, manager, switches, restarts>>
    BY <1>6 DEF SetActiveReturns
  <2>2. lock # p /\ proc'[p] = Idle /\ env' = env
    BY <1>1, <2>1 DEF CallOK, Looping, Syncing, durable
  <2>3. CallOK(p)' /\ ~Unmarked(p)'
    BY <2>1, <2>2 DEF CallOK, Unmarked, Looping, Syncing, Idle
  <2> QED BY <2>1, <2>3, IdleType, LocalCalls
<1>7. ASSUME SetActiveQueues(p) PROVE CallsInv'
  <2> DEFINE next == [proc[p] EXCEPT !.pc = "queued"]
  <2>1. /\ proc[p].pc = "request" /\ proc' = [proc EXCEPT ![p] = next] /\ lock' = lock
        /\ UNCHANGED <<durable, manager, switches, restarts>>
    BY <1>7 DEF SetActiveQueues
  <2>2. next \in Calls /\ next.pc = "queued" /\ next.key = proc[p].key /\ next.i = proc[p].i
    BY <1>1 DEF Calls
  <2> HIDE DEF next
  <2>3. lock # p /\ proc'[p] = next /\ env' = env
    BY <1>1, <2>1 DEF CallOK, Looping, Syncing, durable
  <2>4. CallOK(p)' /\ Unmarked(p)
    BY <1>1, <2>1, <2>2, <2>3 DEF CallOK, Unmarked, Looping, Syncing
  <2> QED BY <2>1, <2>2, <2>4, LocalCalls
<1>8. ASSUME Throw(p) PROVE CallsInv'
  <2>1. /\ proc' = [proc EXCEPT ![p] = Idle] /\ lock' = IF lock = p THEN None ELSE lock
        /\ UNCHANGED <<durable, manager, switches, restarts>>
    BY <1>8 DEF Throw
  <2>2. lock' # p /\ proc'[p] = Idle /\ env' = env
    BY <1>1, <2>1, NoneAssumption DEF durable
  <2>3. CallOK(p)' /\ ~Unmarked(p)'
    BY <2>2 DEF CallOK, Unmarked, Looping, Syncing, Idle
  <2>4. \/ lock' = lock
        \/ lock = p /\ lock' = None
        \/ lock = None /\ lock' = p
    BY <2>1
  <2> QED BY <2>1, <2>3, <2>4, IdleType, LocalCalls
<1>9. ASSUME SetActiveFindsUnavailable(p) PROVE CallsInv'
  <2>1. /\ proc[p].pc = "queued" /\ lock' = lock /\ isAvailable' = isAvailable /\ ~isAvailable
        /\ \/ StartMakeAvailable(p, proc[p], "queue")
           \/ /\ proc' = [proc EXCEPT ![p] = Idle]
              /\ UNCHANGED <<user, active, backups, conflictingActives, authIsActive>>
        /\ UNCHANGED <<durable, switches, restarts>>
    BY <1>9 DEF SetActiveFindsUnavailable
  <2>2. lock # p /\ proc[p].key \in Stores /\ Unmarked(p)
    BY <1>1, <2>1 DEF CallOK, Looping, Syncing, Unmarked
  <2>3. CASE StartMakeAvailable(p, proc[p], "queue")
    <3>1. /\ stores' = stores /\ db' = db /\ UNCHANGED held /\ clock' = clock /\ acked' = acked
          /\ env' = env
      BY <2>1 DEF durable
    <3>2. isAvailable' = FALSE
      BY <2>1 DEF CallsInv, TypeOK
    <3>3. stores' \in Seq(Stores) /\ Len(stores') >= Len(stores) /\ acked' \subseteq Rows
      BY <1>2, <3>1
    <3> QED BY <1>1, <2>1, <2>2, <2>3, <3>1, <3>2, <3>3, StartCalls
  <2>4. CASE /\ proc' = [proc EXCEPT ![p] = Idle]
             /\ UNCHANGED <<user, active, backups, conflictingActives, authIsActive>>
    <3>1. proc'[p] = Idle /\ env' = env /\ lock' # p /\ UNCHANGED <<durable, manager, switches, restarts>>
      BY <1>1, <2>1, <2>2, <2>4 DEF durable, manager
    <3>2. CallOK(p)' /\ ~Unmarked(p)'
      BY <3>1 DEF CallOK, Unmarked, Looping, Syncing, Idle
    <3> QED BY <2>1, <2>4, <3>1, <3>2, IdleType, LocalCalls
  <2> QED BY <2>1, <2>3, <2>4
<1> QED BY <1>3, <1>4, <1>5, <1>6, <1>7, <1>8, <1>9

\* setActive and updateBackups under the sync lock.
LEMMA CallsSwitch ==
  ASSUME CallsInv, NEW p \in env.procs
  PROVE  /\ SetActiveBegins(p) => CallsInv'
         /\ MergeConflict(p) => CallsInv'
         /\ ChooseBackupSource(p) => CallsInv'
         /\ MarkActive(p) => CallsInv'
         /\ PushToStore(p) => CallsInv'
         /\ SetActiveEnds(p) => CallsInv'
<1>1. p \in Procs /\ CallOK(p) /\ proc[p] \in Calls /\ proc \in [Procs -> Calls]
  BY EnvFacts DEF CallsInv, TypeOK
<1>2. /\ Len(stores) \in Nat /\ stores \in Seq(Stores) /\ acked \subseteq Rows
      /\ data \in [Stores -> SUBSET Rows] /\ env.stores \subseteq Stores
      /\ user \in [Stores -> Stores \cup {None}] /\ active \in Stores \cup {None}
      /\ conflictingActives \in Seq(Stores) /\ backups \in Seq(Stores)
  BY EnvFacts DEF CallsInv, TypeOK
<1>3. isAvailable => active \in Stores
  BY DEF CallsInv, RecordsOK
<1>4. ASSUME SetActiveBegins(p) PROVE CallsInv'
  <2> DEFINE confl == IF conflictingActives = <<>> THEN <<>>
                      ELSE Filter(Append(conflictingActives, active), Stores \ {proc[p].key})
             next == [proc[p] EXCEPT !.pc = "merge", !.todo = confl]
  <2>0. /\ proc[p].pc = "queued" /\ lock = None /\ isAvailable
        /\ lock' = p /\ conflictingActives' = confl
        /\ proc' = [proc EXCEPT ![p] = next]
        /\ UNCHANGED <<durable, user, active, backups, isAvailable, authIsActive, switches, restarts>>
    BY <1>4 DEF SetActiveBegins
  <2>1. env' = env /\ stores' = stores /\ clock' = clock
    BY <2>0 DEF durable
  <2>2. confl \in Seq(Stores)
    <3>1. Append(conflictingActives, active) \in Seq(Stores)
      BY <1>2, <1>3, <2>0
    <3>2. Filter(Append(conflictingActives, active), Stores \ {proc[p].key}) \in Seq(Stores)
      BY <3>1, FilterFacts
    <3> QED BY <3>2
  <2> HIDE DEF confl
  <2>3. next \in Calls /\ next.pc = "merge" /\ next.key = proc[p].key /\ next.i = proc[p].i
    BY <1>1, <2>2 DEF Calls
  <2> HIDE DEF next
  <2>4. proc' \in [Procs -> Calls] /\ proc'[p] = next /\ \A q \in Procs : q # p => proc'[q] = proc[q]
    BY <1>1, <2>0, <2>3
  <2>5. CallOK(p)' /\ Unmarked(p) /\ lock' = p
    BY <1>1, <2>0, <2>1, <2>3, <2>4 DEF CallOK, Looping, Syncing, Unmarked
  <2>6. CallStep(p)
    BY <1>2, <2>0, <2>1, <2>4, <2>5 DEF CallStep
  <2>7. conflictingActives' \in Seq(Stores) /\ UNCHANGED <<durable, restarts>>
    BY <2>0, <2>2
  <2>8. /\ user' \in [Stores -> Stores \cup {None}] /\ active' \in Stores \cup {None}
        /\ backups' \in Seq(Stores) /\ (isAvailable' => active' \in Stores)
    BY <1>2, <1>3, <2>0
  <2>9. isAvailable' \in BOOLEAN /\ authIsActive' \in BOOLEAN
    BY <2>0 DEF CallsInv, TypeOK
  <2> QED BY <1>1, <2>6, <2>7, <2>8, <2>9, CallsAfterLocal
<1>5. ASSUME MergeConflict(p) PROVE CallsInv'
  <2>1. /\ proc[p].pc = "merge" /\ proc[p].todo # <<>>
        /\ SyncHead(p, Head(proc[p].todo), proc[p].key) /\ UNCHANGED manager
    BY <1>5 DEF MergeConflict
  <2>2. proc[p].key \in Stores /\ Head(proc[p].todo) \in Stores
    BY <1>1, <2>1 DEF CallOK, Syncing, Calls
  <2>3. /\ user' \in [Stores -> Stores \cup {None}]
        /\ UNCHANGED <<active, backups, conflictingActives, isAvailable, authIsActive>>
    BY <1>2, <2>1 DEF manager
  <2> QED BY <2>1, <2>2, <2>3, SyncCalls
<1>6. ASSUME ChooseBackupSource(p) PROVE CallsInv'
  <2> DEFINE source == IF conflictingActives # <<>> THEN proc[p].key ELSE active
             next == [proc[p] EXCEPT !.pc = "mark", !.source = source]
  <2>0. /\ proc[p].pc = "merge" /\ UNCHANGED <<durable, manager, switches, restarts>>
        /\ IF source = None
           THEN proc' = [proc EXCEPT ![p] = Idle] /\ lock' = None
           ELSE proc' = [proc EXCEPT ![p] = next] /\ lock' = lock
    BY <1>6 DEF ChooseBackupSource
  <2>1. env' = env /\ lock = p /\ source \in Stores \cup {None}
    BY <1>1, <1>2, <2>0 DEF durable, CallOK, Syncing, Calls
  <2> HIDE DEF source
  <2>2. CASE source = None
    <3>1. lock' # p /\ lock' = None /\ proc'[p] = Idle /\ proc' = [proc EXCEPT ![p] = Idle]
      BY <1>1, <2>0, <2>2, NoneAssumption
    <3>2. CallOK(p)' /\ ~Unmarked(p)'
      BY <2>1, <3>1 DEF CallOK, Unmarked, Looping, Syncing, Idle
    <3> QED BY <2>0, <2>1, <3>1, <3>2, IdleType, LocalCalls
  <2>3. CASE source # None
    <3>1. /\ next \in Calls /\ next.pc = "mark" /\ next.key = proc[p].key /\ next.i = proc[p].i
          /\ next.source \in Stores
      BY <1>1, <2>1, <2>3 DEF Calls
    <3> HIDE DEF next
    <3>2. proc'[p] = next /\ proc' = [proc EXCEPT ![p] = next] /\ lock' = lock
      BY <1>1, <2>0, <2>3
    <3>3. CallOK(p)' /\ Unmarked(p)
      BY <1>1, <2>0, <2>1, <3>1, <3>2 DEF CallOK, Unmarked, Looping, Syncing
    <3> QED BY <2>0, <3>1, <3>2, <3>3, LocalCalls
  <2> QED BY <2>2, <2>3
<1>7. ASSUME MarkActive(p) PROVE CallsInv'
  <2> DEFINE next == [proc[p] EXCEPT !.pc = "push", !.todo = stores]
             mark == [active |-> proc[p].key, at |-> clock + 1]
  <2>0. /\ proc[p].pc = "mark" /\ clock' = clock + 1
        /\ db' = [db EXCEPT ![proc[p].source] = mark]
        /\ proc' = [proc EXCEPT ![p] = next]
        /\ UNCHANGED <<stores, held, acked, manager, lock, switches, restarts, env>>
    BY <1>7 DEF MarkActive
  <2>1. /\ next \in Calls /\ next.pc = "push" /\ next.key = proc[p].key /\ next.i = proc[p].i
        /\ next.source = proc[p].source /\ proc[p].source \in Stores /\ proc[p].key \in Stores
    BY <1>1, <1>2, <2>0 DEF Calls, CallOK, Syncing
  <2> HIDE DEF next
  <2>2. proc' \in [Procs -> Calls] /\ proc'[p] = next /\ \A q \in Procs : q # p => proc'[q] = proc[q]
    BY <1>1, <2>0, <2>1
  <2>3. CallOK(p)' /\ Unmarked(p) /\ ~Unmarked(p)'
    BY <1>1, <2>0, <2>1, <2>2 DEF CallOK, Looping, Syncing, Unmarked
  <2>4. CallStep(p)
    BY <1>2, <2>0, <2>2, <2>3 DEF CallStep
  <2>5. db \in [Stores -> [active : Stores \cup {None}, at : Nat]] /\ clock \in Nat
    BY BoundsAssumption DEF CallsInv, TypeOK, Dates
  <2>6. mark \in [active : Stores \cup {None}, at : Nat] /\ mark.at = clock + 1 /\ mark.active # None
    BY <2>1, <2>5, NoneAssumption
  <2> HIDE DEF mark
  <2>7. /\ db' \in [Stores -> [active : Stores \cup {None}, at : Nat]]
        /\ \A s \in Stores : db'[s] = mark \/ db'[s] = db[s]
    BY <2>0, <2>5, <2>6
  <2>8. \A s \in Stores : db'[s].at <= clock' /\ (db'[s].active = None => db'[s] = Absent)
    <3> SUFFICES ASSUME NEW s \in Stores
                 PROVE  db'[s].at <= clock' /\ (db'[s].active = None => db'[s] = Absent)
      OBVIOUS
    <3>1. db[s].at <= clock /\ (db[s].active = None => db[s] = Absent) /\ db[s].at \in Nat
      BY <2>5 DEF CallsInv, RecordsOK
    <3> QED BY <3>1, <2>0, <2>5, <2>6, <2>7
  <2>9. /\ user' \in [Stores -> Stores \cup {None}] /\ active' \in Stores \cup {None}
        /\ backups' \in Seq(Stores) /\ conflictingActives' \in Seq(Stores)
        /\ isAvailable' \in BOOLEAN /\ authIsActive' \in BOOLEAN
        /\ isAvailable' => active' \in Stores
    BY <2>0 DEF CallsInv, TypeOK, RecordsOK, manager
  <2>10. /\ stores' \in Seq(Stores) /\ stores' # <<>> /\ acked' \subseteq Rows
         /\ HeldType' /\ restarts' = restarts
    BY <2>0 DEF CallsInv, TypeOK, RecordsOK, HeldType, held
  <2> QED BY <1>1, <2>4, <2>7, <2>8, <2>9, <2>10, CallsAfter
<1>8. ASSUME PushToStore(p) PROVE CallsInv'
  <2> DEFINE s == Head(proc[p].todo)
             next == [proc[p] EXCEPT !.todo = Tail(@)]
  <2>0. /\ proc[p].pc = "push" /\ proc[p].todo # <<>> /\ user' = [user EXCEPT ![s] = proc[p].key]
        /\ IF s = proc[p].source
           THEN /\ proc' = [proc EXCEPT ![p].todo = Tail(@)]
                /\ UNCHANGED <<durable, lock, switches, restarts>>
           ELSE SyncHead(p, proc[p].source, s)
        /\ UNCHANGED <<active, backups, conflictingActives, isAvailable, authIsActive>>
    BY <1>8 DEF PushToStore
  <2>1. s \in Stores /\ proc[p].source \in Stores /\ proc[p].key \in Stores
    BY <1>1, <2>0 DEF Calls, CallOK, Syncing
  <2> HIDE DEF s
  <2>2. user' \in [Stores -> Stores \cup {None}]
    BY <1>2, <2>0, <2>1
  <2>3. CASE s # proc[p].source
    BY <2>0, <2>1, <2>2, <2>3, SyncCalls
  <2>4. CASE s = proc[p].source
    <3>1. /\ proc' = [proc EXCEPT ![p] = next] /\ UNCHANGED <<durable, lock, switches, restarts>>
      BY <2>0, <2>4
    <3>2. /\ next \in Calls /\ next.pc = "push" /\ next.key = proc[p].key /\ next.i = proc[p].i
          /\ next.source = proc[p].source
      <4>1. proc[p].pc = "push" /\ Tail(proc[p].todo) \in Seq(Stores)
        BY <1>1, <2>0 DEF Calls
      <4> QED BY <1>1, <4>1 DEF Calls
    <3> HIDE DEF next
    <3>3. proc' \in [Procs -> Calls] /\ proc'[p] = next /\ \A q \in Procs : q # p => proc'[q] = proc[q]
      BY <1>1, <3>1, <3>2
    <3>4. stores' = stores /\ env' = env /\ clock' = clock /\ switches' = switches /\ lock' = lock
      BY <3>1 DEF durable
    <3>5. CallOK(p)' /\ ~Unmarked(p)'
      BY <1>1, <2>0, <3>2, <3>3, <3>4 DEF CallOK, Looping, Syncing, Unmarked
    <3>6. CallStep(p)
      BY <1>2, <3>3, <3>4, <3>5 DEF CallStep
    <3>7. /\ active' \in Stores \cup {None}
          /\ backups' \in Seq(Stores) /\ conflictingActives' \in Seq(Stores)
          /\ isAvailable' \in BOOLEAN /\ authIsActive' \in BOOLEAN
          /\ isAvailable' => active' \in Stores
      BY <2>0 DEF CallsInv, TypeOK, RecordsOK
    <3>8. UNCHANGED <<durable, restarts>>
      BY <3>1
    <3> QED BY <1>1, <2>2, <3>6, <3>7, <3>8, CallsAfterLocal
  <2> QED BY <2>3, <2>4
<1>9. ASSUME SetActiveEnds(p) PROVE CallsInv'
  <2>1. /\ proc[p].pc = "push" /\ StartMakeAvailable(p, proc[p], "return") /\ isAvailable' = FALSE
        /\ lock' = lock /\ stores' = stores /\ db' = db /\ UNCHANGED held /\ clock' = clock
        /\ acked' = acked /\ env' = env /\ switches' = switches /\ restarts' = restarts
    BY <1>9 DEF SetActiveEnds, durable
  <2>2. proc[p].key \in Stores
    BY <1>1, <2>1 DEF CallOK, Syncing
  <2>3. stores' \in Seq(Stores) /\ Len(stores') >= Len(stores) /\ acked' \subseteq Rows
    BY <1>2, <2>1
  <2> QED BY <1>1, <2>1, <2>2, <2>3, StartCalls
<1> QED BY <1>4, <1>5, <1>6, <1>7, <1>8, <1>9

LEMMA CallsBackup ==
  ASSUME CallsInv, NEW p \in env.procs
  PROVE  /\ UpdateBackups(p) => CallsInv'
         /\ BackupStore(p) => CallsInv'
         /\ UpdateBackupsEnds(p) => CallsInv'
<1>1. p \in Procs /\ CallOK(p) /\ proc[p] \in Calls /\ proc \in [Procs -> Calls]
  BY EnvFacts DEF CallsInv, TypeOK
<1>2. user \in [Stores -> Stores \cup {None}] /\ backups \in Seq(Stores)
  BY DEF CallsInv, TypeOK
<1>3. ASSUME UpdateBackups(p) PROVE CallsInv'
  <2> DEFINE next == [Idle EXCEPT !.pc = "backup", !.source = active, !.todo = backups]
  <2>0. /\ proc[p].pc = "idle" /\ lock = None /\ lock' = p /\ proc' = [proc EXCEPT ![p] = next]
        /\ UNCHANGED <<durable, manager, switches, restarts>> /\ isAvailable
    BY <1>3 DEF UpdateBackups
  <2>1. active \in Stores
    BY <2>0 DEF CallsInv, RecordsOK
  <2>2. next \in Calls /\ next.pc = "backup" /\ next.source \in Stores /\ next.i = 0 /\ next.key = None
    <3>1. next \in Calls
      BY <1>2, <2>1, IdleType DEF Calls
    <3> QED BY <3>1, <2>1 DEF Idle
  <2> HIDE DEF next
  <2>3. proc'[p] = next /\ env' = env
    BY <1>1, <2>0 DEF durable
  <2>4. CallOK(p)' /\ ~Unmarked(p)'
    BY <2>0, <2>2, <2>3 DEF CallOK, Unmarked, Looping, Syncing
  <2> QED BY <2>0, <2>2, <2>4, LocalCalls
<1>4. ASSUME BackupStore(p) PROVE CallsInv'
  <2>1. /\ proc[p].pc = "backup" /\ proc[p].todo # <<>>
        /\ SyncHead(p, proc[p].source, Head(proc[p].todo)) /\ UNCHANGED manager
    BY <1>4 DEF BackupStore
  <2>2. proc[p].source \in Stores /\ Head(proc[p].todo) \in Stores
    BY <1>1, <2>1 DEF CallOK, Syncing, Calls
  <2>3. /\ user' \in [Stores -> Stores \cup {None}]
        /\ UNCHANGED <<active, backups, conflictingActives, isAvailable, authIsActive>>
    BY <1>2, <2>1 DEF manager
  <2> QED BY <2>1, <2>2, <2>3, SyncCalls
<1>5. ASSUME UpdateBackupsEnds(p) PROVE CallsInv'
  <2>1. /\ proc[p].pc = "backup" /\ proc' = [proc EXCEPT ![p] = Idle] /\ lock' = None
        /\ UNCHANGED <<durable, manager, switches, restarts>>
    BY <1>5 DEF UpdateBackupsEnds
  <2>2. lock = p /\ lock' # p /\ proc'[p] = Idle /\ env' = env
    BY <1>1, <2>1, NoneAssumption DEF durable, CallOK
  <2>3. CallOK(p)' /\ ~Unmarked(p)'
    BY <2>2 DEF CallOK, Unmarked, Looping, Syncing, Idle
  <2> QED BY <2>1, <2>2, <2>3, IdleType, LocalCalls
<1> QED BY <1>3, <1>4, <1>5

LEMMA CallsWrite ==
  ASSUME CallsInv, NEW w \in Writes, Write(w)
  PROVE  CallsInv'
<1>1. /\ data' = [data EXCEPT ![active] = @ \cup {Row(w, clock)}]
      /\ acked' = acked \cup {Row(w, clock)} /\ isAvailable
      /\ UNCHANGED <<stores, db, link, overtaken, clock, manager, proc, lock, switches, restarts, env>>
  BY DEF Write
<1>2. active \in Stores
  BY <1>1 DEF CallsInv, RecordsOK
<1>3. data' \in [Stores -> SUBSET Rows] /\ acked' \subseteq Rows
  <2>1. Row(w, clock) \in Rows
    BY BoundsAssumption DEF CallsInv, TypeOK, Row, Rows, Dates
  <2> QED BY <1>1, <1>2, <2>1 DEF CallsInv, TypeOK
<1>4. TypeOK'
  BY <1>1, <1>3 DEF CallsInv, TypeOK, manager
<1>5. RecordsOK'
  BY <1>1 DEF CallsInv, RecordsOK, manager
<1>6. \A p \in Procs : CallOK(p)' /\ (Unmarked(p)' <=> Unmarked(p))
  BY <1>1 DEF CallsInv, CallOK, Unmarked, Looping, Syncing
<1>7. ClockOK'
  <2>1. {p \in Procs : Unmarked(p)'} = {p \in Procs : Unmarked(p)}
    BY <1>6
  <2> QED BY <1>1, <2>1 DEF CallsInv, ClockOK
<1> QED BY <1>4, <1>5, <1>6, <1>7 DEF CallsInv

LEMMA CallsNext == CallsInv /\ [Next]_vars => CallsInv'
<1> SUFFICES ASSUME CallsInv, [Next]_vars PROVE CallsInv'
  OBVIOUS
<1>1. ASSUME NEW p \in env.procs, MakeAvailable(p) \/ UpdateBackups(p) \/ Step(p) PROVE CallsInv'
  BY <1>1, CallsEnsure, CallsRequest, CallsSwitch, CallsBackup DEF Step
<1>2. ASSUME NEW p \in env.procs, NEW s \in env.stores,
             AddWalletStorageProvider(p, s) \/ SetActive(p, s)
      PROVE  CallsInv'
  BY <1>2, CallsRequest
<1>3. CASE UNCHANGED vars
  <2>1. /\ UNCHANGED <<stores, db, held, clock, acked, env>> /\ UNCHANGED <<proc, lock, switches, restarts>>
        /\ UNCHANGED <<user, active, backups, conflictingActives, isAvailable, authIsActive>>
    BY <1>3 DEF vars, durable, manager
  <2>2. \A p \in Procs : CallOK(p)' /\ (Unmarked(p)' <=> Unmarked(p))
    BY <2>1 DEF CallsInv, CallOK, Unmarked, Looping, Syncing
  <2>3. ClockOK'
    <3>1. {p \in Procs : Unmarked(p)'} = {p \in Procs : Unmarked(p)}
      BY <2>2
    <3> QED BY <2>1, <3>1 DEF CallsInv, ClockOK
  <2>4. TypeOK' /\ RecordsOK'
    BY <2>1 DEF CallsInv, TypeOK, RecordsOK, held
  <2> QED BY <2>2, <2>3, <2>4 DEF CallsInv
<1> QED BY <1>1, <1>2, <1>3, CallsWrite, CallsRestart DEF Next

-----------------------------------------------------------------------------
(***************************************************************************)
(* LinkInv.                                                                *)
(***************************************************************************)
LEMMA DatesTyped ==
  ASSUME TypeOK
  PROVE  /\ clock \in Nat /\ Dates \subseteq Nat
         /\ \A s \in Stores : /\ db[s].at \in Nat
                              /\ \A r \in data[s] : r \in Rows /\ r.at \in Nat
         /\ \A a, b \in Stores : /\ link[<<a, b>>].when \in Nat /\ link[<<a, b>>].max \in Nat
                                 /\ link[<<a, b>>].counted \subseteq Rows
<1>1. Dates \subseteq Nat /\ clock \in Nat
  BY BoundsAssumption DEF TypeOK, Dates
<1>2. \A s \in Stores : db[s] \in [active : Stores \cup {None}, at : Dates] /\ data[s] \subseteq Rows
  BY DEF TypeOK
<1>3. \A r \in Rows : r.at \in Dates
  BY DEF Rows
<1>4. \A a, b \in Stores : link[<<a, b>>] \in SyncStates
  BY DEF TypeOK, Links
<1>5. \A x \in SyncStates : x.when \in Dates /\ x.max \in Dates /\ x.counted \subseteq Rows
  BY DEF SyncStates
<1> QED BY <1>1, <1>2, <1>3, <1>4, <1>5

\* A page of a sync adds a row.
LEMMA RowFacts ==
  ASSUME TypeOK, NEW from \in Stores, NEW to \in Stores,
         \E r \in Pending(from, to) : SyncRow(from, to, r)
  PROVE  LET l == link[<<from, to>>]
         IN \E r \in data[from] :
              /\ data'[to] = data[to] \cup {r}
              /\ overtaken' = IF Overtaken(to, r) THEN overtaken \cup {r} ELSE overtaken
              /\ link'[<<from, to>>].when = l.when
              /\ link'[<<from, to>>].max = Later(l.max, r.at)
              /\ link'[<<from, to>>].counted = l.counted \cup {r}
<1> DEFINE k == <<from, to>>
           l == link[k]
<1>1. /\ data \in [Stores -> SUBSET Rows] /\ link \in [Links -> SyncStates] /\ k \in Links
  BY DEF TypeOK, Links
<1> HIDE DEF k
<1>2. l \in [when : Dates, max : Dates, counted : SUBSET Rows]
  BY <1>1 DEF SyncStates
<1>3. PICK r \in Pending(from, to) : SyncRow(from, to, r)
  OBVIOUS
<1>4. r \in data[from]
  BY DEF Pending
<1>5. /\ data' = [data EXCEPT ![to] = @ \cup {r}]
      /\ overtaken' = IF Overtaken(to, r) THEN overtaken \cup {r} ELSE overtaken
  BY <1>3 DEF SyncRow
<1>6. link' = [link EXCEPT ![k] = [l EXCEPT !.counted = @ \cup {r}, !.max = Later(@, r.at)]]
  BY <1>3 DEF SyncRow, k
<1>7. link'[k] = [l EXCEPT !.counted = @ \cup {r}, !.max = Later(@, r.at)]
  BY <1>1, <1>6
<1>8. /\ link'[k].when = l.when /\ link'[k].max = Later(l.max, r.at)
      /\ link'[k].counted = l.counted \cup {r}
  BY <1>2, <1>7
<1>9. data'[to] = data[to] \cup {r}
  BY <1>1, <1>5
<1> QED BY <1>4, <1>5, <1>8, <1>9 DEF k

\* The last page of a sync moves the checkpoint.
LEMMA DoneFacts ==
  ASSUME TypeOK, NEW from \in Stores, NEW to \in Stores, SyncDone(from, to)
  PROVE  LET l == link[<<from, to>>]
         IN /\ Pending(from, to) = {} /\ data' = data /\ overtaken' = overtaken
            /\ link'[<<from, to>>].when = IF UserMerged(from, to) THEN Later(l.max, db[from].at)
                                          ELSE l.max
            /\ link'[<<from, to>>].max = l.max
            /\ link'[<<from, to>>].counted = {}
<1> DEFINE k == <<from, to>>
           l == link[k]
           when == IF UserMerged(from, to) THEN Later(l.max, db[from].at) ELSE l.max
<1>1. link \in [Links -> SyncStates] /\ k \in Links
  BY DEF TypeOK, Links
<1> HIDE DEF k
<1>2. l \in [when : Dates, max : Dates, counted : SUBSET Rows]
  BY <1>1 DEF SyncStates
<1>3. /\ Pending(from, to) = {} /\ data' = data /\ overtaken' = overtaken
      /\ link' = [link EXCEPT ![k] = [@ EXCEPT !.when = when, !.counted = {}]]
  BY DEF SyncDone, k
<1> HIDE DEF when
<1>4. link'[k] = [l EXCEPT !.when = when, !.counted = {}]
  BY <1>1, <1>3
<1>5. link'[k].when = when /\ link'[k].max = l.max /\ link'[k].counted = {}
  BY <1>2, <1>4
<1> QED BY <1>3, <1>5 DEF k, when

\* A row that comes late is in overtaken, and a sync ends with all rows since `when`.
LEMMA LinkSync ==
  ASSUME CallsInv, LinkInv, NEW from \in Stores, NEW to \in Stores, SyncRows(from, to), clock' = clock
  PROVE  LinkInv'
<1> DEFINE k == <<from, to>>
           l == link[k]
<1>1. TypeOK /\ RecordsOK
  BY DEF CallsInv
<1>2. /\ \A s \in Stores : s # to => data'[s] = data[s]
      /\ \A x \in Links : x # k => link'[x] = link[x]
  BY <1>1, HeldTyped
<1>3. /\ clock \in Nat
      /\ \A s \in Stores : \A r \in data[s] : r.at \in Nat /\ r.at <= clock
      /\ \A a, b \in Stores : link[<<a, b>>].when \in Nat /\ link[<<a, b>>].max \in Nat
      /\ db[from].at \in Nat /\ db[from].at <= clock
  BY <1>1, DatesTyped DEF LinkInv, RecordsOK
<1>4. \A a, b \in Stores : <<a, b>> \in Links /\ (<<a, b>> = k => a = from /\ b = to)
  BY DEF Links
<1>5. \A a, b \in Stores : LinkOK(a, b)
  BY DEF LinkInv
<1>6. CASE \E r \in data[from] :
             /\ data'[to] = data[to] \cup {r}
             /\ overtaken' = IF Overtaken(to, r) THEN overtaken \cup {r} ELSE overtaken
             /\ link'[k].when = l.when /\ link'[k].max = Later(l.max, r.at)
             /\ link'[k].counted = l.counted \cup {r}
  <2>1. PICK r \in data[from] :
             /\ data'[to] = data[to] \cup {r}
             /\ overtaken' = IF Overtaken(to, r) THEN overtaken \cup {r} ELSE overtaken
             /\ link'[k].when = l.when /\ link'[k].max = Later(l.max, r.at)
             /\ link'[k].counted = l.counted \cup {r}
    BY <1>6
  <2>2. \A s \in Stores : data[s] \subseteq data'[s] /\ \A x \in data'[s] : x.at <= clock
    BY <1>2, <1>3, <2>1
  <2>3. overtaken \subseteq overtaken' /\ (Overtaken(to, r) => r \in overtaken')
    BY <2>1
  <2>4. ASSUME NEW a \in Stores, NEW b \in Stores PROVE LinkOK(a, b)'
    <3>1. /\ link'[<<a, b>>].when = link[<<a, b>>].when
          /\ link'[<<a, b>>].max <= clock
          /\ link'[<<a, b>>].counted \subseteq data'[b]
      <4>1. CASE <<a, b>> = k
        <5>1. Later(l.max, r.at) <= clock
          BY <1>3, <1>5 DEF Later, LinkOK
        <5>2. l.counted \subseteq data[b]
          BY <1>5, <4>1 DEF LinkOK
        <5> QED BY <1>4, <2>1, <2>2, <4>1, <5>1, <5>2
      <4>2. CASE <<a, b>> # k
        BY <1>2, <1>4, <1>5, <2>2, <4>2 DEF LinkOK
      <4> QED BY <4>1, <4>2
    <3>2. ASSUME NEW x \in data'[a], x.at < link[<<a, b>>].when
          PROVE  x \in data'[b] \cup overtaken'
      <4>1. CASE x \in data[a]
        BY <1>5, <2>2, <2>3, <3>2, <4>1 DEF LinkOK
      <4>2. CASE x \notin data[a]
        <5>1. a = to /\ x = r
          BY <1>2, <2>1, <4>2
        <5> QED BY <2>2, <2>3, <3>2, <4>2, <5>1 DEF Overtaken
      <4> QED BY <4>1, <4>2
    <3>3. link'[<<a, b>>].when <= clock
      BY <1>5, <3>1 DEF LinkOK
    <3> QED BY <3>1, <3>2, <3>3 DEF LinkOK
  <2> QED BY <2>2, <2>4 DEF LinkInv
<1>7. CASE /\ Pending(from, to) = {} /\ data' = data /\ overtaken' = overtaken
           /\ link'[k].when = IF UserMerged(from, to) THEN Later(l.max, db[from].at) ELSE l.max
           /\ link'[k].max = l.max
           /\ link'[k].counted = {}
  <2>1. ASSUME NEW a \in Stores, NEW b \in Stores PROVE LinkOK(a, b)'
    <3>1. CASE <<a, b>> = k
      <4>1. a = from /\ b = to
        BY <1>4, <3>1
      <4>2. link'[k].when <= clock /\ link'[k].max <= clock
        BY <1>3, <1>5, <1>7 DEF Later, LinkOK
      <4>3. ASSUME NEW x \in data[from] PROVE x \in data[to] \cup overtaken
        <5>1. x.at < l.when \/ x \in l.counted
          BY <1>3, <1>7 DEF Pending
        <5> QED BY <1>5, <5>1 DEF LinkOK
      <4> QED BY <1>7, <4>1, <4>2, <4>3 DEF LinkOK
    <3>2. CASE <<a, b>> # k
      BY <1>2, <1>4, <1>5, <1>7, <3>2 DEF LinkOK
    <3> QED BY <3>1, <3>2
  <2> QED BY <1>7, <2>1 DEF LinkInv
<1> QED BY <1>1, <1>6, <1>7, RowFacts, DoneFacts DEF SyncRows

LEMMA LinkInit == Init => LinkInv
<1> SUFFICES ASSUME Init PROVE LinkInv
  OBVIOUS
<1>1. \A a, b \in Stores : <<a, b>> \in Links /\ link[<<a, b>>] = [when |-> 0, max |-> 0, counted |-> {}]
  BY DEF Init, Links
<1>2. ASSUME NEW s \in Stores, NEW r \in data[s] PROVE r.at \in {0, 1}
  <2>1. PICK used \in SUBSET (env.stores \ {First}) :
          \E recent \in SUBSET used :
             data = [x \in Stores |-> {Row(Basket, 0)} \cup
                        {Row(y, IF y \in recent THEN 1 ELSE 0) : y \in used \cap {x}}]
    BY DEF Init
  <2>2. PICK recent \in SUBSET used :
             data = [x \in Stores |-> {Row(Basket, 0)} \cup
                        {Row(y, IF y \in recent THEN 1 ELSE 0) : y \in used \cap {x}}]
    BY <2>1
  <2>3. r \in {Row(Basket, 0)} \cup {Row(y, IF y \in recent THEN 1 ELSE 0) : y \in used \cap {s}}
    BY <1>2, <2>2
  <2> QED BY <2>3 DEF Row
<1>3. clock = 1
  BY DEF Init
<1> QED BY <1>1, <1>2, <1>3 DEF LinkInv, LinkOK

\* Where no row and no link changes, time may pass.
LEMMA LinkStays ==
  ASSUME CallsInv, LinkInv, held' = held, clock' = clock \/ clock' = clock + 1
  PROVE  LinkInv'
<1>1. /\ clock \in Nat
      /\ \A s \in Stores : \A r \in data[s] : r.at \in Nat
      /\ \A a, b \in Stores : link[<<a, b>>].when \in Nat /\ link[<<a, b>>].max \in Nat
  BY DatesTyped DEF CallsInv
<1>2. data' = data /\ link' = link /\ overtaken' = overtaken
  BY DEF held
<1>3. \A s \in Stores : \A r \in data[s] : r.at <= clock'
  BY <1>1 DEF LinkInv
<1>4. ASSUME NEW a \in Stores, NEW b \in Stores PROVE LinkOK(a, b)'
  <2>1. LinkOK(a, b)
    BY DEF LinkInv
  <2>2. link[<<a, b>>].when <= clock' /\ link[<<a, b>>].max <= clock'
    BY <1>1, <2>1 DEF LinkOK
  <2> QED BY <1>2, <2>1, <2>2 DEF LinkOK
<1> QED BY <1>2, <1>3, <1>4 DEF LinkInv

\* A new row is dated now, and no checkpoint is past it.
LEMMA LinkWrite ==
  ASSUME CallsInv, LinkInv, NEW w \in Writes, Write(w)
  PROVE  LinkInv'
<1>1. /\ clock \in Nat
      /\ \A s \in Stores : \A r \in data[s] : r.at \in Nat
      /\ \A a, b \in Stores : link[<<a, b>>].when \in Nat
  BY DatesTyped DEF CallsInv
<1>2. /\ data' = [data EXCEPT ![active] = @ \cup {Row(w, clock)}]
      /\ link' = link /\ overtaken' = overtaken /\ clock' = clock
  BY DEF Write
<1>3. \A s \in Stores : data[s] \subseteq data'[s] /\ data'[s] \subseteq data[s] \cup {Row(w, clock)}
  BY <1>2 DEF CallsInv, TypeOK
<1>4. Row(w, clock).at = clock
  BY DEF Row
<1>5. \A s \in Stores : \A r \in data'[s] : r.at <= clock
  BY <1>1, <1>3, <1>4 DEF LinkInv
<1>6. ASSUME NEW a \in Stores, NEW b \in Stores PROVE LinkOK(a, b)'
  <2>1. LinkOK(a, b)
    BY DEF LinkInv
  <2>2. ASSUME NEW r \in data'[a], r.at < link[<<a, b>>].when PROVE r \in data[a]
    <3>1. ~(clock < link[<<a, b>>].when)
      BY <1>1, <2>1 DEF LinkOK
    <3> QED BY <1>3, <1>4, <2>2, <3>1
  <2>3. link'[<<a, b>>] = link[<<a, b>>]
    BY <1>2
  <2> QED BY <1>2, <1>3, <2>1, <2>2, <2>3 DEF LinkOK
<1> QED BY <1>2, <1>5, <1>6 DEF LinkInv

LEMMA LinkNext == CallsInv /\ LinkInv /\ [Next]_vars => LinkInv'
<1> SUFFICES ASSUME CallsInv, LinkInv, [Next]_vars PROVE LinkInv'
  OBVIOUS
<1>1. ASSUME NEW p \in env.procs, MergeConflict(p) \/ PushToStore(p) \/ BackupStore(p)
      PROVE  LinkInv'
  <2>1. p \in Procs /\ CallOK(p) /\ proc[p] \in Calls
    BY EnvFacts DEF CallsInv, TypeOK
  <2>2. /\ proc[p].todo \in Seq(Stores) /\ proc[p].todo # <<>>
    BY <1>1, <2>1 DEF Calls, MergeConflict, PushToStore, BackupStore
  <2>3. Head(proc[p].todo) \in Stores
    BY <2>2, StoreSets
  <2>4. \/ SyncHead(p, Head(proc[p].todo), proc[p].key) /\ proc[p].pc = "merge"
        \/ SyncHead(p, proc[p].source, Head(proc[p].todo)) /\ proc[p].pc \in {"push", "backup"}
        \/ held' = held /\ clock' = clock
    BY <1>1 DEF MergeConflict, PushToStore, BackupStore, durable
  <2>5. /\ proc[p].pc = "merge" => proc[p].key \in Stores
        /\ proc[p].pc \in {"push", "backup"} => proc[p].source \in Stores
    BY <2>1 DEF CallOK, Syncing
  <2>6. ASSUME NEW from \in Stores, NEW to \in Stores, SyncHead(p, from, to) PROVE LinkInv'
    <3>1. SyncRows(from, to) /\ clock' = clock
      BY <2>6 DEF SyncHead, SyncRows
    <3> QED BY <3>1, LinkSync
  <2> QED BY <2>3, <2>4, <2>5, <2>6, LinkStays
<1>2. ASSUME NEW p \in env.procs, Step(p), ~(MergeConflict(p) \/ PushToStore(p) \/ BackupStore(p))
      PROVE  LinkInv'
  <2>1. held' = held /\ (clock' = clock \/ clock' = clock + 1)
    BY <1>2 DEF Step, EnsureCached, EnsureFetch, EnsureApply, Throw, SetActiveRetries, SetActiveReturns,
           SetActiveQueues, SetActiveBegins, SetActiveFindsUnavailable, ChooseBackupSource, MarkActive,
           SetActiveEnds, UpdateBackupsEnds, durable
  <2> QED BY <2>1, LinkStays
<1>3. ASSUME NEW p \in env.procs,
             \/ MakeAvailable(p) \/ UpdateBackups(p)
             \/ \E s \in env.stores : AddWalletStorageProvider(p, s) \/ SetActive(p, s)
      PROVE  LinkInv'
  <2>1. held' = held /\ clock' = clock
    BY <1>3 DEF MakeAvailable, AddWalletStorageProvider, SetActive, UpdateBackups, durable
  <2> QED BY <2>1, LinkStays
<1>4. CASE Restart \/ UNCHANGED vars
  <2>1. held' = held /\ clock' = clock
    BY <1>4 DEF Restart, vars, durable
  <2> QED BY <2>1, LinkStays
<1> QED BY <1>1, <1>2, <1>3, <1>4, LinkWrite DEF Next

-----------------------------------------------------------------------------
(***************************************************************************)
(* One call at a time: PartitionInv.                                       *)
(***************************************************************************)
LEMMA Alone ==
  ASSUME CallsInv, Orderly, NEW p \in env.procs
  PROVE  /\ p \in Procs
         /\ \A q \in Procs : q # p => proc[q] = Idle /\ ~Looping(q) /\ ~Syncing(q)
                                      /\ proc[q].pc = "idle"
<1>1. env.procs \subseteq Procs
  BY EnvFacts DEF CallsInv
<1>2. ASSUME NEW q \in Procs, q # p PROVE proc[q] = Idle
  BY <1>2 DEF Orderly, CallsInv, CallOK
<1> QED BY <1>1, <1>2 DEF Idle, Looping, Syncing

LEMMA AloneNext ==
  ASSUME CallsInv', Orderly', NEW p \in env.procs'
  PROVE  /\ p \in Procs
         /\ \A q \in Procs : q # p => proc'[q] = Idle /\ ~Looping(q)' /\ ~Syncing(q)'
                                      /\ proc'[q].pc = "idle"
<1>1. env.procs' \subseteq Procs
  BY EnvironmentsAssumption DEF CallsInv, TypeOK
<1>2. ASSUME NEW q \in Procs, q # p PROVE proc'[q] = Idle
  BY <1>2 DEF Orderly, CallsInv, CallOK
<1> QED BY <1>1, <1>2 DEF Idle, Looping, Syncing

\* What is said of every call follows from what is said of the one under way.
LEMMA PartitionOf ==
  ASSUME CallsInv', NEW p \in env.procs', env' = env,
         Orderly => /\ isAvailable' => \A s \in Managed' : user'[s] # None
                    /\ LoopOK(p)'
                    /\ (Syncing(p) \/ proc[p].pc = "backup")' => isAvailable'
                    /\ isAvailable' /\ ~Syncing(p)' => Settled'
  PROVE  PartitionInv'
<1>0. Orderly' <=> Orderly
  BY DEF Orderly
<1> SUFFICES ASSUME Orderly'
             PROVE  /\ isAvailable' => \A s \in Managed' : user'[s] # None
                    /\ \A q \in Procs : LoopOK(q)' /\ ((Syncing(q) \/ proc[q].pc = "backup")' => isAvailable')
                    /\ isAvailable' /\ (\A q \in Procs : ~Syncing(q)') => Settled'
  BY DEF PartitionInv
<1>1. /\ p \in Procs
      /\ \A q \in Procs : q # p => /\ proc'[q] = Idle /\ ~Looping(q)' /\ ~Syncing(q)'
                                   /\ proc'[q].pc = "idle"
  BY AloneNext
<1>2. \A q \in Procs : q # p => LoopOK(q)'
  BY <1>1 DEF LoopOK
<1> QED BY <1>0, <1>1, <1>2

\* Nothing of the partition changes, and no call of makeAvailable is under way.
LEMMA PartitionStays ==
  ASSUME CallsInv, CallsInv', PartitionInv, NEW p \in env.procs, env' = env, stores' = stores,
         UNCHANGED manager, ~Looping(p)', Syncing(p) => Syncing(p)',
         Orderly /\ (Syncing(p) \/ proc[p].pc = "backup")' => isAvailable
  PROVE  PartitionInv'
<1>1. p \in env.procs'
  OBVIOUS
<1>2. ASSUME Orderly
      PROVE  /\ isAvailable' => \A s \in Managed' : user'[s] # None
             /\ LoopOK(p)'
             /\ (Syncing(p) \/ proc[p].pc = "backup")' => isAvailable'
             /\ isAvailable' /\ ~Syncing(p)' => Settled'
  <2>1. /\ user' = user /\ active' = active /\ backups' = backups
        /\ conflictingActives' = conflictingActives
        /\ isAvailable' = isAvailable /\ authIsActive' = authIsActive
    BY DEF manager
  <2>2. LoopOK(p)'
    BY DEF LoopOK
  <2>3. p \in Procs /\ \A q \in Procs : q # p => ~Syncing(q)
    BY <1>2, Alone
  <2>4. isAvailable /\ ~Syncing(p) => Settled
    BY <1>2, <2>3 DEF PartitionInv
  <2>5. Settled <=> Settled'
    BY <2>1 DEF Settled, Placed, Managed, isActiveEnabled
  <2>6. isAvailable => \A s \in Managed : user[s] # None
    BY <1>2 DEF PartitionInv
  <2> QED BY <1>2, <2>1, <2>2, <2>4, <2>5, <2>6 DEF Managed
<1> QED BY <1>1, <1>2, PartitionOf

\* A call of makeAvailable begins.
LEMMA PartitionStarts ==
  ASSUME CallsInv', NEW p \in env.procs, env' = env, p \in Procs, proc \in [Procs -> Calls],
         NEW r \in Calls, NEW then, StartMakeAvailable(p, r, then), isAvailable' = FALSE
  PROVE  PartitionInv'
<1>1. p \in env.procs'
  OBVIOUS
<1> DEFINE next == [r EXCEPT !.pc = "ensure", !.i = 1, !.list = <<>>, !.then = then]
<1>2. /\ active' = None /\ backups' = <<>> /\ conflictingActives' = <<>> /\ proc'[p] = next
  BY DEF StartMakeAvailable
<1>3. next.pc = "ensure" /\ next.i = 1 /\ next.list = <<>>
  BY DEF Calls
<1> HIDE DEF next
<1>4. LoopOK(p)' /\ ~(Syncing(p) \/ proc[p].pc = "backup")'
  BY <1>2, <1>3 DEF LoopOK, Looping, Syncing
<1> QED BY <1>1, <1>4, PartitionOf

\* selectActiveFromStore puts the store it is called with into its place.
LEMMA SelectedCollects ==
  ASSUME CallsInv, Orderly, PartitionInv, NEW p \in env.procs, Looping(p), NEW cache
  PROVE  LET r == proc[p]
             sel == Selected(stores[r.i], r.list, cache)
         IN /\ sel[1] \in Stores /\ sel[2] \in Seq(Stores) /\ Len(sel[2]) = r.i - 1
            /\ {sel[1]} \cup ToSet(sel[2]) = {stores[j] : j \in 1..r.i}
<1> DEFINE r == proc[p]
           s == stores[r.i]
           sel == Selected(s, r.list, cache)
<1>1. p \in Procs /\ CallOK(p) /\ r \in Calls /\ LoopOK(p)
  BY EnvFacts DEF CallsInv, TypeOK, PartitionInv
<1>2. r.i \in 1..Len(stores) /\ s \in Stores /\ r.list \in Seq(Stores) /\ Len(stores) \in Nat
  BY <1>1 DEF CallOK, Calls, CallsInv, TypeOK
<1>3. IF r.i = 1 THEN active = None /\ r.list = <<>>
      ELSE /\ active \in Stores
           /\ Len(r.list) = r.i - 2
           /\ {active} \cup ToSet(r.list) = {stores[j] : j \in 1..(r.i - 1)}
  BY <1>1 DEF LoopOK
<1>4. {stores[j] : j \in 1..r.i} = {stores[j] : j \in 1..(r.i - 1)} \cup {s}
  <2>1. \A j : j \in 1..r.i <=> j \in 1..(r.i - 1) \/ j = r.i
    BY <1>2
  <2> QED BY <2>1
<1>5. /\ sel[1] \in Stores /\ sel[2] \in Seq(Stores) /\ Len(sel[2]) = r.i - 1
      /\ {sel[1]} \cup ToSet(sel[2]) = {stores[j] : j \in 1..(r.i - 1)} \cup {s}
  <2>1. CASE r.i = 1
    <3>1. sel[1] = s /\ sel[2] = <<>>
      BY <1>3, <2>1 DEF Selected
    <3>2. {stores[j] : j \in 1..(r.i - 1)} = {}
      BY <2>1
    <3>3. <<>> \in Seq(Stores) /\ Len(<<>>) = 0 /\ r.i - 1 = 0
      BY <2>1
    <3> HIDE DEF sel, s
    <3> QED BY <1>2, <3>1, <3>2, <3>3, StoreSets
  <2>2. CASE r.i # 1
    <3>1. active \in Stores /\ active # None
      BY <1>3, <2>2, NoneAssumption
    <3>2. \/ sel[1] = s /\ sel[2] = Append(r.list, active)
          \/ sel[1] = active /\ sel[2] = Append(r.list, s)
      <4>1. CASE cache[s] = s /\ ~EnabledWith(active, conflictingActives, cache)
        BY <3>1, <4>1 DEF Selected
      <4>2. CASE ~(cache[s] = s /\ ~EnabledWith(active, conflictingActives, cache))
        BY <3>1, <4>2 DEF Selected
      <4> QED BY <4>1, <4>2
    <3> HIDE DEF sel, s
    <3>3. /\ sel[2] \in Seq(Stores) /\ Len(sel[2]) = Len(r.list) + 1 /\ sel[1] \in Stores
          /\ {sel[1]} \cup ToSet(sel[2]) = {active} \cup ToSet(r.list) \cup {s}
      <4>1. CASE sel[1] = s /\ sel[2] = Append(r.list, active)
        BY <1>2, <3>1, <4>1, StoreSets
      <4>2. CASE sel[1] = active /\ sel[2] = Append(r.list, s)
        BY <1>2, <3>1, <4>2, StoreSets
      <4> QED BY <3>2, <4>1, <4>2
    <3>4. Len(r.list) + 1 = r.i - 1
      BY <1>2, <1>3, <2>2
    <3> QED BY <1>3, <2>2, <3>3, <3>4
  <2> QED BY <2>1, <2>2
<1> QED BY <1>4, <1>5

LEMMA PartitionSelects ==
  ASSUME CallsInv, CallsInv', PartitionInv, NEW p \in env.procs, Looping(p),
         NEW cache \in [Stores -> Stores \cup {None}], SelectAndAdvance(p, cache),
         env' = env, stores' = stores, cache[stores[proc[p].i]] # None,
         \A x \in Stores : x # stores[proc[p].i] => cache[x] = user[x]
  PROVE  PartitionInv'
<1> DEFINE r == proc[p]
           s == stores[r.i]
           sel == Selected(s, r.list, cache)
           l == sel[2]
           last == r.i = Len(stores)
           Other == {b \in Stores : cache[b] # sel[1]}
           Same == {b \in Stores : cache[b] = sel[1]}
           next == IF ~last THEN [r EXCEPT !.pc = "ensure", !.got = None,
                                           !.i = r.i + 1, !.list = l]
                   ELSE Resumed(r)
<1> SUFFICES ASSUME Orderly PROVE PartitionInv'
  BY DEF PartitionInv, Orderly
<1>1. p \in Procs /\ CallOK(p) /\ r \in Calls /\ LoopOK(p)
  BY EnvFacts DEF CallsInv, TypeOK, PartitionInv
<1>2. r.i \in 1..Len(stores) /\ s \in Stores /\ Len(stores) \in Nat /\ stores \in Seq(Stores)
  BY <1>1 DEF CallOK, Calls, CallsInv, TypeOK
<1>3. /\ sel[1] \in Stores /\ l \in Seq(Stores) /\ Len(l) = r.i - 1
      /\ {sel[1]} \cup ToSet(l) = {stores[j] : j \in 1..r.i}
  BY SelectedCollects
<1>4. /\ ~isAvailable /\ backups = <<>> /\ conflictingActives = <<>>
      /\ \A j \in 1..(r.i - 1) : user[stores[j]] # None
  BY <1>1 DEF LoopOK
<1>5. /\ user' = cache /\ active' = sel[1]
      /\ conflictingActives' = IF last THEN conflictingActives \o Filter(l, Other) ELSE conflictingActives
      /\ backups' = IF last THEN backups \o Filter(l, Same) ELSE backups
      /\ isAvailable' = (isAvailable \/ last)
      /\ authIsActive' = IF last THEN EnabledWith(sel[1], conflictingActives', cache) ELSE authIsActive
      /\ proc'[p] = next
  <2>1. proc \in [Procs -> Calls]
    BY DEF CallsInv, TypeOK
  <2> QED BY <1>1, <2>1 DEF SelectAndAdvance
<1>6. \A j \in 1..r.i : cache[stores[j]] # None
  <2> SUFFICES ASSUME NEW j \in 1..r.i PROVE cache[stores[j]] # None
    OBVIOUS
  <2>1. stores[j] \in Stores /\ (j = r.i \/ j \in 1..(r.i - 1))
    BY <1>2
  <2> QED BY <1>2, <1>4, <2>1
<1> HIDE DEF sel, s
<1>7. CASE ~last
  <2>1. next = [r EXCEPT !.pc = "ensure", !.got = None, !.i = r.i + 1, !.list = l]
    BY <1>7
  <2>2. next.pc = "ensure" /\ next.i = r.i + 1 /\ next.list = l
    BY <1>1, <2>1 DEF Calls
  <2> HIDE DEF next
  <2>3. /\ isAvailable' = FALSE /\ backups' = <<>> /\ conflictingActives' = <<>>
        /\ active' = sel[1] /\ user' = cache /\ stores' = stores
    BY <1>4, <1>5, <1>7
  <2>4. r.i + 1 # 1 /\ (r.i + 1) - 1 = r.i /\ (r.i + 1) - 2 = r.i - 1
    BY <1>2
  <2>5. LoopOK(p)'
    <3>1. proc'[p].i = r.i + 1 /\ proc'[p].list = l
      BY <1>5, <2>2
    <3>2. \A j \in 1..(proc'[p].i - 1) : user'[stores'[j]] # None
      BY <1>6, <2>3, <2>4, <3>1
    <3>3. Len(proc'[p].list) = proc'[p].i - 2
      BY <1>3, <2>4, <3>1
    <3>4. {active'} \cup ToSet(proc'[p].list) = {stores'[j] : j \in 1..(proc'[p].i - 1)}
      <4>1. proc'[p].i - 1 = r.i
        BY <2>4, <3>1
      <4>2. {stores'[j] : j \in 1..(proc'[p].i - 1)} = {stores[j] : j \in 1..r.i}
        BY <2>3, <4>1
      <4> QED BY <1>3, <2>3, <3>1, <4>2
    <3>5. proc'[p].i # 1 /\ active' \in Stores
      BY <1>3, <2>3, <2>4, <3>1
    <3> QED BY <2>3, <3>2, <3>3, <3>4, <3>5 DEF LoopOK
  <2>6. ~(Syncing(p) \/ proc[p].pc = "backup")'
    BY <1>5, <2>2 DEF Syncing
  <2> QED BY <2>3, <2>5, <2>6, PartitionOf
<1>8. CASE last
  <2>1. next.pc \in {"request", "queued", "idle"}
    BY <1>8 DEF Idle, Resumed
  <2> HIDE DEF next
  <2>2. LoopOK(p)' /\ ~(Syncing(p) \/ proc[p].pc = "backup")'
    BY <1>5, <2>1 DEF LoopOK, Looping, Syncing
  <2>3. /\ conflictingActives' = Filter(l, Other) /\ backups' = Filter(l, Same)
        /\ Filter(l, Other) \in Seq(Stores) /\ Filter(l, Same) \in Seq(Stores)
    <3>1. Filter(l, Other) \in Seq(Stores) /\ Filter(l, Same) \in Seq(Stores)
      BY <1>3, FilterFacts
    <3> HIDE DEF Other, Same
    <3> QED BY <1>4, <1>5, <1>8, <3>1
  <2>4. ToSet(Filter(l, Other)) = ToSet(l) \cap Other /\ ToSet(Filter(l, Same)) = ToSet(l) \cap Same
    <3> HIDE DEF Other, Same, l
    <3> QED BY <1>3, FilterFacts
  <2>5. Len(Filter(l, Same)) + Len(Filter(l, Other)) = Len(l)
    <3>1. Same \cap Other = {} /\ Stores \subseteq Same \cup Other
      OBVIOUS
    <3> HIDE DEF Same, Other
    <3> QED BY <1>3, <3>1, FilterSplits
  <2>6. ToSet(l) \subseteq Stores /\ Managed' = {stores[j] : j \in 1..r.i}
    <3>1. DOMAIN stores = 1..r.i
      BY <1>2, <1>8
    <3> QED BY <1>3, <3>1, ToSetFacts DEF Managed, ToSet
  <2>7. (ToSet(l) \cap Same) \cup (ToSet(l) \cap Other) = ToSet(l)
    BY <2>6
  <2>8. \A b \in ToSet(backups') : user'[b] = active'
    BY <1>5, <2>3, <2>4
  <2> HIDE DEF Same, Other
  <2>9. Placed'
    <3> DEFINE all == <<active'>> \o backups' \o conflictingActives'
    <3>1. active' \in Stores /\ <<active'>> \in Seq(Stores)
      BY <1>3, <1>5
    <3>3. /\ Len(all) = 1 + Len(backups') + Len(conflictingActives')
          /\ ToSet(all) = {active'} \cup ToSet(backups') \cup ToSet(conflictingActives')
      BY <2>3, <3>1, PartsJoined
    <3>4. Len(all) = Len(stores)
      <4>1. Len(backups') \in Nat /\ Len(conflictingActives') \in Nat
        BY <2>3
      <4> HIDE DEF all
      <4> QED BY <1>2, <1>3, <1>8, <2>3, <2>5, <3>3, <4>1
    <3>5. ToSet(all) = Managed'
      BY <1>3, <1>5, <2>3, <2>4, <2>6, <2>7, <3>3
    <3> QED BY <3>4, <3>5 DEF Placed
  <2>10. Settled'
    <3>1. authIsActive' <=> isActiveEnabled'
      BY <1>5, <1>8 DEF isActiveEnabled, EnabledWith
    <3> QED BY <2>8, <2>9, <3>1 DEF Settled
  <2>11. \A x \in Managed' : user'[x] # None
    BY <1>5, <1>6, <2>6
  <2> QED BY <2>2, <2>10, <2>11, PartitionOf
<1> QED BY <1>7, <1>8

LEMMA PartitionInit == Init => PartitionInv
BY DEF Init, PartitionInv, LoopOK, Looping, Syncing, Idle

LEMMA PartitionStep ==
  ASSUME CallsInv, CallsInv', PartitionInv, NEW p \in env.procs, Step(p)
  PROVE  PartitionInv'
<1>1. p \in Procs /\ CallOK(p) /\ proc[p] \in Calls /\ proc \in [Procs -> Calls] /\ env' = env
  <2>1. env' = env
    BY DEF Step, EnsureCached, EnsureFetch, EnsureApply, Throw, SetActiveRetries, SetActiveReturns,
           SetActiveQueues, SetActiveBegins, SetActiveFindsUnavailable, MergeConflict,
           ChooseBackupSource, MarkActive, PushToStore, SetActiveEnds, BackupStore,
           UpdateBackupsEnds, SyncHead, durable
  <2> QED BY <2>1, EnvFacts DEF CallsInv, TypeOK
<1>2. /\ user \in [Stores -> Stores \cup {None}] /\ stores \in Seq(Stores)
      /\ isAvailable => active \in Stores
  BY DEF CallsInv, TypeOK, RecordsOK
<1>3. Orderly => /\ LoopOK(p)
                 /\ Syncing(p) \/ proc[p].pc = "backup" => isAvailable
                 /\ isAvailable => \A s \in Managed : user[s] # None
  BY <1>1 DEF PartitionInv
<1>4. CASE EnsureCached(p)
  <2>1. /\ Looping(p) /\ SelectAndAdvance(p, user) /\ stores' = stores
        /\ user[stores[proc[p].i]] # None
    BY <1>4 DEF EnsureCached, Looping, durable
  <2> QED BY <1>1, <1>2, <2>1, PartitionSelects
<1>5. CASE EnsureApply(p)
  <2> DEFINE s == stores[proc[p].i]
             cache == [user EXCEPT ![s] = proc[p].got]
  <2>1. Looping(p) /\ SelectAndAdvance(p, cache) /\ stores' = stores /\ proc[p].pc = "ensured"
    BY <1>5 DEF EnsureApply, Looping, durable
  <2>2. proc[p].got \in Stores /\ proc[p].i \in 1..Len(stores) /\ s \in Stores
    BY <1>1, <1>2, <2>1 DEF CallOK
  <2>3. /\ cache \in [Stores -> Stores \cup {None}] /\ cache[s] # None
        /\ \A x \in Stores : x # s => cache[x] = user[x]
    BY <1>2, <2>2, NoneAssumption
  <2> HIDE DEF cache
  <2> QED BY <1>1, <2>1, <2>3, PartitionSelects
<1>6. CASE EnsureFetch(p)
  <2>1. /\ proc[p].pc = "ensure" /\ UNCHANGED manager /\ stores' = stores
        /\ proc'[p] = [proc[p] EXCEPT !.pc = "ensured", !.got = db'[stores[proc[p].i]].active]
    BY <1>1, <1>6 DEF EnsureFetch
  <2>2. proc'[p].pc = "ensured" /\ proc'[p].i = proc[p].i /\ proc'[p].list = proc[p].list
    BY <1>1, <2>1 DEF Calls
  <2>3. UNCHANGED <<user, active, backups, conflictingActives, isAvailable>>
    BY <2>1 DEF manager
  <2>4. Orderly => LoopOK(p)' /\ ~isAvailable'
    BY <1>3, <2>1, <2>2, <2>3 DEF LoopOK, Looping
  <2>5. ~(Syncing(p) \/ proc[p].pc = "backup")'
    BY <2>2 DEF Syncing
  <2> QED BY <1>1, <2>4, <2>5, PartitionOf
<1>7. CASE Throw(p)
  BY <1>1, <1>7, PartitionOf DEF Throw, Orderly
<1>8. CASE SetActiveRetries(p)
  <2>1. StartMakeAvailable(p, proc[p], "setActive") /\ isAvailable' = FALSE
    BY <1>8 DEF SetActiveRetries, CallsInv, TypeOK
  <2> QED BY <1>1, <2>1, PartitionStarts
<1>9. CASE SetActiveReturns(p)
  <2>1. UNCHANGED manager /\ stores' = stores /\ proc[p].pc = "request" /\ proc'[p].pc = "idle"
    BY <1>1, <1>9 DEF SetActiveReturns, durable, Idle
  <2> QED BY <1>1, <2>1, PartitionStays DEF Looping, Syncing
<1>10. CASE SetActiveQueues(p)
  <2>1. UNCHANGED manager /\ stores' = stores /\ proc[p].pc = "request" /\ proc'[p].pc = "queued"
    BY <1>1, <1>10 DEF SetActiveQueues, durable, Calls
  <2> QED BY <1>1, <2>1, PartitionStays DEF Looping, Syncing
<1>11. CASE SetActiveBegins(p)
  <2>1. /\ stores' = stores /\ isAvailable
        /\ UNCHANGED <<user, active, backups, isAvailable, authIsActive>>
    BY <1>11 DEF SetActiveBegins, durable
  <2>2. proc'[p].pc = "merge"
    BY <1>1, <1>11 DEF SetActiveBegins, Calls
  <2>3. LoopOK(p)' /\ Syncing(p)'
    BY <2>2 DEF LoopOK, Looping, Syncing
  <2> QED BY <1>1, <1>3, <2>1, <2>3, PartitionOf DEF Managed
<1>18. CASE SetActiveFindsUnavailable(p)
  <2>1. isAvailable' = FALSE /\ stores' = stores
    BY <1>18 DEF SetActiveFindsUnavailable, CallsInv, TypeOK, durable
  <2>2. CASE StartMakeAvailable(p, proc[p], "queue")
    BY <1>1, <2>1, <2>2, PartitionStarts
  <2>3. CASE proc' = [proc EXCEPT ![p] = Idle]
    <3>1. proc'[p].pc = "idle"
      BY <1>1, <2>3 DEF Idle
    <3>2. LoopOK(p)' /\ ~Syncing(p)'
      BY <3>1 DEF LoopOK, Looping, Syncing
    <3> QED BY <1>1, <2>1, <3>1, <3>2, PartitionOf
  <2> QED BY <1>18, <2>2, <2>3 DEF SetActiveFindsUnavailable
<1>12. CASE MergeConflict(p) \/ BackupStore(p)
  <2>1. /\ UNCHANGED manager /\ stores' = stores /\ proc[p].pc \in {"merge", "backup"}
        /\ proc' = [proc EXCEPT ![p].todo = Tail(@)] \/ proc' = proc
    BY <1>12 DEF MergeConflict, BackupStore, SyncHead
  <2>2. proc'[p].pc = proc[p].pc
    BY <1>1, <2>1 DEF Calls
  <2> QED BY <1>1, <1>3, <2>1, <2>2, PartitionStays DEF Looping, Syncing
<1>13. CASE ChooseBackupSource(p)
  <2>1. UNCHANGED manager /\ stores' = stores /\ proc[p].pc = "merge"
    BY <1>13 DEF ChooseBackupSource, durable
  <2>2. ASSUME Orderly PROVE proc'[p].pc = "mark"
    <3>1. proc[p].key \in Stores /\ active \in Stores
      BY <1>1, <1>2, <1>3, <2>1, <2>2 DEF CallOK, Syncing
    <3> DEFINE source == IF conflictingActives # <<>> THEN proc[p].key ELSE active
    <3>2. source # None
      BY <3>1, NoneAssumption
    <3>3. IF source = None
          THEN proc' = [proc EXCEPT ![p] = Idle] /\ lock' = None
          ELSE proc' = [proc EXCEPT ![p] = [@ EXCEPT !.pc = "mark", !.source = source]] /\ lock' = lock
      BY <1>13 DEF ChooseBackupSource
    <3> HIDE DEF source
    <3>4. proc'[p] = [proc[p] EXCEPT !.pc = "mark", !.source = source]
      BY <1>1, <3>2, <3>3
    <3> QED BY <1>1, <3>4 DEF Calls
  <2>4. CASE Orderly
    <3>1. ~Looping(p)' /\ Syncing(p)' /\ Syncing(p)
      BY <2>1, <2>2, <2>4 DEF Looping, Syncing
    <3> QED BY <1>1, <1>3, <2>1, <2>4, <3>1, PartitionStays
  <2>5. CASE ~Orderly
    BY <1>1, <2>5, PartitionOf
  <2> QED BY <2>4, <2>5
<1>14. CASE MarkActive(p)
  <2>1. UNCHANGED manager /\ stores' = stores /\ proc[p].pc = "mark" /\ proc'[p].pc = "push"
    BY <1>1, <1>14 DEF MarkActive, Calls
  <2> QED BY <1>1, <1>3, <2>1, PartitionStays DEF Looping, Syncing
<1>15. CASE PushToStore(p)
  <2> DEFINE s == Head(proc[p].todo)
  <2>1. /\ stores' = stores /\ proc[p].pc = "push" /\ isAvailable' = isAvailable
        /\ user' = [user EXCEPT ![s] = proc[p].key]
        /\ proc' = [proc EXCEPT ![p].todo = Tail(@)] \/ proc' = proc
    BY <1>15 DEF PushToStore, SyncHead, durable
  <2>2. proc'[p].pc = "push" /\ proc[p].key \in Stores
    BY <1>1, <2>1 DEF Calls, CallOK, Syncing
  <2>3. LoopOK(p)' /\ Syncing(p)' /\ Syncing(p)
    BY <2>1, <2>2 DEF LoopOK, Looping, Syncing
  <2>4. \A x \in Stores : user[x] # None => user'[x] # None
    BY <1>2, <2>1, <2>2, NoneAssumption
  <2>5. Managed' = Managed /\ Managed \subseteq Stores
    BY <1>2, <2>1, StoreSets DEF Managed
  <2> QED BY <1>1, <1>3, <2>1, <2>3, <2>4, <2>5, PartitionOf
<1>16. CASE SetActiveEnds(p)
  <2>1. StartMakeAvailable(p, proc[p], "return") /\ isAvailable' = FALSE
    BY <1>16 DEF SetActiveEnds
  <2> QED BY <1>1, <2>1, PartitionStarts
<1>17. CASE UpdateBackupsEnds(p)
  <2>1. UNCHANGED manager /\ stores' = stores /\ proc[p].pc = "backup" /\ proc'[p].pc = "idle"
    BY <1>1, <1>17 DEF UpdateBackupsEnds, durable, Idle
  <2> QED BY <1>1, <2>1, PartitionStays DEF Looping, Syncing
<1> QED BY <1>4, <1>5, <1>6, <1>7, <1>8, <1>9, <1>10, <1>11, <1>12, <1>13, <1>14, <1>15,
           <1>16, <1>17, <1>18 DEF Step

LEMMA PartitionNext == CallsInv /\ PartitionInv /\ [Next]_vars => PartitionInv'
<1> SUFFICES ASSUME CallsInv, PartitionInv, [Next]_vars PROVE PartitionInv'
  OBVIOUS
<1>0. CallsInv'
  BY CallsNext
<1>1. ASSUME NEW p \in env.procs, Step(p) PROVE PartitionInv'
  BY <1>0, <1>1, PartitionStep
<1>a. proc \in [Procs -> Calls] /\ \A p \in env.procs : p \in Procs
  BY EnvFacts DEF CallsInv, TypeOK
<1>2. ASSUME NEW p \in env.procs, MakeAvailable(p) PROVE PartitionInv'
  <2>1. StartMakeAvailable(p, Idle, "return") /\ isAvailable' = FALSE /\ env' = env
    BY <1>2 DEF MakeAvailable, CallsInv, TypeOK, durable
  <2> QED BY <1>0, <1>a, <2>1, IdleType, PartitionStarts
<1>3. ASSUME NEW p \in env.procs, NEW s \in env.stores, AddWalletStorageProvider(p, s) PROVE PartitionInv'
  <2>1. StartMakeAvailable(p, Idle, "return") /\ isAvailable' = FALSE /\ env' = env
    BY <1>3 DEF AddWalletStorageProvider
  <2> QED BY <1>0, <1>a, <2>1, IdleType, PartitionStarts
<1>4. ASSUME NEW p \in env.procs, NEW s \in env.stores, SetActive(p, s) PROVE PartitionInv'
  <2> DEFINE r == [Idle EXCEPT !.key = s]
  <2>1. /\ proc[p].pc = "idle" /\ env' = env /\ stores' = stores
        /\ \/ /\ proc' = [proc EXCEPT ![p] = [r EXCEPT !.pc = "request"]]
              /\ UNCHANGED manager
           \/ /\ ~isAvailable /\ StartMakeAvailable(p, r, "setActive")
              /\ UNCHANGED isAvailable
    BY <1>4 DEF SetActive, durable
  <2>2. r \in Calls /\ [r EXCEPT !.pc = "request"].pc = "request"
    <3>1. s \in Stores
      BY EnvFacts DEF CallsInv
    <3> QED BY <3>1, IdleType DEF Calls
  <2> HIDE DEF r
  <2>3. CASE proc' = [proc EXCEPT ![p] = [r EXCEPT !.pc = "request"]] /\ UNCHANGED manager
    <3>1. proc'[p].pc = "request"
      BY <1>a, <2>2, <2>3
    <3> QED BY <1>0, <2>1, <2>3, <3>1, PartitionStays DEF Looping, Syncing
  <2>4. CASE ~isAvailable /\ StartMakeAvailable(p, r, "setActive") /\ UNCHANGED isAvailable
    <3>1. isAvailable' = FALSE
      BY <2>4 DEF CallsInv, TypeOK
    <3> QED BY <1>0, <1>a, <2>1, <2>2, <2>4, <3>1, PartitionStarts
  <2> QED BY <2>1, <2>3, <2>4
<1>5. ASSUME NEW p \in env.procs, UpdateBackups(p) PROVE PartitionInv'
  <2>1. /\ proc[p].pc = "idle" /\ proc'[p].pc = "backup" /\ isAvailable
        /\ UNCHANGED manager /\ stores' = stores /\ env' = env
    <3>1. proc'[p] = [Idle EXCEPT !.pc = "backup", !.source = active, !.todo = backups]
      BY <1>5, <1>a DEF UpdateBackups
    <3>2. proc'[p].pc = "backup"
      BY <3>1 DEF Idle
    <3> QED BY <1>5, <3>2 DEF UpdateBackups, durable
  <2> QED BY <1>0, <2>1, PartitionStays DEF Looping, Syncing
<1>6. CASE (\E w \in Writes : Write(w)) \/ UNCHANGED vars
  <2>1. /\ UNCHANGED <<user, active, backups, conflictingActives, isAvailable, authIsActive>>
        /\ UNCHANGED <<stores, proc, env>>
    BY <1>6 DEF Write, vars, manager, durable
  <2>2. /\ Orderly' <=> Orderly
        /\ Settled' <=> Settled
    BY <2>1 DEF Orderly, Settled, Placed, Managed, isActiveEnabled
  <2>3. \A p \in Procs : /\ LoopOK(p)' <=> LoopOK(p)
                         /\ Syncing(p)' <=> Syncing(p)
    BY <2>1 DEF LoopOK, Looping, Syncing
  <2> QED BY <2>1, <2>2, <2>3 DEF PartitionInv, Managed
<1>7. CASE Restart
  BY <1>7 DEF Restart, PartitionInv, LoopOK, Looping, Syncing, Idle
<1> QED BY <1>1, <1>2, <1>3, <1>4, <1>5, <1>6, <1>7 DEF Next

-----------------------------------------------------------------------------
(***************************************************************************)
(* One call at a time: SwitchInv.                                          *)
(***************************************************************************)
LEMMA SwitchOf ==
  ASSUME CallsInv', NEW p \in env.procs', env' = env, Orderly => SwitchOK(p)'
  PROVE  SwitchInv'
<1>0. Orderly' <=> Orderly
  BY DEF Orderly
<1> SUFFICES ASSUME Orderly', NEW q \in Procs, q # p PROVE SwitchOK(q)'
  BY <1>0 DEF SwitchInv
<1>1. ~Looping(q)' /\ ~Syncing(q)' /\ proc'[q].pc = "idle"
  BY AloneNext
<1> QED BY <1>1 DEF SwitchOK

\* Nothing is asked of a call that does not hold the sync lock.
LEMMA SwitchFree ==
  ASSUME NEW p,
         \/ proc'[p].pc \in {"idle", "request", "backup"}
         \/ /\ proc'[p].pc \in {"ensure", "ensured"} /\ lock' # p
            /\ proc'[p].then = "queue" => proc'[p].key \in Managed'
         \/ proc'[p].pc = "queued" /\ proc'[p].key \in Managed'
  PROVE  SwitchOK(p)'
BY DEF SwitchOK, Looping, Syncing

\* With the lock still held, the loop selects the store that setActive chose.
LEMMA ChoiceSelected ==
  ASSUME CallsInv, PartitionInv, SwitchInv, NEW p \in env.procs, Looping(p), Orderly, lock = p
  PROVE  LET r == proc[p]
             sel == Selected(stores[r.i], r.list, user)
         IN sel[1] = r.key \/ \A j \in 1..r.i : stores[j] # r.key
<1> DEFINE r == proc[p]
           s == stores[r.i]
           sel == Selected(s, r.list, user)
<1>1. /\ p \in Procs /\ CallOK(p) /\ r \in Calls /\ LoopOK(p) /\ SwitchOK(p)
  BY EnvFacts DEF CallsInv, TypeOK, PartitionInv, SwitchInv
<1>2. r.i \in 1..Len(stores) /\ s \in Stores /\ Len(stores) \in Nat /\ stores \in Seq(Stores)
  <2>1. Len(stores) \in Nat /\ stores \in Seq(Stores)
    BY DEF CallsInv, TypeOK
  <2>2. r.i \in 1..Len(stores)
    BY <1>1 DEF CallOK
  <2> QED BY <2>1, <2>2
<1>3. /\ r.key \in Managed /\ \A x \in Managed : user[x] = r.key
      /\ active = r.key \/ \A j \in 1..(r.i - 1) : stores[j] # r.key
  BY <1>1 DEF SwitchOK, Pushed
<1>4. \A j \in 1..Len(stores) : stores[j] \in Managed
  BY <1>2 DEF Managed, ToSet
<1>5. user[s] = r.key /\ r.key \in Stores
  BY <1>1, <1>2, <1>3, <1>4 DEF CallOK
<1>6. CASE active = r.key
  <2>1. active # None /\ conflictingActives = <<>>
    BY <1>1, <1>5, <1>6, NoneAssumption DEF LoopOK
  <2>2. EnabledWith(active, conflictingActives, user)
    BY <1>3, <1>6, <2>1 DEF EnabledWith
  <2> QED BY <1>6, <2>1, <2>2 DEF Selected
<1>7. CASE active # r.key /\ s = r.key
  <2>1. user[s] = s
    BY <1>5, <1>7
  <2>2. CASE active = None
    BY <1>7, <2>2 DEF Selected
  <2>3. CASE active # None
    <3>1. active \in Managed
      <4>1. r.i # 1 /\ active \in {stores[j] : j \in 1..(r.i - 1)}
        BY <1>1, <2>3 DEF LoopOK
      <4>2. \A j \in 1..(r.i - 1) : j \in 1..Len(stores)
        BY <1>2
      <4> QED BY <1>4, <4>1, <4>2
    <3>2. ~EnabledWith(active, conflictingActives, user)
      BY <1>3, <1>7, <3>1 DEF EnabledWith
    <3> QED BY <1>7, <2>1, <2>3, <3>2 DEF Selected
  <2> QED BY <2>2, <2>3
<1>8. CASE active # r.key /\ s # r.key
  <2>1. \A j \in 1..(r.i - 1) : stores[j] # r.key
    BY <1>3, <1>8
  <2>2. \A j \in 1..r.i : j = r.i \/ j \in 1..(r.i - 1)
    BY <1>2
  <2> QED BY <1>8, <2>1, <2>2
<1> QED BY <1>6, <1>7, <1>8

LEMMA ResumedFacts ==
  ASSUME NEW r \in Calls
  PROVE  \/ Resumed(r).pc \in {"request", "idle"}
         \/ r.then = "queue" /\ Resumed(r).pc = "queued" /\ Resumed(r).key = r.key
<1>1. CASE r.then = "return"
  BY <1>1 DEF Resumed, Idle
<1>2. CASE r.then = "queue"
  <2>1. Resumed(r) = [Idle EXCEPT !.pc = "queued", !.key = r.key]
    BY <1>2 DEF Resumed
  <2> QED BY <1>2, <2>1 DEF Idle
<1>3. CASE r.then \notin {"return", "queue"}
  <2>1. Resumed(r) = [Idle EXCEPT !.pc = "request", !.key = r.key]
    BY <1>3 DEF Resumed
  <2> QED BY <2>1 DEF Idle
<1> QED BY <1>1, <1>2, <1>3

LEMMA SwitchSelects ==
  ASSUME CallsInv, CallsInv', PartitionInv, SwitchInv, NEW p \in env.procs, Looping(p), Orderly,
         NEW cache \in [Stores -> Stores \cup {None}], SelectAndAdvance(p, cache),
         lock = p => cache = user, UNCHANGED durable
  PROVE  SwitchOK(p)'
<1> DEFINE r == proc[p]
           s == stores[r.i]
           sel == Selected(s, r.list, cache)
           last == r.i = Len(stores)
           next == IF ~last THEN [r EXCEPT !.pc = "ensure", !.got = None,
                                           !.i = r.i + 1, !.list = sel[2]]
                   ELSE Resumed(r)
<1>1. /\ p \in Procs /\ CallOK(p) /\ r \in Calls /\ proc \in [Procs -> Calls]
      /\ LoopOK(p) /\ SwitchOK(p)
  BY EnvFacts DEF CallsInv, TypeOK, PartitionInv, SwitchInv
<1>2. r.i \in 1..Len(stores) /\ s \in Stores /\ Len(stores) \in Nat /\ stores \in Seq(Stores)
  <2>1. Len(stores) \in Nat /\ stores \in Seq(Stores)
    BY DEF CallsInv, TypeOK
  <2>2. r.i \in 1..Len(stores)
    BY <1>1 DEF CallOK
  <2> QED BY <2>1, <2>2
<1>3. /\ user' = cache /\ active' = sel[1] /\ proc'[p] = next
      /\ lock' = IF last /\ lock = p THEN None ELSE lock
  BY <1>1 DEF SelectAndAdvance
<1>4. stores' = stores /\ db' = db /\ UNCHANGED held
  BY DEF durable
<1>7. r.then = "queue" => r.key \in Managed'
  BY <1>1, <1>4 DEF SwitchOK, Managed
<1>5. CASE last
  <2>1. \/ next.pc \in {"request", "idle"}
        \/ r.then = "queue" /\ next.pc = "queued" /\ next.key = r.key
    <3>1. next = Resumed(r)
      BY <1>5
    <3>2. r \in Calls
      BY <1>1
    <3> HIDE DEF next, r
    <3>3. \/ Resumed(r).pc \in {"request", "idle"}
          \/ r.then = "queue" /\ Resumed(r).pc = "queued" /\ Resumed(r).key = r.key
      BY <3>2, ResumedFacts
    <3> QED BY <3>1, <3>3
  <2> HIDE DEF next
  <2> QED BY <1>3, <1>7, <2>1, SwitchFree
<1>6. CASE ~last
  <2>1. next = [r EXCEPT !.pc = "ensure", !.got = None, !.i = r.i + 1, !.list = sel[2]]
    BY <1>6
  <2>2. /\ next.pc = "ensure" /\ next.i = r.i + 1 /\ next.key = r.key /\ next.source = r.source
        /\ next.then = r.then
    BY <1>1, <2>1 DEF Calls
  <2>3. lock' = lock
    BY <1>3, <1>6
  <2> HIDE DEF next
  <2>4. CASE lock # p
    BY <1>3, <1>7, <2>2, <2>3, <2>4, SwitchFree
  <2>5. CASE lock = p
    <3>1. /\ r.key \in Managed /\ \A x \in Managed : Pushed(p, x)
          /\ active = r.key \/ \A j \in 1..(r.i - 1) : stores[j] # r.key
      BY <1>1, <2>5 DEF SwitchOK
    <3>2. cache = user /\ \A x \in Managed : user[x] = r.key
      BY <2>5, <3>1 DEF Pushed
    <3>3. \A j \in 1..Len(stores) : stores[j] \in Managed
      BY <1>2 DEF Managed, ToSet
    <3>4. sel[1] = r.key \/ \A j \in 1..r.i : stores[j] # r.key
      BY <2>5, <3>2, ChoiceSelected
    <3> HIDE DEF sel, s
    <3>5. /\ Managed' = Managed
          /\ \A x \in Managed : Pushed(p, x)'
      BY <1>3, <1>4, <2>2, <3>1, <3>2 DEF Managed, Pushed, held
    <3>6. active' = proc'[p].key \/ \A j \in 1..(proc'[p].i - 1) : stores'[j] # proc'[p].key
      <4>1. proc'[p].i - 1 = r.i
        BY <1>2, <1>3, <2>2
      <4> QED BY <1>3, <1>4, <2>2, <3>4, <4>1
    <3> QED BY <1>3, <2>2, <3>1, <3>5, <3>6 DEF SwitchOK, Looping, Syncing
  <2> QED BY <2>4, <2>5
<1> QED BY <1>5, <1>6

\* What a page of a sync does to the records, the rows and the call.
Synced(p, from, to) ==
    /\ stores' = stores /\ clock' = clock /\ acked' = acked /\ lock' = lock /\ env' = env
    /\ switches' = switches /\ restarts' = restarts
    /\ SyncRows(from, to)
    /\ \A x \in Stores : x # to => db'[x] = db[x] /\ data'[x] = data[x]
    /\ \A l \in Links : l # <<from, to>> => link'[l] = link[l]
    /\ db'[to] = IF UserMerged(from, to) THEN db[from] ELSE db[to]
    /\ data[to] \subseteq data'[to] /\ data'[to] \subseteq data[to] \cup data[from]
    /\ overtaken \subseteq overtaken'
    /\ \/ /\ proc'[p].todo = proc[p].todo
          /\ \E r \in Pending(from, to) : SyncRow(from, to, r)
       \/ /\ proc'[p].todo = Tail(proc[p].todo) /\ SyncDone(from, to)
          /\ data[from] \ overtaken \subseteq data[to]
    /\ proc'[p].todo \in Seq(Stores) /\ ToSet(proc'[p].todo) \subseteq ToSet(proc[p].todo)
    /\ proc'[p].pc = proc[p].pc /\ proc'[p].i = proc[p].i /\ proc'[p].then = proc[p].then
    /\ proc'[p].key = proc[p].key /\ proc'[p].source = proc[p].source

LEMMA SyncFacts ==
  ASSUME CallsInv, LinkInv, NEW p \in Procs, NEW from \in Stores, NEW to \in Stores,
         SyncHead(p, from, to), proc[p].todo # <<>>
  PROVE  Synced(p, from, to)
<1>1. /\ db' = IF UserMerged(from, to) THEN [db EXCEPT ![to] = db[from]] ELSE db
      /\ \/ /\ \E r \in Pending(from, to) : SyncRow(from, to, r)
            /\ UNCHANGED proc
         \/ /\ SyncDone(from, to)
            /\ proc' = [proc EXCEPT ![p].todo = Tail(@)]
      /\ UNCHANGED <<stores, clock, acked, lock, switches, restarts, env>>
  BY DEF SyncHead
<1>2. /\ proc \in [Procs -> Calls] /\ DOMAIN db = Stores /\ TypeOK
      /\ proc[p] \in Calls /\ proc[p].todo \in Seq(Stores)
  BY DEF CallsInv, TypeOK, Calls
<1>3. SyncRows(from, to)
  BY <1>1 DEF SyncRows
<1>4. /\ \A x \in Stores : x # to => db'[x] = db[x] /\ data'[x] = data[x]
      /\ \A l \in Links : l # <<from, to>> => link'[l] = link[l]
      /\ db'[to] = IF UserMerged(from, to) THEN db[from] ELSE db[to]
  <2>1. /\ \A x \in Stores : x # to => db'[x] = db[x]
        /\ db'[to] = IF UserMerged(from, to) THEN db[from] ELSE db[to]
    BY <1>1, <1>2
  <2> QED BY <1>2, <1>3, <2>1, HeldTyped
<1>5. /\ data[to] \subseteq data'[to] /\ data'[to] \subseteq data[to] \cup data[from]
      /\ overtaken \subseteq overtaken'
  <2>1. CASE \E r \in Pending(from, to) : SyncRow(from, to, r)
    <3>1. \E r \in data[from] :
             /\ data'[to] = data[to] \cup {r}
             /\ overtaken' = IF Overtaken(to, r) THEN overtaken \cup {r} ELSE overtaken
      BY <1>2, <2>1, RowFacts
    <3> QED BY <3>1
  <2>2. CASE SyncDone(from, to)
    <3>1. data' = data /\ overtaken' = overtaken
      BY <1>2, <2>2, DoneFacts
    <3> QED BY <3>1
  <2> QED BY <1>1, <2>1, <2>2
<1>6. SyncDone(from, to) => data[from] \ overtaken \subseteq data[to]
  <2> SUFFICES ASSUME SyncDone(from, to), NEW r \in data[from], r \notin overtaken PROVE r \in data[to]
    OBVIOUS
  <2>1. Pending(from, to) = {}
    BY DEF SyncDone
  <2>2. r.at \in Nat /\ link[<<from, to>>].when \in Nat
    BY <1>2, DatesTyped
  <2>3. r.at < link[<<from, to>>].when \/ r \in link[<<from, to>>].counted
    BY <2>1, <2>2 DEF Pending
  <2> QED BY <2>3 DEF LinkInv, LinkOK
<1>7. \/ /\ proc'[p] = proc[p]
         /\ \E r \in Pending(from, to) : SyncRow(from, to, r)
      \/ /\ proc'[p] = [proc[p] EXCEPT !.todo = Tail(@)]
         /\ SyncDone(from, to)
  BY <1>1, <1>2
<1>8. /\ \/ /\ proc'[p].todo = proc[p].todo
            /\ \E r \in Pending(from, to) : SyncRow(from, to, r)
         \/ proc'[p].todo = Tail(proc[p].todo) /\ SyncDone(from, to)
      /\ proc'[p].pc = proc[p].pc /\ proc'[p].i = proc[p].i /\ proc'[p].then = proc[p].then
      /\ proc'[p].key = proc[p].key /\ proc'[p].source = proc[p].source
  BY <1>2, <1>7 DEF Calls
<1>9. proc'[p].todo \in Seq(Stores) /\ ToSet(proc'[p].todo) \subseteq ToSet(proc[p].todo)
  <2>1. /\ ToSet(proc[p].todo) = {Head(proc[p].todo)} \cup ToSet(Tail(proc[p].todo))
        /\ Tail(proc[p].todo) \in Seq(Stores)
    BY <1>2, StoreSets
  <2> QED BY <1>2, <1>8, <2>1
<1> QED BY <1>1, <1>3, <1>4, <1>5, <1>6, <1>8, <1>9 DEF Synced

\* The choice and the data come to one more store.
LEMMA SwitchPush ==
  ASSUME CallsInv, CallsInv', LinkInv, SwitchInv, NEW p \in env.procs, Orderly, PushToStore(p)
  PROVE  SwitchOK(p)'
<1> DEFINE s == Head(proc[p].todo)
           k == proc[p].key
           source == proc[p].source
<1>1. p \in Procs /\ CallOK(p) /\ proc[p] \in Calls /\ proc \in [Procs -> Calls] /\ SwitchOK(p)
  BY EnvFacts DEF CallsInv, TypeOK, SwitchInv
<1>2. /\ proc[p].pc = "push" /\ proc[p].todo # <<>> /\ user' = [user EXCEPT ![s] = k]
      /\ IF s = source
         THEN /\ proc' = [proc EXCEPT ![p].todo = Tail(@)]
              /\ UNCHANGED <<durable, lock, switches, restarts>>
         ELSE SyncHead(p, source, s)
      /\ UNCHANGED <<active, backups, conflictingActives, isAvailable, authIsActive>>
  BY DEF PushToStore
<1>3. /\ k \in Managed /\ source \in Managed /\ ToSet(proc[p].todo) \subseteq Managed
      /\ db[source] = [active |-> k, at |-> clock]
      /\ \A x \in Stores : db[x].at = clock => db[x].active = k
      /\ \A x \in Stores : db[x].at = clock \/ link[<<source, x>>].when < clock
      /\ \A x \in Managed \ ToSet(proc[p].todo) : Pushed(p, x)
  BY <1>1, <1>2 DEF SwitchOK, Syncing
<1>4. /\ stores \in Seq(Stores) /\ Managed \subseteq Stores /\ proc[p].todo \in Seq(Stores)
      /\ user \in [Stores -> Stores \cup {None}]
  BY <1>1, StoreSets DEF CallsInv, TypeOK, Managed, Calls
<1>5. /\ s \in Stores /\ ToSet(proc[p].todo) = {s} \cup ToSet(Tail(proc[p].todo))
      /\ source \in Stores /\ k \in Stores
  BY <1>2, <1>3, <1>4, StoreSets
<1>6. user'[s] = k /\ \A x \in Stores : x # s => user'[x] = user[x]
  BY <1>2, <1>4, <1>5
<1> HIDE DEF s
<1>7. CASE s = source
  <2>1. /\ proc'[p] = [proc[p] EXCEPT !.todo = Tail(@)] /\ stores' = stores /\ db' = db
        /\ UNCHANGED <<data, link, overtaken>> /\ clock' = clock
    BY <1>1, <1>2, <1>7 DEF durable, held
  <2>2. /\ proc'[p].pc = "push" /\ proc'[p].key = k /\ proc'[p].source = source
        /\ proc'[p].todo = Tail(proc[p].todo)
    BY <1>1, <1>2, <2>1 DEF Calls
  <2>3. ASSUME NEW x \in Managed \ ToSet(Tail(proc[p].todo)) PROVE Pushed(p, x)'
    <3>1. CASE x = s
      BY <1>3, <1>6, <1>7, <2>1, <2>2, <3>1 DEF Pushed
    <3>2. CASE x # s
      BY <1>3, <1>4, <1>5, <1>6, <2>1, <2>2, <2>3, <3>2 DEF Pushed
    <3> QED BY <3>1, <3>2
  <2> QED BY <1>3, <1>5, <2>1, <2>2, <2>3 DEF SwitchOK, Looping, Syncing, Managed
<1>8. CASE s # source
  <2>1. SyncHead(p, source, s)
    BY <1>2, <1>8
  <2>2. Synced(p, source, s)
    BY <1>1, <1>2, <1>5, <2>1, SyncFacts
  <2>3. proc'[p].pc = "push" /\ proc'[p].key = k /\ proc'[p].source = source
    BY <1>2, <2>2 DEF Synced
  <2>4. /\ db'[s].active = k /\ db'[s].at = clock /\ db'[source] = [active |-> k, at |-> clock]
        /\ data'[source] = data[source]
    <3>1. db[s].at <= clock /\ db[s].at \in Nat /\ clock \in Nat
      BY <1>5, DatesTyped DEF CallsInv, RecordsOK
    <3>2. db[source].at = clock /\ db[source].active = k
      BY <1>3
    <3>3. CASE db[s].at = clock
      <4>1. db[s].active = k
        BY <1>3, <1>5, <3>3
      <4>2. db'[source] = db[source] /\ (db'[s] = db[source] \/ db'[s] = db[s])
        BY <1>5, <1>8, <2>2 DEF Synced
      <4>3. data'[source] = data[source]
        BY <1>5, <1>8, <2>2 DEF Synced
      <4> QED BY <1>3, <3>2, <3>3, <4>1, <4>2, <4>3
    <3>4. CASE db[s].at # clock
      <4>1. UserMerged(source, s)
        BY <1>3, <1>5, <3>1, <3>2, <3>4 DEF UserMerged
      <4> QED BY <1>3, <1>5, <1>8, <2>2, <3>2, <4>1 DEF Synced
    <3> QED BY <3>3, <3>4
  <2>5. \A x \in Stores : /\ db'[x].at = clock => db'[x].active = k
                          /\ db'[x].at = clock \/ link'[<<source, x>>].when < clock
    <3> SUFFICES ASSUME NEW x \in Stores, x # s
                 PROVE  /\ db'[x].at = clock => db'[x].active = k
                        /\ db'[x].at = clock \/ link'[<<source, x>>].when < clock
      BY <2>4
    <3>1. <<source, x>> \in Links /\ <<source, x>> # <<source, s>>
      BY <1>5 DEF Links
    <3> QED BY <1>3, <2>2, <3>1 DEF Synced
  <2>6. ASSUME NEW x \in Managed \ ToSet(proc'[p].todo) PROVE Pushed(p, x)'
    <3>1. CASE x # s
      <4>1. x \in Managed \ ToSet(proc[p].todo)
        <5>1. CASE proc'[p].todo = proc[p].todo
          BY <2>6, <5>1
        <5>2. CASE proc'[p].todo = Tail(proc[p].todo)
          BY <1>5, <2>6, <3>1, <5>2
        <5> QED BY <2>2, <5>1, <5>2 DEF Synced
      <4>2. db'[x] = db[x] /\ data'[x] = data[x] /\ user'[x] = user[x] /\ Pushed(p, x)
        BY <1>3, <1>4, <1>6, <2>2, <3>1, <4>1 DEF Synced
      <4> QED BY <2>2, <2>3, <2>4, <4>2 DEF Pushed, Synced
    <3>2. CASE x = s
      <4>1. proc'[p].todo # proc[p].todo
        BY <1>5, <2>6, <3>2
      <4>2. data[source] \ overtaken' \subseteq data'[s]
        BY <2>2, <4>1 DEF Synced
      <4> QED BY <1>6, <2>3, <2>4, <3>2, <4>2 DEF Pushed
    <3> QED BY <3>1, <3>2
  <2>7. stores' = stores /\ clock' = clock /\ ToSet(proc'[p].todo) \subseteq ToSet(proc[p].todo)
    BY <2>2 DEF Synced
  <2> QED BY <1>3, <2>3, <2>4, <2>5, <2>6, <2>7 DEF SwitchOK, Looping, Syncing, Managed
<1> QED BY <1>7, <1>8

LEMMA SwitchStarts ==
  ASSUME CallsInv, NEW p \in env.procs, NEW r \in Calls, NEW then, StartMakeAvailable(p, r, then),
         proc[p].pc \in {"idle", "request", "queued"}, lock' = lock,
         then = "queue" => r.key \in Managed'
  PROVE  SwitchOK(p)'
<1>1. p \in Procs /\ CallOK(p) /\ proc \in [Procs -> Calls]
  BY EnvFacts DEF CallsInv, TypeOK
<1>2. lock # p
  BY <1>1 DEF CallOK, Looping, Syncing
<1>3. proc'[p].pc = "ensure" /\ proc'[p].then = then /\ proc'[p].key = r.key
  BY <1>1 DEF StartMakeAvailable, Calls
<1> QED BY <1>2, <1>3, SwitchFree

LEMMA SwitchInit == Init => SwitchInv
BY DEF Init, SwitchInv, SwitchOK, Looping, Syncing, Idle

\* Conflicting stores and the active one are managed stores.
LEMMA SwitchBegins ==
  ASSUME CallsInv, PartitionInv, SwitchInv, NEW p \in env.procs, Orderly, SetActiveBegins(p)
  PROVE  SwitchOK(p)'
<1> DEFINE confl == IF conflictingActives = <<>> THEN <<>>
                    ELSE Filter(Append(conflictingActives, active), Stores \ {proc[p].key})
<1>1. p \in Procs /\ proc[p] \in Calls /\ proc \in [Procs -> Calls] /\ SwitchOK(p)
  BY EnvFacts DEF CallsInv, TypeOK, SwitchInv
<1>2. /\ proc[p].pc = "queued" /\ stores' = stores /\ active' = active /\ isAvailable
      /\ lock' = p
      /\ conflictingActives' = confl
      /\ proc' = [proc EXCEPT ![p] = [@ EXCEPT !.pc = "merge", !.todo = confl]]
  BY DEF SetActiveBegins, durable
<1>3. proc[p].key \in Managed
  BY <1>1, <1>2 DEF SwitchOK
<1>4. Settled
  <2>1. \A q \in Procs : ~Syncing(q)
    BY <1>2, Alone DEF Syncing
  <2> QED BY <1>2, <2>1 DEF PartitionInv
<1>5. active \in Stores /\ backups \in Seq(Stores) /\ conflictingActives \in Seq(Stores)
  BY <1>2 DEF CallsInv, TypeOK, RecordsOK
<1>6. active \in Managed /\ ToSet(conflictingActives) \subseteq Managed
  BY <1>4, <1>5, PartsJoined DEF Settled, Placed
<1>7. ToSet(confl) \subseteq Managed
  <2>1. CASE conflictingActives = <<>>
    BY <2>1, StoreSets
  <2>2. CASE conflictingActives # <<>>
    <3>1. /\ Append(conflictingActives, active) \in Seq(Stores)
          /\ ToSet(Append(conflictingActives, active)) \subseteq Managed
      BY <1>5, <1>6, StoreSets
    <3> DEFINE rest == Append(conflictingActives, active)
               S == Stores \ {proc[p].key}
    <3>2. confl = Filter(rest, S)
      BY <2>2
    <3> HIDE DEF confl, rest, S
    <3>3. ToSet(confl) = ToSet(rest) \cap S
      BY <3>1, <3>2, FilterFacts DEF rest
    <3> QED BY <3>1, <3>3 DEF rest
  <2> QED BY <2>1, <2>2
<1> HIDE DEF confl
<1>8. proc'[p].pc = "merge" /\ proc'[p].todo = confl /\ proc'[p].key = proc[p].key
  BY <1>1, <1>2 DEF Calls
<1> QED BY <1>2, <1>3, <1>6, <1>7, <1>8 DEF SwitchOK, Looping, Syncing, Managed

\* The record of the choice is newer than every other.
LEMMA SwitchMark ==
  ASSUME CallsInv, LinkInv, SwitchInv, NEW p \in env.procs, Orderly, MarkActive(p)
  PROVE  SwitchOK(p)'
<1> DEFINE k == proc[p].key
           source == proc[p].source
<1>1. p \in Procs /\ CallOK(p) /\ proc[p] \in Calls /\ proc \in [Procs -> Calls] /\ SwitchOK(p)
  BY EnvFacts DEF CallsInv, TypeOK, SwitchInv
<1>2. /\ proc[p].pc = "mark" /\ clock' = clock + 1 /\ stores' = stores
      /\ db' = [db EXCEPT ![source] = [active |-> k, at |-> clock + 1]]
      /\ proc' = [proc EXCEPT ![p] = [@ EXCEPT !.pc = "push", !.todo = stores]]
  BY DEF MarkActive
<1>3. k \in Managed /\ source \in Managed /\ source \in Stores
  BY <1>1, <1>2 DEF SwitchOK, Syncing, CallOK
<1>4. /\ proc'[p].pc = "push" /\ proc'[p].key = k /\ proc'[p].source = source
      /\ proc'[p].todo = stores
  BY <1>1, <1>2 DEF Calls
<1>5. /\ DOMAIN db = Stores /\ clock \in Nat
      /\ \A x \in Stores : db[x].at \in Nat /\ db[x].at <= clock
  BY BoundsAssumption DEF CallsInv, TypeOK, Dates, RecordsOK
<1> HIDE DEF k, source
<1>6. /\ db'[source] = [active |-> k, at |-> clock + 1]
      /\ \A x \in Stores : x # source => db'[x] = db[x]
  BY <1>2, <1>3, <1>5
<1>7. \A x \in Stores : db'[x].at = clock' => db'[x].active = k
  <2> SUFFICES ASSUME NEW x \in Stores, x # source PROVE db'[x].at # clock'
    BY <1>6
  <2> QED BY <1>2, <1>5, <1>6
<1>8. \A x \in Stores : link'[<<source, x>>].when < clock'
  <2> SUFFICES ASSUME NEW x \in Stores PROVE link'[<<source, x>>].when < clock'
    OBVIOUS
  <2>1. link[<<source, x>>].when \in Nat /\ link[<<source, x>>].when <= clock
    BY <1>3, DatesTyped DEF CallsInv, LinkInv, LinkOK
  <2>2. link' = link
    BY DEF MarkActive, held
  <2> QED BY <1>2, <1>5, <2>1, <2>2
<1> QED BY <1>2, <1>3, <1>4, <1>6, <1>7, <1>8 DEF SwitchOK, Looping, Syncing, Managed

LEMMA SwitchStep ==
  ASSUME CallsInv, CallsInv', LinkInv, PartitionInv, SwitchInv, NEW p \in env.procs, Orderly, Step(p)
  PROVE  SwitchOK(p)'
<1>1. /\ p \in Procs /\ CallOK(p) /\ proc[p] \in Calls /\ proc \in [Procs -> Calls]
      /\ SwitchOK(p) /\ LoopOK(p)
  BY EnvFacts DEF CallsInv, TypeOK, SwitchInv, PartitionInv
<1>2. /\ user \in [Stores -> Stores \cup {None}] /\ stores \in Seq(Stores)
      /\ Managed \subseteq Stores /\ proc[p].todo \in Seq(Stores)
  BY <1>1, StoreSets DEF CallsInv, TypeOK, Managed, Calls
<1>3. CASE EnsureCached(p)
  BY <1>2, <1>3, SwitchSelects DEF EnsureCached, Looping
<1>4. CASE EnsureApply(p)
  <2>1. Looping(p) /\ proc[p].pc = "ensured" /\ lock # p /\ proc[p].got \in Stores
    BY <1>1, <1>4 DEF EnsureApply, Looping, SwitchOK, CallOK
  <2>2. [user EXCEPT ![stores[proc[p].i]] = proc[p].got] \in [Stores -> Stores \cup {None}]
    BY <1>2, <2>1
  <2> QED BY <1>4, <2>1, <2>2, SwitchSelects DEF EnsureApply
<1>5. CASE EnsureFetch(p)
  <2>1. /\ proc[p].pc = "ensure" /\ user[stores[proc[p].i]] = None /\ lock' = lock /\ stores' = stores
        /\ proc'[p].pc = "ensured" /\ proc'[p].then = proc[p].then /\ proc'[p].key = proc[p].key
    <3>1. proc'[p] = [proc[p] EXCEPT !.pc = "ensured", !.got = db'[stores[proc[p].i]].active]
      BY <1>1, <1>5 DEF EnsureFetch
    <3>2. proc'[p].pc = "ensured" /\ proc'[p].then = proc[p].then /\ proc'[p].key = proc[p].key
      BY <1>1, <3>1 DEF Calls
    <3> QED BY <1>5, <3>2 DEF EnsureFetch
  <2>2. lock # p
    <3> SUFFICES ASSUME lock = p PROVE FALSE
      OBVIOUS
    <3>1. \A s \in Managed : user[s] = proc[p].key
      BY <1>1, <2>1 DEF SwitchOK, Looping, Pushed
    <3>2. stores[proc[p].i] \in Managed /\ proc[p].key \in Stores
      <4>1. proc[p].i \in 1..Len(stores) /\ proc[p].key \in Stores
        BY <1>1, <2>1 DEF CallOK, Looping
      <4> QED BY <1>2, <4>1 DEF Managed, ToSet
    <3> QED BY <2>1, <3>1, <3>2, NoneAssumption
  <2>3. proc[p].then = "queue" => proc[p].key \in Managed'
    BY <1>1, <2>1 DEF SwitchOK, Looping, Managed
  <2> QED BY <2>1, <2>2, <2>3, SwitchFree
<1>6. CASE Throw(p)
  BY <1>6 DEF Throw, Orderly
<1>7. CASE SetActiveRetries(p)
  <2>1. StartMakeAvailable(p, proc[p], "setActive") /\ proc[p].pc = "request" /\ lock' = lock
    BY <1>7 DEF SetActiveRetries
  <2> QED BY <1>1, <2>1, SwitchStarts
<1>8. CASE SetActiveReturns(p) \/ UpdateBackupsEnds(p)
  <2>1. proc'[p].pc = "idle"
    BY <1>1, <1>8 DEF SetActiveReturns, UpdateBackupsEnds, Idle
  <2> QED BY <2>1, SwitchFree
<1>9. CASE SetActiveQueues(p)
  <2>1. proc' = [proc EXCEPT ![p].pc = "queued"] /\ proc[p].key \in Managed /\ stores' = stores
    BY <1>9 DEF SetActiveQueues, Managed, durable
  <2>2. proc'[p].pc = "queued" /\ proc'[p].key = proc[p].key
    BY <1>1, <2>1 DEF Calls
  <2> QED BY <2>1, <2>2, SwitchFree DEF Managed
<1>10. CASE SetActiveBegins(p)
  BY <1>10, SwitchBegins
<1>17. CASE SetActiveFindsUnavailable(p)
  <2>1. proc[p].pc = "queued" /\ lock' = lock /\ stores' = stores /\ proc[p].key \in Managed
    BY <1>1, <1>17 DEF SetActiveFindsUnavailable, durable, SwitchOK
  <2>2. CASE StartMakeAvailable(p, proc[p], "queue")
    <3>1. proc[p].key \in Managed'
      BY <2>1 DEF Managed
    <3> QED BY <1>1, <2>1, <2>2, <3>1, SwitchStarts
  <2>3. CASE proc' = [proc EXCEPT ![p] = Idle]
    <3>1. proc'[p].pc = "idle"
      BY <1>1, <2>3 DEF Idle
    <3> QED BY <3>1, SwitchFree
  <2> QED BY <1>17, <2>2, <2>3 DEF SetActiveFindsUnavailable
<1>11. CASE MergeConflict(p)
  <2>1. /\ proc[p].pc = "merge" /\ proc[p].todo # <<>> /\ active' = active
        /\ SyncHead(p, Head(proc[p].todo), proc[p].key)
    BY <1>11 DEF MergeConflict, manager
  <2>2. proc[p].key \in Managed /\ active \in Managed /\ ToSet(proc[p].todo) \subseteq Managed
    BY <1>1, <2>1 DEF SwitchOK, Syncing
  <2>3. Head(proc[p].todo) \in Stores /\ proc[p].key \in Stores
    BY <1>2, <2>1, <2>2, StoreSets
  <2>4. Synced(p, Head(proc[p].todo), proc[p].key)
    BY <1>1, <2>1, <2>3, SyncFacts
  <2>5. /\ proc'[p].pc = "merge" /\ proc'[p].key = proc[p].key /\ stores' = stores
        /\ ToSet(proc'[p].todo) \subseteq ToSet(proc[p].todo)
    BY <2>1, <2>4 DEF Synced
  <2> QED BY <2>1, <2>2, <2>5 DEF SwitchOK, Syncing, Looping, Managed
<1>12. CASE ChooseBackupSource(p)
  <2> DEFINE source == IF conflictingActives # <<>> THEN proc[p].key ELSE active
  <2>1. /\ proc[p].pc = "merge" /\ stores' = stores
        /\ IF source = None THEN proc' = [proc EXCEPT ![p] = Idle]
           ELSE proc' = [proc EXCEPT ![p] = [@ EXCEPT !.pc = "mark", !.source = source]]
    BY <1>12 DEF ChooseBackupSource, durable
  <2>2. proc[p].key \in Managed /\ active \in Managed /\ source \in Managed
    BY <1>1, <2>1 DEF SwitchOK, Syncing
  <2> HIDE DEF source
  <2>3. CASE source = None
    <3>1. proc'[p].pc = "idle"
      BY <1>1, <2>1, <2>3 DEF Idle
    <3> QED BY <3>1, SwitchFree
  <2>4. CASE source # None
    <3>1. proc'[p].pc = "mark" /\ proc'[p].key = proc[p].key /\ proc'[p].source = source
      BY <1>1, <2>1, <2>4 DEF Calls
    <3> QED BY <2>1, <2>2, <3>1 DEF SwitchOK, Syncing, Looping, Managed
  <2> QED BY <2>3, <2>4
<1>13. CASE MarkActive(p)
  BY <1>13, SwitchMark
<1>14. CASE PushToStore(p)
  BY <1>14, SwitchPush
<1>15. CASE SetActiveEnds(p)
  <2>1. /\ proc[p].pc = "push" /\ proc[p].todo = <<>> /\ UNCHANGED <<durable, lock, user>>
        /\ proc' = [proc EXCEPT ![p] = [proc[p] EXCEPT !.pc = "ensure", !.i = 1,
                                                       !.list = <<>>, !.then = "return"]]
    BY <1>15 DEF SetActiveEnds, StartMakeAvailable
  <2>2. /\ proc'[p].pc = "ensure" /\ proc'[p].i = 1 /\ proc'[p].key = proc[p].key
        /\ proc'[p].source = proc[p].source /\ proc'[p].then = "return"
    BY <1>1, <2>1 DEF Calls
  <2>3. proc[p].key \in Managed /\ \A s \in Managed : Pushed(p, s)
    BY <1>1, <2>1, StoreSets DEF SwitchOK, Syncing
  <2>4. Managed' = Managed /\ \A s \in Managed : Pushed(p, s)'
    BY <2>1, <2>2, <2>3 DEF Pushed, Managed, durable, held
  <2>5. \A j \in 1..(proc'[p].i - 1) : FALSE
    BY <2>2
  <2> QED BY <2>2, <2>3, <2>4, <2>5 DEF SwitchOK, Syncing, Looping
<1>16. CASE BackupStore(p)
  <2>1. /\ proc[p].pc = "backup" /\ proc[p].todo # <<>>
        /\ SyncHead(p, proc[p].source, Head(proc[p].todo))
    BY <1>16 DEF BackupStore
  <2>2. Head(proc[p].todo) \in Stores /\ proc[p].source \in Stores
    BY <1>1, <1>2, <2>1, StoreSets DEF CallOK
  <2>3. Synced(p, proc[p].source, Head(proc[p].todo))
    BY <1>1, <2>1, <2>2, SyncFacts
  <2> QED BY <2>1, <2>3, SwitchFree DEF Synced
<1> QED BY <1>3, <1>4, <1>5, <1>6, <1>7, <1>8, <1>9, <1>10, <1>11, <1>12, <1>13, <1>14, <1>15, <1>16,
           <1>17 DEF Step

LEMMA SwitchNext == CallsInv /\ LinkInv /\ PartitionInv /\ SwitchInv /\ [Next]_vars => SwitchInv'
<1> SUFFICES ASSUME CallsInv, LinkInv, PartitionInv, SwitchInv, [Next]_vars PROVE SwitchInv'
  OBVIOUS
<1>0. CallsInv'
  BY CallsNext
<1>a. proc \in [Procs -> Calls] /\ \A p \in env.procs : p \in Procs /\ proc[p] \in Calls
  BY EnvFacts DEF CallsInv, TypeOK
<1>1. ASSUME NEW p \in env.procs, Step(p) PROVE SwitchInv'
  <2>1. env' = env
    BY <1>1 DEF Step, EnsureCached, EnsureFetch, EnsureApply, Throw, SetActiveRetries, SetActiveReturns,
           SetActiveQueues, SetActiveBegins, SetActiveFindsUnavailable, MergeConflict,
           ChooseBackupSource, MarkActive, PushToStore, SetActiveEnds, BackupStore,
           UpdateBackupsEnds, SyncHead, durable
  <2>2. Orderly => SwitchOK(p)'
    BY <1>0, <1>1, SwitchStep
  <2> QED BY <1>0, <2>1, <2>2, SwitchOf
<1>2. ASSUME NEW p \in env.procs, MakeAvailable(p) PROVE SwitchInv'
  <2>1. StartMakeAvailable(p, Idle, "return") /\ proc[p].pc = "idle" /\ lock' = lock /\ env' = env
    BY <1>2 DEF MakeAvailable, durable
  <2>2. SwitchOK(p)'
    BY <2>1, IdleType, SwitchStarts
  <2> QED BY <1>0, <2>1, <2>2, SwitchOf
<1>3. ASSUME NEW p \in env.procs, NEW s \in env.stores, AddWalletStorageProvider(p, s) PROVE SwitchInv'
  <2>1. StartMakeAvailable(p, Idle, "return") /\ proc[p].pc = "idle" /\ lock' = lock /\ env' = env
    BY <1>3 DEF AddWalletStorageProvider
  <2>2. SwitchOK(p)'
    BY <2>1, IdleType, SwitchStarts
  <2> QED BY <1>0, <2>1, <2>2, SwitchOf
<1>4. ASSUME NEW p \in env.procs, NEW s \in env.stores, SetActive(p, s) PROVE SwitchInv'
  <2> DEFINE r == [Idle EXCEPT !.key = s]
  <2>1. /\ proc[p].pc = "idle" /\ env' = env /\ lock' = lock
        /\ \/ proc' = [proc EXCEPT ![p] = [r EXCEPT !.pc = "request"]]
           \/ StartMakeAvailable(p, r, "setActive")
    BY <1>4 DEF SetActive, durable
  <2>2. r \in Calls /\ [r EXCEPT !.pc = "request"].pc = "request"
    <3>1. s \in Stores
      BY EnvFacts DEF CallsInv
    <3> QED BY <3>1, IdleType DEF Calls
  <2> HIDE DEF r
  <2>3. CASE proc' = [proc EXCEPT ![p] = [r EXCEPT !.pc = "request"]]
    <3>1. proc'[p].pc = "request"
      BY <1>a, <2>2, <2>3
    <3>2. SwitchOK(p)'
      BY <3>1, SwitchFree
    <3> QED BY <1>0, <2>1, <3>2, SwitchOf
  <2>4. CASE StartMakeAvailable(p, r, "setActive")
    <3>1. SwitchOK(p)'
      BY <2>1, <2>2, <2>4, SwitchStarts
    <3> QED BY <1>0, <2>1, <3>1, SwitchOf
  <2> QED BY <2>1, <2>3, <2>4
<1>5. ASSUME NEW p \in env.procs, UpdateBackups(p) PROVE SwitchInv'
  <2>1. env' = env /\ proc'[p] = [Idle EXCEPT !.pc = "backup", !.source = active, !.todo = backups]
    BY <1>5, <1>a DEF UpdateBackups, durable
  <2>2. proc'[p].pc = "backup"
    BY <2>1 DEF Idle
  <2>3. SwitchOK(p)'
    BY <2>2, SwitchFree
  <2> QED BY <1>0, <2>1, <2>3, SwitchOf
<1>6. ASSUME NEW w \in Writes, Write(w) PROVE SwitchInv'
  <2>1. lock = None /\ lock' = lock /\ proc' = proc /\ env' = env /\ stores' = stores
    BY <1>6 DEF Write
  <2>2. ASSUME NEW p \in Procs, Orderly, SwitchOK(p) PROVE SwitchOK(p)'
    <3>1. ~Syncing(p) /\ proc[p].pc # "backup" /\ lock # p
      BY <2>1, NoneAssumption DEF CallsInv, CallOK
    <3> QED BY <2>1, <2>2, <3>1 DEF SwitchOK, Looping, Syncing, Managed
  <2> QED BY <2>1, <2>2 DEF SwitchInv, Orderly
<1>7. CASE UNCHANGED vars
  <2>1. UNCHANGED <<stores, db, held, clock, user, active, proc, lock, env>>
    BY <1>7 DEF vars, manager, durable
  <2> QED BY <2>1 DEF SwitchInv, SwitchOK, Pushed, Orderly, Looping, Syncing, Managed, held
<1>8. CASE Restart
  BY <1>8 DEF Restart, SwitchInv, SwitchOK, Looping, Syncing, Idle
<1> QED BY <1>1, <1>2, <1>3, <1>4, <1>5, <1>6, <1>7, <1>8 DEF Next


-----------------------------------------------------------------------------
(***************************************************************************)
(* One call at a time, before a restart: DataInv.                          *)
(***************************************************************************)
LEMMA DataOf ==
  ASSUME CallsInv', NEW p \in env.procs', env' = env, restarts' = restarts,
         Orderly /\ restarts = 0 => /\ OwnedOK'
                                    /\ CarryOK(p)'
                                    /\ ~Syncing(p)' => \A s \in Managed' : Follows(s)'
  PROVE  DataInv'
<1>0. Orderly' <=> Orderly
  BY DEF Orderly
<1> SUFFICES ASSUME Orderly', restarts' = 0
             PROVE  /\ OwnedOK'
                    /\ \A q \in Procs : CarryOK(q)'
                    /\ (\A q \in Procs : ~Syncing(q)') => \A s \in Managed' : Follows(s)'
  BY DEF DataInv
<1>1. p \in Procs /\ \A q \in Procs : q # p => proc'[q].pc = "idle"
  BY AloneNext
<1>2. \A q \in Procs : q # p => CarryOK(q)'
  BY <1>1 DEF CarryOK
<1> QED BY <1>0, <1>1, <1>2

\* Of the call under way, from the invariants.
LEMMA DataFrom ==
  ASSUME CallsInv, PartitionInv, SwitchInv, DataInv, NEW p \in env.procs, Orderly, restarts = 0
  PROVE  /\ p \in Procs /\ CallOK(p) /\ proc[p] \in Calls /\ proc \in [Procs -> Calls]
         /\ proc[p].todo \in Seq(Stores)
         /\ LoopOK(p) /\ SwitchOK(p) /\ CarryOK(p) /\ OwnedOK
         /\ stores \in Seq(Stores) /\ Managed \subseteq Stores
         /\ user \in [Stores -> Stores \cup {None}] /\ DOMAIN db = Stores /\ DOMAIN data = Stores
         /\ isAvailable => active \in Stores /\ \A s \in Managed : user[s] # None
         /\ Syncing(p) \/ proc[p].pc = "backup" => isAvailable
         /\ isAvailable /\ ~Syncing(p) => Settled
         /\ ~Syncing(p) => \A s \in Managed : Follows(s)
<1>1. /\ p \in Procs /\ CallOK(p) /\ proc[p] \in Calls /\ proc \in [Procs -> Calls]
      /\ stores \in Seq(Stores) /\ user \in [Stores -> Stores \cup {None}]
      /\ DOMAIN db = Stores /\ DOMAIN data = Stores
  BY EnvFacts DEF CallsInv, TypeOK
<1>2. Managed \subseteq Stores /\ proc[p].todo \in Seq(Stores)
  BY <1>1, StoreSets DEF Managed, Calls
<1>3. \A q \in Procs : q # p => ~Syncing(q)
  BY Alone
<1>4. /\ LoopOK(p) /\ (Syncing(p) \/ proc[p].pc = "backup" => isAvailable)
      /\ isAvailable => \A s \in Managed : user[s] # None
      /\ isAvailable /\ ~Syncing(p) => Settled
  BY <1>1, <1>3 DEF PartitionInv
<1>5. SwitchOK(p) /\ CarryOK(p) /\ OwnedOK
  BY <1>1 DEF SwitchInv, DataInv
<1>6. ~Syncing(p) => \A s \in Managed : Follows(s)
  BY <1>3 DEF DataInv
<1>7. isAvailable => active \in Stores
  BY DEF CallsInv, RecordsOK
<1> QED BY <1>1, <1>2, <1>4, <1>5, <1>6, <1>7

\* No store, no record and no data is touched.
LEMMA DataStays ==
  ASSUME CallsInv, CallsInv', LinkInv, PartitionInv, SwitchInv, DataInv, NEW p \in env.procs,
         UNCHANGED <<stores, db, data, overtaken, acked, user, restarts, env>>,
         Syncing(p) => Syncing(p)',
         Orderly /\ restarts = 0 => CarryOK(p)'
  PROVE  DataInv'
<1>1. ASSUME Orderly, restarts = 0
      PROVE  OwnedOK' /\ (~Syncing(p)' => \A s \in Managed' : Follows(s)')
  <2>1. OwnedOK /\ (~Syncing(p) => \A s \in Managed : Follows(s))
    BY <1>1, DataFrom
  <2>2. Managed' = Managed
    BY DEF Managed
  <2> QED BY <2>1, <2>2 DEF OwnedOK, Follows
<1> QED BY <1>1, DataOf

\* Nothing is asked of a call that carries nothing.
LEMMA CarryFree ==
  ASSUME NEW p, proc'[p].pc \in {"idle", "ensure", "request", "queued"}
  PROVE  CarryOK(p)' /\ ~Syncing(p)'
BY DEF CarryOK, Syncing

\* A store found in the loop of makeAvailable follows itself.
LEMMA DataSelects ==
  ASSUME CallsInv, CallsInv', LinkInv, PartitionInv, SwitchInv, DataInv, NEW p \in env.procs, Looping(p),
         NEW cache, SelectAndAdvance(p, cache), UNCHANGED <<durable, restarts>>,
         Orderly /\ restarts = 0 =>
             \/ cache = user
             \/ LET s == stores[proc[p].i]
                IN user[s] = None /\ cache = [user EXCEPT ![s] = s]
  PROVE  DataInv'
<1> DEFINE s == stores[proc[p].i]
<1>1. UNCHANGED <<stores, db, data, overtaken, acked, env>> /\ user' = cache
  BY DEF durable, SelectAndAdvance, held
<1>2. ASSUME Orderly, restarts = 0
      PROVE  /\ OwnedOK' /\ CarryOK(p)'
             /\ ~Syncing(p)' => \A x \in Managed' : Follows(x)'
  <2>1. /\ p \in Procs /\ CallOK(p) /\ proc[p] \in Calls /\ proc \in [Procs -> Calls] /\ OwnedOK
        /\ stores \in Seq(Stores) /\ Managed \subseteq Stores
        /\ user \in [Stores -> Stores \cup {None}]
        /\ ~Syncing(p) => \A x \in Managed : Follows(x)
    BY <1>2, DataFrom
  <2>2. \A x \in Managed : Follows(x)
    BY <2>1 DEF Looping, Syncing
  <2>3. CarryOK(p)'
    <3> DEFINE r == proc[p]
               sel == Selected(s, r.list, cache)
               last == r.i = Len(stores)
               next == IF ~last THEN [r EXCEPT !.pc = "ensure", !.got = None,
                                               !.i = r.i + 1, !.list = sel[2]]
                       ELSE Resumed(r)
    <3>1. proc'[p] = next
      BY <2>1 DEF SelectAndAdvance
    <3>2. next.pc \in {"idle", "ensure", "request", "queued"}
      <4>1. CASE last
        <5>1. next = Resumed(r) /\ r \in Calls
          BY <2>1, <4>1
        <5> HIDE DEF next, r
        <5> QED BY <5>1, ResumedFacts
      <4>2. CASE ~last
        <5> HIDE DEF sel, last
        <5> QED BY <2>1, <4>2 DEF Calls
      <4> QED BY <4>1, <4>2
    <3> HIDE DEF next
    <3> QED BY <3>1, <3>2, CarryFree
  <2>4. s \in Managed /\ s \in Stores
    <3>1. proc[p].i \in 1..Len(stores)
      BY <2>1 DEF CallOK
    <3> QED BY <2>1, <3>1 DEF Managed, ToSet
  <2> HIDE DEF s
  <2>5. Managed' = Managed
    BY <1>1 DEF Managed
  <2>6. CASE cache = user
    BY <1>1, <2>1, <2>2, <2>3, <2>5, <2>6 DEF OwnedOK, Follows
  <2>7. CASE user[s] = None /\ cache = [user EXCEPT ![s] = s]
    <3>1. user'[s] = s /\ s # None /\ \A x \in Stores : x # s => user'[x] = user[x]
      BY <1>1, <2>1, <2>4, <2>7, NoneAssumption
    <3>2. OwnedOK'
      BY <1>1, <2>1, <2>4, <2>5, <3>1 DEF OwnedOK
    <3>3. ASSUME NEW x \in Managed PROVE Follows(x)'
      <4>1. CASE x = s
        BY <1>1, <2>4, <2>5, <3>1, <4>1 DEF Follows
      <4>2. CASE x # s
        <5>1. user'[x] = user[x] /\ (user[x] # None => user[x] \in Managed /\ user[x] # s)
          BY <2>1, <2>2, <2>7, <3>1, <3>3, <4>2 DEF Follows
        <5> QED BY <1>1, <2>1, <2>2, <2>5, <3>1, <5>1 DEF Follows
      <4> QED BY <4>1, <4>2
    <3> QED BY <2>3, <2>5, <3>2, <3>3
  <2> QED BY <1>2, <2>6, <2>7 DEF s
<1> QED BY <1>1, <1>2, DataOf


\* The record a store first gives names the store itself.
LEMMA DataFetches ==
  ASSUME CallsInv, CallsInv', LinkInv, PartitionInv, SwitchInv, DataInv, NEW p \in env.procs, EnsureFetch(p)
  PROVE  DataInv'
<1> DEFINE s == stores[proc[p].i]
<1>1. /\ proc[p].pc = "ensure" /\ user[s] = None
      /\ db' = IF db[s] = Absent THEN [db EXCEPT ![s] = [active |-> s, at |-> 0]] ELSE db
      /\ proc' = [proc EXCEPT ![p] = [@ EXCEPT !.pc = "ensured", !.got = db'[s].active]]
      /\ UNCHANGED <<stores, data, overtaken, acked, user, restarts, env>>
  BY DEF EnsureFetch, manager, held
<1>2. ASSUME Orderly, restarts = 0
      PROVE  /\ OwnedOK' /\ CarryOK(p)'
             /\ ~Syncing(p)' => \A x \in Managed' : Follows(x)'
  <2>1. /\ p \in Procs /\ CallOK(p) /\ proc[p] \in Calls /\ proc \in [Procs -> Calls] /\ OwnedOK
        /\ stores \in Seq(Stores) /\ DOMAIN db = Stores
        /\ ~Syncing(p) => \A x \in Managed : Follows(x)
    BY <1>2, DataFrom
  <2>2. s \in Stores
    BY <1>1, <2>1 DEF CallOK, Looping
  <2> HIDE DEF s
  <2>3. db'[s].active = s /\ \A x \in Stores : x # s => db'[x] = db[x]
    <3>1. CASE db[s] = Absent
      BY <1>1, <2>1, <2>2, <3>1
    <3>2. CASE db[s] # Absent
      <4>1. db[s].active # None
        BY <2>2, <3>2 DEF CallsInv, RecordsOK
      <4> QED BY <1>1, <2>1, <2>2, <3>2, <4>1 DEF OwnedOK
    <3> QED BY <3>1, <3>2
  <2>4. proc'[p].pc = "ensured" /\ proc'[p].i = proc[p].i /\ proc'[p].got = s
    <3>1. proc'[p] = [proc[p] EXCEPT !.pc = "ensured", !.got = db'[s].active]
      BY <1>1, <2>1
    <3> QED BY <2>1, <2>3, <3>1 DEF Calls
  <2>5. stores'[proc'[p].i] = s /\ user'[s] = None
    BY <1>1, <2>4 DEF s
  <2>6. CarryOK(p)'
    BY <2>4, <2>5 DEF CarryOK
  <2>7. OwnedOK'
    BY <1>1, <2>1, <2>2, <2>3 DEF OwnedOK, Managed
  <2>8. \A x \in Managed' : Follows(x)'
    BY <1>1, <2>1 DEF Follows, Managed, Syncing
  <2> QED BY <2>6, <2>7, <2>8
<1> QED BY <1>1, <1>2, DataOf

\* The stores that follow the active one need not be merged.
LEMMA DataBegins ==
  ASSUME CallsInv, CallsInv', LinkInv, PartitionInv, SwitchInv, DataInv, NEW p \in env.procs, SetActiveBegins(p)
  PROVE  DataInv'
<1> DEFINE k == proc[p].key
           all == Append(conflictingActives, active)
           confl == IF conflictingActives = <<>> THEN <<>> ELSE Filter(all, Stores \ {k})
<1>1. /\ proc[p].pc = "queued" /\ UNCHANGED <<stores, db, data, overtaken, acked, user, active, restarts, env>>
      /\ isAvailable /\ conflictingActives' = confl
      /\ proc' = [proc EXCEPT ![p] = [@ EXCEPT !.pc = "merge", !.todo = confl]]
  BY DEF SetActiveBegins, durable, held
<1>2. ASSUME Orderly, restarts = 0 PROVE CarryOK(p)'
  <2>1. /\ p \in Procs /\ proc[p] \in Calls /\ proc \in [Procs -> Calls]
        /\ isAvailable => active \in Stores
        /\ ~Syncing(p) => \A x \in Managed : Follows(x)
        /\ isAvailable /\ ~Syncing(p) => Settled
    BY <1>2, DataFrom
  <2>2. Settled /\ \A x \in Managed : Follows(x)
    BY <1>1, <2>1 DEF Syncing
  <2>3. active \in Stores /\ backups \in Seq(Stores) /\ conflictingActives \in Seq(Stores)
    BY <1>1, <2>1 DEF CallsInv, TypeOK
  <2>4. Managed = {active} \cup ToSet(backups) \cup ToSet(conflictingActives)
    BY <2>2, <2>3, PartsJoined DEF Settled, Placed
  <2>5. \A x \in ToSet(backups) : data[x] \ overtaken \subseteq data[active]
    BY <2>2, <2>3, <2>4, NoneAssumption DEF Settled, Follows
  <2>6. conflictingActives # <<>> => ToSet(confl) = (ToSet(conflictingActives) \cup {active}) \ {k}
    <3> SUFFICES ASSUME conflictingActives # <<>>
                 PROVE  ToSet(confl) = (ToSet(conflictingActives) \cup {active}) \ {k}
      OBVIOUS
    <3>1. /\ all \in Seq(Stores) /\ ToSet(all) = ToSet(conflictingActives) \cup {active}
          /\ ToSet(all) \subseteq Stores
      BY <2>3, StoreSets
    <3> DEFINE S == Stores \ {k}
    <3>2. confl = Filter(all, S)
      OBVIOUS
    <3> HIDE DEF all, S, confl
    <3>3. ToSet(confl) = ToSet(all) \cap S
      BY <3>1, <3>2, FilterFacts
    <3> QED BY <3>1, <3>3 DEF S
  <2>7. conflictingActives = <<>> => confl = <<>>
    OBVIOUS
  <2> HIDE DEF confl, all, k
  <2>8. proc'[p].pc = "merge" /\ proc'[p].todo = confl /\ proc'[p].key = k
    BY <1>1, <2>1 DEF Calls, k
  <2> DEFINE target == IF confl # <<>> THEN k ELSE active
  <2>9. \A x \in Managed : \E c \in {target} \cup ToSet(confl) : data[x] \ overtaken \subseteq data[c]
    <3>1. CASE conflictingActives = <<>>
      <4>1. target = active /\ \A x \in Managed : x = active \/ x \in ToSet(backups)
        BY <2>4, <2>7, <3>1, StoreSets
      <4> QED BY <2>5, <4>1
    <3>2. CASE conflictingActives # <<>>
      <4>1. ASSUME NEW x \in ToSet(conflictingActives) \cup {active}
            PROVE  \E c \in {target} \cup ToSet(confl) : c = x
        <5>1. CASE x # k
          BY <2>6, <3>2, <4>1, <5>1
        <5>2. CASE x = k /\ confl # <<>>
          BY <5>2
        <5>3. CASE x = k /\ confl = <<>>
          <6>1. ToSet(confl) = {}
            BY <5>3, StoreSets
          <6>2. active = k
            BY <2>6, <3>2, <6>1
          <6> QED BY <5>3, <6>2
        <5> QED BY <5>1, <5>2, <5>3
      <4>2. ASSUME NEW x \in Managed
            PROVE  \E c \in {target} \cup ToSet(confl) : data[x] \ overtaken \subseteq data[c]
        <5> HIDE DEF target
        <5>1. CASE x \in ToSet(backups)
          BY <2>5, <4>1, <5>1
        <5>2. CASE x \in ToSet(conflictingActives) \cup {active}
          BY <4>1, <5>2
        <5> QED BY <2>4, <5>1, <5>2
      <4> QED BY <4>2
    <3> QED BY <3>1, <3>2
  <2>10. /\ UNCHANGED <<data, overtaken, active>> /\ Managed' = Managed /\ conflictingActives' = confl
    BY <1>1 DEF Managed
  <2> QED BY <2>8, <2>9, <2>10 DEF CarryOK
<1> QED BY <1>1, <1>2, DataStays DEF Syncing

\* A merged store has nothing that the target lacks.
LEMMA DataMerges ==
  ASSUME CallsInv, CallsInv', LinkInv, PartitionInv, SwitchInv, DataInv, NEW p \in env.procs, MergeConflict(p)
  PROVE  DataInv'
<1> DEFINE k == proc[p].key
           h == Head(proc[p].todo)
<1>1. /\ proc[p].pc = "merge" /\ proc[p].todo # <<>> /\ SyncHead(p, h, k)
      /\ UNCHANGED <<user, active, conflictingActives>>
  BY DEF MergeConflict, manager
<1>a. env' = env /\ restarts' = restarts
  BY <1>1 DEF SyncHead
<1>2. ASSUME Orderly, restarts = 0 PROVE OwnedOK' /\ CarryOK(p)' /\ Syncing(p)'
  <2>1. /\ p \in Procs /\ CallOK(p) /\ proc[p].todo \in Seq(Stores) /\ SwitchOK(p)
        /\ CarryOK(p) /\ OwnedOK /\ Managed \subseteq Stores
        /\ isAvailable => \A s \in Managed : user[s] # None
        /\ Syncing(p) => isAvailable
    BY <1>2, DataFrom
  <2>2. /\ k \in Managed /\ k \in Stores /\ h \in Stores /\ user[k] # None
        /\ ToSet(proc[p].todo) = {h} \cup ToSet(Tail(proc[p].todo))
        /\ ToSet(proc[p].todo) \subseteq Stores
    BY <1>1, <2>1, StoreSets DEF SwitchOK, Syncing
  <2>3. Synced(p, h, k)
    BY <1>1, <2>1, <2>2, SyncFacts
  <2> HIDE DEF h
  <2>4. /\ proc'[p].pc = "merge" /\ proc'[p].key = k /\ Managed' = Managed /\ acked' = acked
        /\ \A x \in Stores : data[x] \subseteq data'[x]
        /\ \A x \in Stores : x # k => data'[x] = data[x] /\ db'[x] = db[x]
        /\ overtaken \subseteq overtaken'
    BY <1>1, <2>3 DEF Synced, Managed
  <2>5. OwnedOK'
    <3>1. acked \subseteq UNION {data'[x] : x \in Managed}
      BY <2>1, <2>4 DEF OwnedOK
    <3> QED BY <1>1, <2>1, <2>2, <2>4, <3>1 DEF OwnedOK
  <2>6. /\ conflictingActives # <<>>
        /\ \A x \in Managed : \E c \in {k} \cup ToSet(proc[p].todo) : data[x] \ overtaken \subseteq data[c]
    BY <1>1, <2>1 DEF CarryOK
  <2>7. ASSUME NEW x \in Managed
        PROVE  \E c \in {k} \cup ToSet(proc'[p].todo) : data'[x] \ overtaken' \subseteq data'[c]
    <3>1. CASE x = k
      BY <3>1
    <3>2. CASE x # k
      <4>1. PICK c \in {k} \cup ToSet(proc[p].todo) : data[x] \ overtaken \subseteq data[c]
        BY <2>6
      <4>2. data'[x] = data[x] /\ data[c] \subseteq data'[c] /\ overtaken \subseteq overtaken'
        BY <2>1, <2>2, <2>4, <3>2
      <4>3. CASE c \in {k} \cup ToSet(proc'[p].todo)
        BY <4>1, <4>2, <4>3
      <4>4. CASE c \notin {k} \cup ToSet(proc'[p].todo)
        <5>1. proc'[p].todo = Tail(proc[p].todo) /\ data[h] \ overtaken \subseteq data[k] /\ c = h
          BY <2>2, <2>3, <4>1, <4>4 DEF Synced
        <5> QED BY <2>2, <2>4, <4>1, <4>2, <5>1
      <4> QED BY <4>3, <4>4
    <3> QED BY <3>1, <3>2
  <2>8. CarryOK(p)'
    BY <1>1, <2>4, <2>6, <2>7 DEF CarryOK
  <2> QED BY <2>4, <2>5, <2>8 DEF Syncing
<1> QED BY <1>a, <1>2, DataOf

LEMMA DataChooses ==
  ASSUME CallsInv, CallsInv', LinkInv, PartitionInv, SwitchInv, DataInv, NEW p \in env.procs,
         ChooseBackupSource(p)
  PROVE  DataInv'
<1> DEFINE source == IF conflictingActives # <<>> THEN proc[p].key ELSE active
<1>1. /\ proc[p].pc = "merge" /\ proc[p].todo = <<>>
      /\ IF source = None
         THEN proc' = [proc EXCEPT ![p] = Idle]
         ELSE proc' = [proc EXCEPT ![p] = [@ EXCEPT !.pc = "mark", !.source = source]]
      /\ UNCHANGED <<stores, db, data, overtaken, acked, user, restarts, env>>
  BY DEF ChooseBackupSource, durable, manager, held
<1>2. ASSUME Orderly, restarts = 0
      PROVE  OwnedOK' /\ CarryOK(p)' /\ Syncing(p)'
  <2>1. /\ p \in Procs /\ proc[p] \in Calls /\ proc \in [Procs -> Calls] /\ SwitchOK(p) /\ CarryOK(p)
        /\ OwnedOK /\ Managed \subseteq Stores
    BY <1>2, DataFrom
  <2>2. source \in Managed /\ source # None
    BY <1>1, <2>1, NoneAssumption DEF SwitchOK, Syncing
  <2>3. \A x \in Managed : data[x] \ overtaken \subseteq data[source]
    BY <1>1, <2>1, StoreSets DEF CarryOK
  <2> HIDE DEF source
  <2>4. proc'[p].pc = "mark" /\ proc'[p].source = source
    BY <1>1, <2>1, <2>2 DEF Calls
  <2> QED BY <1>1, <2>1, <2>3, <2>4 DEF OwnedOK, CarryOK, Syncing, Managed
<1> QED BY <1>1, <1>2, DataOf

LEMMA DataMarks ==
  ASSUME CallsInv, CallsInv', LinkInv, PartitionInv, SwitchInv, DataInv, NEW p \in env.procs, MarkActive(p)
  PROVE  DataInv'
<1>1. /\ proc[p].pc = "mark"
      /\ db' = [db EXCEPT ![proc[p].source] = [active |-> proc[p].key, at |-> clock + 1]]
      /\ proc' = [proc EXCEPT ![p] = [@ EXCEPT !.pc = "push", !.todo = stores]]
      /\ UNCHANGED <<stores, data, overtaken, acked, user, restarts, env>>
  BY DEF MarkActive, manager, held
<1>2. ASSUME Orderly, restarts = 0
      PROVE  OwnedOK' /\ CarryOK(p)' /\ Syncing(p)'
  <2>1. /\ p \in Procs /\ proc[p] \in Calls /\ proc \in [Procs -> Calls] /\ SwitchOK(p) /\ CarryOK(p)
        /\ OwnedOK /\ Managed \subseteq Stores /\ DOMAIN db = Stores
        /\ isAvailable => \A s \in Managed : user[s] # None
        /\ Syncing(p) => isAvailable
    BY <1>2, DataFrom
  <2>2. proc[p].source \in Managed /\ user[proc[p].source] # None
    BY <1>1, <2>1 DEF SwitchOK, Syncing
  <2>3. \A x \in Stores : x # proc[p].source => db'[x] = db[x]
    BY <1>1, <2>1
  <2>4. proc'[p].pc = "push" /\ proc'[p].source = proc[p].source
    BY <1>1, <2>1 DEF Calls
  <2>5. OwnedOK'
    BY <1>1, <2>1, <2>2, <2>3 DEF OwnedOK, Managed
  <2>6. CarryOK(p)'
    BY <1>1, <2>1, <2>4 DEF CarryOK, Managed
  <2> QED BY <2>4, <2>5, <2>6 DEF Syncing
<1> QED BY <1>1, <1>2, DataOf


\* What is pushed is the source's, which has all of it.
LEMMA DataPushes ==
  ASSUME CallsInv, CallsInv', LinkInv, PartitionInv, SwitchInv, DataInv, NEW p \in env.procs, PushToStore(p)
  PROVE  DataInv'
<1> DEFINE s == Head(proc[p].todo)
           k == proc[p].key
           source == proc[p].source
<1>1. /\ proc[p].pc = "push" /\ proc[p].todo # <<>> /\ user' = [user EXCEPT ![s] = k]
      /\ IF s = source
         THEN /\ proc' = [proc EXCEPT ![p].todo = Tail(@)]
              /\ UNCHANGED <<durable, lock, switches, restarts>>
         ELSE SyncHead(p, source, s)
  BY DEF PushToStore
<1>a. env' = env /\ restarts' = restarts
  BY <1>1 DEF SyncHead, durable
<1>2. ASSUME Orderly, restarts = 0 PROVE OwnedOK' /\ CarryOK(p)' /\ Syncing(p)'
  <2>1. /\ p \in Procs /\ CallOK(p) /\ proc[p].todo \in Seq(Stores) /\ SwitchOK(p)
        /\ proc[p] \in Calls /\ proc \in [Procs -> Calls]
        /\ CarryOK(p) /\ OwnedOK /\ Managed \subseteq Stores
        /\ user \in [Stores -> Stores \cup {None}]
    BY <1>2, DataFrom
  <2>2. /\ k \in Managed /\ source \in Managed /\ ToSet(proc[p].todo) \subseteq Managed
        /\ \A x \in Managed : data[x] \ overtaken \subseteq data[source]
    BY <1>1, <2>1 DEF SwitchOK, Syncing, CarryOK
  <2>3. /\ s \in Managed /\ s \in Stores /\ source \in Stores /\ k # None
    BY <1>1, <2>1, <2>2, StoreSets, NoneAssumption
  <2>4. user'[s] = k /\ \A x \in Stores : x # s => user'[x] = user[x]
    BY <1>1, <2>1, <2>3
  <2> HIDE DEF s
  <2>5. /\ stores' = stores /\ acked' = acked
        /\ proc'[p].pc = "push" /\ proc'[p].source = source
        /\ \A x \in Stores : data[x] \subseteq data'[x]
        /\ \A x \in Stores : x # s => data'[x] = data[x] /\ db'[x] = db[x]
        /\ data'[s] \subseteq data[s] \cup data[source] /\ data'[source] = data[source]
        /\ overtaken \subseteq overtaken'
    <3>1. CASE s = source
      <4>1. /\ UNCHANGED <<stores, acked, data, overtaken, db>>
            /\ proc'[p] = [proc[p] EXCEPT !.todo = Tail(@)]
        BY <1>1, <2>1, <3>1 DEF durable, held
      <4>2. proc'[p].pc = "push" /\ proc'[p].source = source
        BY <1>1, <2>1, <4>1 DEF Calls
      <4> QED BY <4>1, <4>2
    <3>2. CASE s # source
      <4>1. Synced(p, source, s)
        BY <1>1, <2>1, <2>3, <3>2, SyncFacts
      <4> QED BY <1>1, <2>3, <3>2, <4>1 DEF Synced
    <3> QED BY <3>1, <3>2
  <2>6. Managed' = Managed
    BY <2>5 DEF Managed
  <2> HIDE DEF k, source
  <2>7. OwnedOK'
    <3>1. acked \subseteq UNION {data'[x] : x \in Managed}
      BY <2>1, <2>5 DEF OwnedOK
    <3> QED BY <2>1, <2>3, <2>4, <2>5, <2>6, <3>1 DEF OwnedOK
  <2>8. \A x \in Managed : data'[x] \ overtaken' \subseteq data'[source]
    BY <2>1, <2>2, <2>3, <2>5
  <2>9. CarryOK(p)'
    BY <2>5, <2>6, <2>8 DEF CarryOK
  <2> QED BY <2>5, <2>7, <2>9 DEF Syncing
<1> QED BY <1>a, <1>2, DataOf

\* After the loop every store follows the new active one.
LEMMA DataEnds ==
  ASSUME CallsInv, CallsInv', LinkInv, PartitionInv, SwitchInv, DataInv, NEW p \in env.procs, SetActiveEnds(p)
  PROVE  DataInv'
<1> DEFINE k == proc[p].key
<1>1. /\ proc[p].pc = "push" /\ proc[p].todo = <<>>
      /\ UNCHANGED <<stores, db, data, overtaken, acked, user, restarts, env>>
      /\ proc' = [proc EXCEPT ![p] = [proc[p] EXCEPT !.pc = "ensure", !.i = 1,
                                                     !.list = <<>>, !.then = "return"]]
  BY DEF SetActiveEnds, StartMakeAvailable, durable, held
<1>2. ASSUME Orderly, restarts = 0
      PROVE  OwnedOK' /\ CarryOK(p)' /\ \A x \in Managed' : Follows(x)'
  <2>1. /\ p \in Procs /\ proc[p] \in Calls /\ proc \in [Procs -> Calls] /\ SwitchOK(p) /\ CarryOK(p)
        /\ OwnedOK
    BY <1>2, DataFrom
  <2>2. /\ k \in Managed /\ \A x \in Managed : Pushed(p, x)
        /\ \A x \in Managed : data[x] \ overtaken \subseteq data[proc[p].source]
    BY <1>1, <2>1, StoreSets DEF SwitchOK, CarryOK, Syncing
  <2>3. /\ \A x \in Managed : user[x] = k
        /\ \A x \in Managed : data[x] \ overtaken \subseteq data[k]
    BY <2>2 DEF Pushed
  <2>4. proc'[p].pc = "ensure"
    BY <1>1, <2>1 DEF Calls
  <2>5. \A x \in Managed' : Follows(x)'
    BY <1>1, <2>2, <2>3 DEF Follows, Managed
  <2> QED BY <1>1, <2>1, <2>4, <2>5, CarryFree DEF OwnedOK, Managed
<1> QED BY <1>1, <1>2, DataOf

\* A backup gets what the store it follows has.
LEMMA DataBackups ==
  ASSUME CallsInv, CallsInv', LinkInv, PartitionInv, SwitchInv, DataInv, NEW p \in env.procs, BackupStore(p)
  PROVE  DataInv'
<1> DEFINE s == Head(proc[p].todo)
           source == proc[p].source
<1>1. /\ proc[p].pc = "backup" /\ proc[p].todo # <<>> /\ SyncHead(p, source, s)
      /\ UNCHANGED <<user, active, backups>>
  BY DEF BackupStore, manager
<1>a. env' = env /\ restarts' = restarts
  BY <1>1 DEF SyncHead
<1>2. ASSUME Orderly, restarts = 0
      PROVE  OwnedOK' /\ CarryOK(p)' /\ \A x \in Managed' : Follows(x)'
  <2>1. /\ p \in Procs /\ CallOK(p) /\ proc[p].todo \in Seq(Stores) /\ CarryOK(p) /\ OwnedOK
        /\ Managed \subseteq Stores
        /\ proc[p].pc = "backup" => isAvailable
        /\ isAvailable => active \in Stores
        /\ isAvailable /\ ~Syncing(p) => Settled
        /\ ~Syncing(p) => \A x \in Managed : Follows(x)
    BY <1>2, DataFrom
  <2>2. /\ Settled /\ active \in Stores /\ \A x \in Managed : Follows(x)
        /\ source = active /\ ToSet(proc[p].todo) \subseteq ToSet(backups)
    BY <1>1, <2>1 DEF Syncing, CarryOK
  <2>3. backups \in Seq(Stores) /\ conflictingActives \in Seq(Stores)
    BY DEF CallsInv, TypeOK
  <2>4. Managed = {active} \cup ToSet(backups) \cup ToSet(conflictingActives)
    BY <2>2, <2>3, PartsJoined DEF Settled, Placed
  <2>5. s \in Stores /\ s \in ToSet(proc[p].todo)
    BY <1>1, <2>1, StoreSets
  <2>6. user[s] = active /\ s \in Managed /\ data[s] \ overtaken \subseteq data[active] /\ active # None
    BY <2>2, <2>4, <2>5, NoneAssumption DEF Settled, Follows
  <2>7. Synced(p, source, s)
    BY <1>1, <2>1, <2>2, <2>5, SyncFacts
  <2> HIDE DEF s, source
  <2>8. /\ proc'[p].pc = "backup" /\ proc'[p].source = source /\ stores' = stores /\ acked' = acked
        /\ ToSet(proc'[p].todo) \subseteq ToSet(proc[p].todo)
        /\ \A x \in Stores : data[x] \subseteq data'[x]
        /\ \A x \in Stores : x # s => data'[x] = data[x] /\ db'[x] = db[x]
        /\ data'[s] \subseteq data[s] \cup data[source] /\ overtaken \subseteq overtaken'
    BY <1>1, <2>7 DEF Synced, source
  <2>9. Managed' = Managed
    BY <2>8 DEF Managed
  <2>10. OwnedOK'
    <3>1. acked \subseteq UNION {data'[x] : x \in Managed}
      BY <2>1, <2>8 DEF OwnedOK
    <3> QED BY <1>1, <2>1, <2>6, <2>8, <2>9, <3>1 DEF OwnedOK
  <2>11. ASSUME NEW x \in Managed PROVE Follows(x)'
    <3>1. CASE x = s
      BY <1>1, <2>2, <2>6, <2>8, <2>9, <3>1 DEF Follows
    <3>2. CASE x # s
      <4>1. data'[x] = data[x] /\ user' = user /\ Follows(x)
        BY <1>1, <2>1, <2>2, <2>8, <3>2
      <4>2. user[x] # None => data[x] \ overtaken \subseteq data'[user[x]]
        BY <2>1, <2>8, <4>1 DEF Follows
      <4> QED BY <2>8, <2>9, <4>1, <4>2 DEF Follows
    <3> QED BY <3>1, <3>2
  <2>12. CarryOK(p)'
    BY <1>1, <2>2, <2>8 DEF CarryOK
  <2> QED BY <2>9, <2>10, <2>11, <2>12
<1> QED BY <1>a, <1>2, DataOf

\* A write goes to the store the others follow.
LEMMA DataWrites ==
  ASSUME CallsInv, PartitionInv, DataInv, NEW w \in Writes, Write(w)
  PROVE  DataInv'
<1>1. /\ lock = None /\ isAvailable /\ authIsActive
      /\ data' = [data EXCEPT ![active] = @ \cup {Row(w, clock)}] /\ acked' = acked \cup {Row(w, clock)}
      /\ UNCHANGED <<stores, db, overtaken, user, active, backups, conflictingActives, proc, restarts, env>>
  BY DEF Write, manager
<1> SUFFICES ASSUME Orderly, restarts = 0
             PROVE  /\ OwnedOK' /\ \A p \in Procs : CarryOK(p)'
                    /\ \A x \in Managed' : Follows(x)'
  BY <1>1 DEF DataInv, Orderly
<1>2. \A p \in Procs : ~Syncing(p)
  BY <1>1, NoneAssumption DEF CallsInv, CallOK
<1>3. Settled /\ \A x \in Managed : Follows(x) /\ user[active] = active /\ OwnedOK
  BY <1>1, <1>2 DEF PartitionInv, DataInv, Settled, isActiveEnabled, EnabledWith
<1>4. /\ active \in Stores /\ backups \in Seq(Stores) /\ conflictingActives \in Seq(Stores)
      /\ DOMAIN data = Stores /\ stores \in Seq(Stores) /\ active # None
  BY <1>1, NoneAssumption DEF CallsInv, TypeOK, RecordsOK
<1>5. active \in Managed /\ Managed \subseteq Stores
  BY <1>3, <1>4, PartsJoined, StoreSets DEF Settled, Placed, Managed
<1>6. /\ data'[active] = data[active] \cup {Row(w, clock)} /\ \A x \in Stores : x # active => data'[x] = data[x]
      /\ \A x \in Stores : data[x] \subseteq data'[x]
  BY <1>1, <1>4
<1>a. Managed' = Managed
  BY <1>1 DEF Managed
<1>7. OwnedOK'
  <2>1. acked \cup {Row(w, clock)} \subseteq UNION {data'[x] : x \in Managed}
    BY <1>3, <1>5, <1>6 DEF OwnedOK
  <2> QED BY <1>1, <1>3, <1>a, <2>1 DEF OwnedOK
<1>8. ASSUME NEW p \in Procs PROVE CarryOK(p)'
  <2>1. CarryOK(p) /\ ~Syncing(p)
    BY <1>2 DEF DataInv
  <2> QED BY <1>1, <2>1 DEF CarryOK, Syncing
<1>9. ASSUME NEW x \in Managed PROVE Follows(x)'
  <2>1. CASE x = active
    BY <1>1, <1>3, <1>5, <1>6, <1>a, <2>1 DEF Follows
  <2>2. CASE x # active
    <3>1. data'[x] = data[x] /\ user' = user /\ Follows(x)
      BY <1>1, <1>3, <1>5, <1>6, <1>9, <2>2
    <3>2. user[x] # None => data[x] \ overtaken \subseteq data'[user[x]]
      BY <1>5, <1>6, <3>1 DEF Follows
    <3> QED BY <1>1, <1>a, <3>1, <3>2 DEF Follows
  <2> QED BY <2>1, <2>2
<1> QED BY <1>7, <1>8, <1>9, <1>a

\* An added store brings its data with it, and follows no one yet.
LEMMA DataAdds ==
  ASSUME CallsInv, CallsInv', LinkInv, PartitionInv, SwitchInv, DataInv, NEW p \in env.procs,
         NEW s \in env.stores, AddWalletStorageProvider(p, s)
  PROVE  DataInv'
<1>1. /\ proc[p].pc = "idle" /\ s \notin Managed /\ stores' = Append(stores, s)
      /\ acked' = acked \cup data[s] /\ StartMakeAvailable(p, Idle, "return")
      /\ UNCHANGED <<db, data, overtaken, user, restarts, env>>
  BY DEF AddWalletStorageProvider, StartMakeAvailable, Managed, held
<1>2. ASSUME Orderly, restarts = 0
      PROVE  OwnedOK' /\ CarryOK(p)' /\ \A x \in Managed' : Follows(x)'
  <2>1. /\ p \in Procs /\ proc \in [Procs -> Calls] /\ OwnedOK
        /\ stores \in Seq(Stores) /\ Managed \subseteq Stores
        /\ ~Syncing(p) => \A x \in Managed : Follows(x)
    BY <1>2, DataFrom
  <2>2. s \in Stores /\ \A x \in Managed : Follows(x)
    BY <1>1, <2>1, EnvFacts DEF CallsInv, Syncing
  <2>3. Managed' = Managed \cup {s}
    BY <1>1, <2>1, <2>2, StoreSets DEF Managed
  <2>4. OwnedOK'
    BY <1>1, <2>1, <2>3 DEF OwnedOK
  <2>5. user[s] = None
    BY <1>1, <2>1, <2>2 DEF OwnedOK
  <2>6. \A x \in Managed' : Follows(x)'
    BY <1>1, <2>2, <2>3, <2>5 DEF Follows
  <2>7. proc'[p].pc = "ensure"
    BY <1>1, <2>1, IdleType DEF StartMakeAvailable, Calls
  <2> QED BY <2>4, <2>6, <2>7, CarryFree
<1> QED BY <1>1, <1>2, DataOf


LEMMA DataInit == Init => DataInv
<1> SUFFICES ASSUME Init PROVE DataInv
  OBVIOUS
<1>1. /\ acked = {} /\ user = [s \in Stores |-> None] /\ proc = [p \in Procs |-> Idle]
      /\ stores = <<First>>
  BY DEF Init
<1>2. PICK used \in SUBSET (env.stores \ {First}) :
        db = [s \in Stores |-> IF s \in used THEN [active |-> s, at |-> 1] ELSE Absent]
  BY DEF Init
<1>3. \A s \in Stores : user[s] = None /\ db[s].active \in {None, s}
  BY <1>1, <1>2 DEF Absent
<1>4. Managed \subseteq Stores
  BY <1>1, FirstAssumption, StoreSets DEF Managed
<1>5. OwnedOK /\ \A s \in Managed : Follows(s)
  BY <1>1, <1>3, <1>4 DEF OwnedOK, Follows
<1>6. \A p \in Procs : CarryOK(p)
  BY <1>1 DEF CarryOK, Idle
<1> QED BY <1>5, <1>6 DEF DataInv

LEMMA DataStep ==
  ASSUME CallsInv, CallsInv', LinkInv, PartitionInv, SwitchInv, DataInv, NEW p \in env.procs, Step(p)
  PROVE  DataInv'
<1>1. p \in Procs /\ CallOK(p) /\ proc[p] \in Calls /\ proc \in [Procs -> Calls]
  BY EnvFacts DEF CallsInv, TypeOK
<1>2. CASE EnsureCached(p)
  BY <1>2, DataSelects DEF EnsureCached, Looping
<1>3. CASE EnsureFetch(p)
  BY <1>3, DataFetches
<1>4. CASE EnsureApply(p)
  <2>1. proc[p].pc = "ensured" /\ Looping(p) /\ UNCHANGED <<durable, restarts>>
        /\ SelectAndAdvance(p, [user EXCEPT ![stores[proc[p].i]] = proc[p].got])
    BY <1>4 DEF EnsureApply, Looping
  <2>2. Orderly /\ restarts = 0 => user[stores[proc[p].i]] = None /\ proc[p].got = stores[proc[p].i]
    BY <1>1, <2>1 DEF DataInv, CarryOK
  <2> QED BY <2>1, <2>2, DataSelects
<1>5. CASE Throw(p)
  BY <1>5 DEF Throw, durable, DataInv, Orderly
<1>6. CASE SetActiveRetries(p)
  <2>1. /\ proc[p].pc = "request" /\ UNCHANGED <<stores, db, data, overtaken, acked, user, restarts, env>>
        /\ StartMakeAvailable(p, proc[p], "setActive")
    BY <1>6 DEF SetActiveRetries, StartMakeAvailable, durable, held
  <2>2. proc'[p].pc = "ensure"
    BY <1>1, <2>1 DEF StartMakeAvailable, Calls
  <2> QED BY <2>1, <2>2, CarryFree, DataStays DEF Syncing
<1>7. CASE SetActiveReturns(p) \/ UpdateBackupsEnds(p)
  <2>1. /\ ~Syncing(p) /\ UNCHANGED <<stores, db, data, overtaken, acked, user, restarts, env>>
        /\ proc'[p].pc = "idle"
    BY <1>1, <1>7 DEF SetActiveReturns, UpdateBackupsEnds, Idle, durable, manager, Syncing, held
  <2> QED BY <2>1, CarryFree, DataStays
<1>8. CASE SetActiveQueues(p)
  <2>1. /\ ~Syncing(p) /\ UNCHANGED <<stores, db, data, overtaken, acked, user, restarts, env>>
        /\ proc' = [proc EXCEPT ![p].pc = "queued"]
    BY <1>8 DEF SetActiveQueues, durable, manager, Syncing, held
  <2>2. proc'[p].pc = "queued"
    BY <1>1, <2>1 DEF Calls
  <2> QED BY <2>1, <2>2, CarryFree, DataStays
<1>9. CASE SetActiveBegins(p)
  BY <1>9, DataBegins
<1>16. CASE SetActiveFindsUnavailable(p)
  <2>1. /\ ~Syncing(p) /\ UNCHANGED <<stores, db, data, overtaken, acked, user, restarts, env>>
        /\ \/ StartMakeAvailable(p, proc[p], "queue")
           \/ proc' = [proc EXCEPT ![p] = Idle]
    BY <1>16 DEF SetActiveFindsUnavailable, StartMakeAvailable, durable, held, Syncing
  <2>2. proc'[p].pc \in {"ensure", "idle"}
    <3>1. CASE StartMakeAvailable(p, proc[p], "queue")
      BY <1>1, <3>1 DEF StartMakeAvailable, Calls
    <3>2. CASE proc' = [proc EXCEPT ![p] = Idle]
      BY <1>1, <3>2 DEF Idle
    <3> QED BY <2>1, <3>1, <3>2
  <2> QED BY <2>1, <2>2, CarryFree, DataStays
<1>10. CASE MergeConflict(p)
  BY <1>10, DataMerges
<1>11. CASE ChooseBackupSource(p)
  BY <1>11, DataChooses
<1>12. CASE MarkActive(p)
  BY <1>12, DataMarks
<1>13. CASE PushToStore(p)
  BY <1>13, DataPushes
<1>14. CASE SetActiveEnds(p)
  BY <1>14, DataEnds
<1>15. CASE BackupStore(p)
  BY <1>15, DataBackups
<1> QED BY <1>2, <1>3, <1>4, <1>5, <1>6, <1>7, <1>8, <1>9, <1>10, <1>11, <1>12, <1>13, <1>14, <1>15,
           <1>16 DEF Step

LEMMA DataNext == CallsInv /\ LinkInv /\ PartitionInv /\ SwitchInv /\ DataInv /\ [Next]_vars => DataInv'
<1> SUFFICES ASSUME CallsInv, LinkInv, PartitionInv, SwitchInv, DataInv, [Next]_vars PROVE DataInv'
  OBVIOUS
<1>0. CallsInv'
  BY CallsNext
<1>a. proc \in [Procs -> Calls] /\ \A p \in env.procs : p \in Procs /\ proc[p] \in Calls
  BY EnvFacts DEF CallsInv, TypeOK
<1>1. ASSUME NEW p \in env.procs, Step(p) PROVE DataInv'
  BY <1>0, <1>1, DataStep
<1>2. ASSUME NEW p \in env.procs, MakeAvailable(p) PROVE DataInv'
  <2>1. /\ proc[p].pc = "idle" /\ UNCHANGED <<stores, db, data, overtaken, acked, user, restarts, env>>
        /\ StartMakeAvailable(p, Idle, "return")
    BY <1>2 DEF MakeAvailable, StartMakeAvailable, durable, held
  <2>2. proc'[p].pc = "ensure"
    BY <1>a, <2>1, IdleType DEF StartMakeAvailable, Calls
  <2> QED BY <1>0, <2>1, <2>2, CarryFree, DataStays DEF Syncing
<1>3. ASSUME NEW p \in env.procs, NEW s \in env.stores, AddWalletStorageProvider(p, s) PROVE DataInv'
  BY <1>0, <1>3, DataAdds
<1>4. ASSUME NEW p \in env.procs, NEW s \in env.stores, SetActive(p, s) PROVE DataInv'
  <2> DEFINE r == [Idle EXCEPT !.key = s]
  <2>1. /\ proc[p].pc = "idle" /\ UNCHANGED <<stores, db, data, overtaken, acked, user, restarts, env>>
        /\ \/ proc' = [proc EXCEPT ![p] = [r EXCEPT !.pc = "request"]]
           \/ StartMakeAvailable(p, r, "setActive")
    BY <1>4 DEF SetActive, StartMakeAvailable, durable, manager, held
  <2>2. r \in Calls
    <3>1. s \in Stores
      BY EnvFacts DEF CallsInv
    <3> QED BY <3>1, IdleType DEF Calls
  <2> HIDE DEF r
  <2>3. proc'[p].pc \in {"request", "ensure"}
    <3>1. CASE proc' = [proc EXCEPT ![p] = [r EXCEPT !.pc = "request"]]
      BY <1>a, <2>2, <3>1 DEF Calls
    <3>2. CASE StartMakeAvailable(p, r, "setActive")
      BY <1>a, <2>2, <3>2 DEF StartMakeAvailable, Calls
    <3> QED BY <2>1, <3>1, <3>2
  <2> QED BY <1>0, <2>1, <2>3, CarryFree, DataStays DEF Syncing
<1>5. ASSUME NEW p \in env.procs, UpdateBackups(p) PROVE DataInv'
  <2>1. /\ proc[p].pc = "idle" /\ UNCHANGED <<stores, db, data, overtaken, acked, user, restarts, env>>
        /\ UNCHANGED <<active, backups>>
        /\ proc'[p] = [Idle EXCEPT !.pc = "backup", !.source = active, !.todo = backups]
    BY <1>5, <1>a DEF UpdateBackups, durable, manager, held
  <2>2. proc'[p].pc = "backup" /\ proc'[p].source = active /\ proc'[p].todo = backups
    BY <2>1 DEF Idle
  <2>3. CarryOK(p)'
    BY <2>1, <2>2 DEF CarryOK
  <2> QED BY <1>0, <2>1, <2>3, DataStays DEF Syncing
<1>6. ASSUME NEW w \in Writes, Write(w) PROVE DataInv'
  BY <1>6, DataWrites
<1>7. CASE UNCHANGED vars
  <2>1. UNCHANGED <<stores, db, data, overtaken, acked, user, active, backups, conflictingActives, proc, restarts, env>>
    BY <1>7 DEF vars, manager, durable, held
  <2> QED BY <2>1 DEF DataInv, OwnedOK, CarryOK, Follows, Orderly, Syncing, Managed
<1>8. CASE Restart
  BY <1>8, BoundsAssumption DEF Restart, DataInv, CallsInv, TypeOK
<1> QED BY <1>1, <1>2, <1>3, <1>4, <1>5, <1>6, <1>7, <1>8 DEF Next

-----------------------------------------------------------------------------
(***************************************************************************)
(* One call at a time, before a restart: WrittenInv.                       *)
(***************************************************************************)
\* What the store that accepts writes has: all that was not overtaken.
LEMMA ActiveHolds ==
  ASSUME CallsInv, PartitionInv, DataInv, Orderly, restarts = 0, lock = None, isAvailable, authIsActive
  PROVE  active \in Stores /\ acked \ overtaken \subseteq data[active]
<1>1. \A p \in Procs : ~Syncing(p)
  BY NoneAssumption DEF CallsInv, CallOK
<1>2. Settled /\ OwnedOK /\ \A s \in Managed : Follows(s)
  BY <1>1 DEF PartitionInv, DataInv
<1>3. /\ active \in Stores /\ active # None
      /\ backups \in Seq(Stores) /\ conflictingActives \in Seq(Stores)
  BY NoneAssumption DEF CallsInv, TypeOK, RecordsOK
<1>4. Managed = {active} \cup ToSet(backups) \cup ToSet(conflictingActives)
  BY <1>2, <1>3, PartsJoined DEF Settled, Placed
<1>5. \A s \in Managed : s = active \/ user[s] = active
  <2>1. ToSet(conflictingActives) = {}
    BY <1>2, StoreSets DEF Settled, isActiveEnabled, EnabledWith
  <2> QED BY <1>2, <1>4, <2>1 DEF Settled
<1>6. \A s \in Managed : data[s] \ overtaken \subseteq data[active]
  BY <1>2, <1>3, <1>5 DEF Follows
<1> QED BY <1>2, <1>3, <1>6 DEF OwnedOK

\* No row moves: a record is dated anew only in a store that lacks no written row.
LEMMA WrittenStays ==
  ASSUME CallsInv, WrittenInv, NEW p \in Procs,
         UNCHANGED <<data, link, overtaken, env, restarts>>,
         \A q \in Procs : q # p => proc'[q] = proc[q],
         Orderly /\ restarts = 0 =>
             /\ acked \subseteq acked'
             /\ \A r \in acked' : r.of \in Writes => r \in acked
             /\ \A s \in Stores : \/ db'[s].at = db[s].at
                                  \/ \A w \in acked : w.of \in Writes => w \in data[s]
             /\ \A b, a \in Stores : Pulls(p, b, a) => a = b
  PROVE  WrittenInv'
<1> SUFFICES ASSUME Orderly', restarts' = 0
             PROVE  /\ \A r \in overtaken' : r.of \notin Writes
                    /\ \A s \in Stores : \A r \in data'[s] : r.of \in Writes => r \in acked'
                    /\ \A w \in acked', a \in Stores :
                           w.of \in Writes /\ w \notin data'[a] => MissingOK(w, a)'
  BY DEF WrittenInv
<1>1. Orderly /\ restarts = 0
  BY DEF Orderly
<1>2. /\ \A r \in overtaken : r.of \notin Writes
      /\ \A s \in Stores : \A r \in data[s] : r.of \in Writes => r \in acked
      /\ \A w \in acked, a \in Stores : w.of \in Writes /\ w \notin data[a] => MissingOK(w, a)
  BY <1>1 DEF WrittenInv
<1>3. ASSUME NEW w \in acked', NEW a \in Stores, w.of \in Writes, w \notin data'[a]
      PROVE  MissingOK(w, a)'
  <2>1. w \in acked /\ w \notin data[a] /\ MissingOK(w, a)
    BY <1>1, <1>2, <1>3
  <2>2. db'[a].at = db[a].at
    BY <1>1, <1>3, <2>1
  <2>3. CASE Before(a, w)
    BY <2>1, <2>2, <2>3 DEF MissingOK, Before
  <2>4. CASE \E q \in Procs, b \in Stores : w \in data[b] /\ Pulls(q, b, a)
    <3>1. PICK q \in Procs, b \in Stores : w \in data[b] /\ Pulls(q, b, a)
      BY <2>4
    <3>2. q # p
      BY <1>1, <2>1, <3>1
    <3>3. Pulls(q, b, a)' /\ w \in data'[b]
      BY <3>1, <3>2 DEF Pulls
    <3> QED BY <2>1, <3>3 DEF MissingOK
  <2> QED BY <2>1, <2>3, <2>4 DEF MissingOK
<1> QED BY <1>1, <1>2, <1>3

\* A page of a sync: the target may get newer rows before a written one, but not
\* the end of the sync.
LEMMA WrittenSync ==
  ASSUME CallsInv, LinkInv, WrittenInv, NEW p \in env.procs, NEW from \in Stores, NEW to \in Stores,
         Synced(p, from, to), Pulls(p, from, to)
  PROVE  WrittenInv'
<1> DEFINE k == <<from, to>>
           l == link[k]
<1>0. /\ env' = env /\ restarts' = restarts /\ acked' = acked
      /\ \A x \in Stores : x # to => db'[x] = db[x] /\ data'[x] = data[x]
      /\ \A y \in Links : y # k => link'[y] = link[y]
      /\ db'[to] = IF UserMerged(from, to) THEN db[from] ELSE db[to]
      /\ data[to] \subseteq data'[to]
  BY DEF Synced
<1> SUFFICES ASSUME Orderly', restarts' = 0
             PROVE  /\ \A r \in overtaken' : r.of \notin Writes
                    /\ \A s \in Stores : \A r \in data'[s] : r.of \in Writes => r \in acked'
                    /\ \A w \in acked', a \in Stores :
                           w.of \in Writes /\ w \notin data'[a] => MissingOK(w, a)'
  BY DEF WrittenInv
<1>1. Orderly /\ restarts = 0
  BY <1>0 DEF Orderly
<1>2. /\ \A r \in overtaken : r.of \notin Writes
      /\ \A s \in Stores : \A r \in data[s] : r.of \in Writes => r \in acked
      /\ \A w \in acked, a \in Stores : w.of \in Writes /\ w \notin data[a] => MissingOK(w, a)
  BY <1>1 DEF WrittenInv
<1>3. /\ TypeOK /\ p \in Procs
      /\ \A s \in Stores : db[s].at \in Nat /\ \A r \in data[s] : r.at \in Nat
      /\ \A a, b \in Stores : link[<<a, b>>].when \in Nat /\ link[<<a, b>>].max \in Nat
      /\ \A w \in acked : w.at \in Nat
  <2>1. TypeOK /\ p \in Procs
    BY EnvFacts DEF CallsInv
  <2>2. \A r \in Rows : r.at \in Nat
    BY BoundsAssumption DEF Rows, Dates
  <2> QED BY <2>1, <2>2, DatesTyped DEF TypeOK
<1>4. \A q \in Procs, b, a \in Stores : Pulls(q, b, a) => q = p /\ b = from /\ a = to
  <2>1. \A q \in Procs : q # p => proc[q].pc = "idle"
    BY <1>1, Alone
  <2> QED BY <2>1 DEF Pulls
<1>5. \A w \in acked, a \in Stores :
         w.of \in Writes /\ w \notin data[a] /\ (a # to \/ w \notin data[from]) => Before(a, w)
  BY <1>2, <1>4 DEF MissingOK
<1>6. \A a, b \in Stores : <<a, b>> \in Links /\ (<<a, b>> = k => a = from /\ b = to)
  BY DEF Links
<1>7. CASE proc'[p].todo = proc[p].todo /\ \E r \in Pending(from, to) : SyncRow(from, to, r)
  <2>1. PICK r \in data[from] :
             /\ data'[to] = data[to] \cup {r}
             /\ overtaken' = IF Overtaken(to, r) THEN overtaken \cup {r} ELSE overtaken
             /\ link'[k].when = l.when
             /\ link'[k].max = Later(l.max, r.at)
    BY <1>3, <1>7, RowFacts
  <2>2. \A x \in overtaken' : x.of \notin Writes
    <3>1. ASSUME r.of \in Writes PROVE ~Overtaken(to, r)
      <4>1. r \in acked /\ (r \notin data[to] => MissingOK(r, to))
        BY <1>2, <3>1
      <4>2. r \notin data[to] => \A x \in Stores : link[<<to, x>>].when <= r.at
        BY <4>1 DEF MissingOK
      <4>3. \A x \in Stores : link[<<to, x>>].when <= r.at => ~(r.at < link[<<to, x>>].when)
        BY <1>3
      <4> QED BY <4>2, <4>3 DEF Overtaken
    <3> QED BY <1>2, <2>1, <3>1
  <2>3. \A s \in Stores : \A x \in data'[s] : x.of \in Writes => x \in acked
    BY <1>0, <1>2, <2>1
  <2>4. ASSUME NEW w \in acked, NEW a \in Stores, w.of \in Writes, w \notin data'[a]
        PROVE  MissingOK(w, a)'
    <3>1. w \notin data[a] /\ MissingOK(w, a)
      BY <1>0, <1>2, <2>4
    <3>2. ASSUME NEW x \in Stores PROVE link'[<<a, x>>].when <= w.at /\ link'[<<a, x>>].max <= w.at
      <4>1. link[<<a, x>>].when <= w.at /\ link[<<a, x>>].max <= w.at
        BY <3>1 DEF MissingOK
      <4>2. CASE <<a, x>> = k
        <5>1. a = from /\ w \notin data[from] /\ Before(from, w)
          BY <1>5, <1>6, <2>4, <3>1, <4>2
        <5>2. r.at <= w.at
          BY <5>1 DEF Before
        <5> QED BY <2>1, <4>1, <4>2, <5>2 DEF Later
      <4>3. CASE <<a, x>> # k
        BY <1>0, <1>6, <4>1, <4>3
      <4> QED BY <4>2, <4>3
    <3>3. \/ Before(a, w)'
          \/ \E q \in Procs, b \in Stores : w \in data'[b] /\ Pulls(q, b, a)'
      <4>1. CASE a # to
        BY <1>0, <1>5, <2>4, <3>1, <4>1 DEF Before
      <4>2. CASE a = to /\ w \in data[from]
        <5>1. Pulls(p, from, to)'
          BY <1>7 DEF Pulls, Synced
        <5>2. w \in data'[from]
          BY <1>0, <4>2
        <5> QED BY <1>3, <4>2, <5>1, <5>2
      <4>3. CASE a = to /\ w \notin data[from]
        <5>1. Before(from, w) /\ Before(to, w)
          BY <1>5, <2>4, <3>1, <4>3
        <5> QED BY <1>0, <2>1, <4>3, <5>1 DEF Before
      <4> QED BY <4>1, <4>2, <4>3
    <3> QED BY <3>2, <3>3 DEF MissingOK
  <2> QED BY <1>0, <2>2, <2>3, <2>4
<1>8. CASE SyncDone(from, to) /\ data[from] \ overtaken \subseteq data[to]
  <2>1. /\ data' = data /\ overtaken' = overtaken
        /\ link'[k].when = IF UserMerged(from, to) THEN Later(l.max, db[from].at) ELSE l.max
        /\ link'[k].max = l.max
    BY <1>3, <1>8, DoneFacts
  <2>2. ASSUME NEW w \in acked, NEW a \in Stores, w.of \in Writes, w \notin data[a]
        PROVE  MissingOK(w, a)'
    <3>1. MissingOK(w, a)
      BY <1>2, <2>2
    <3>2. ASSUME NEW x \in Stores PROVE link'[<<a, x>>].when <= w.at /\ link'[<<a, x>>].max <= w.at
      <4>1. link[<<a, x>>].when <= w.at /\ link[<<a, x>>].max <= w.at
        BY <3>1 DEF MissingOK
      <4>2. CASE <<a, x>> = k
        <5>1. db[from].at <= w.at
          BY <1>5, <1>6, <2>2, <4>2 DEF Before
        <5> QED BY <2>1, <4>1, <4>2, <5>1 DEF Later
      <4>3. CASE <<a, x>> # k
        BY <1>0, <1>6, <4>1, <4>3
      <4> QED BY <4>2, <4>3
    <3>3. Before(a, w)'
      <4>1. CASE a # to
        BY <1>0, <1>5, <2>1, <2>2, <4>1 DEF Before
      <4>2. CASE a = to
        <5>1. w \notin data[from]
          BY <1>2, <1>8, <2>2, <4>2
        <5>2. Before(from, w) /\ Before(to, w)
          BY <1>5, <2>2, <4>2, <5>1
        <5> QED BY <1>0, <2>1, <4>2, <5>2 DEF Before
      <4> QED BY <4>1, <4>2
    <3> QED BY <3>2, <3>3 DEF MissingOK
  <2> QED BY <1>0, <1>2, <2>1, <2>2
<1> QED BY <1>7, <1>8 DEF Synced

\* A written row is newer than all there is, and the active store holds the others.
LEMMA WrittenWrite ==
  ASSUME CallsInv, LinkInv, PartitionInv, DataInv, WrittenInv, NEW v \in Writes, Write(v)
  PROVE  WrittenInv'
<1> DEFINE n == Row(v, clock)
<1>1. /\ lock = None /\ isAvailable /\ authIsActive
      /\ data' = [data EXCEPT ![active] = @ \cup {n}] /\ acked' = acked \cup {n}
      /\ UNCHANGED <<db, link, overtaken, proc, restarts, env>>
  BY DEF Write
<1> SUFFICES ASSUME Orderly', restarts' = 0
             PROVE  /\ \A r \in overtaken' : r.of \notin Writes
                    /\ \A s \in Stores : \A r \in data'[s] : r.of \in Writes => r \in acked'
                    /\ \A w \in acked', a \in Stores :
                           w.of \in Writes /\ w \notin data'[a] => MissingOK(w, a)'
  BY DEF WrittenInv
<1>2. Orderly /\ restarts = 0
  BY <1>1 DEF Orderly
<1>3. /\ \A r \in overtaken : r.of \notin Writes
      /\ \A s \in Stores : \A r \in data[s] : r.of \in Writes => r \in acked
      /\ \A w \in acked, a \in Stores : w.of \in Writes /\ w \notin data[a] => MissingOK(w, a)
  BY <1>2 DEF WrittenInv
<1>4. active \in Stores /\ acked \ overtaken \subseteq data[active]
  BY <1>1, <1>2, ActiveHolds
<1>5. n.at = clock
  BY DEF Row
<1> HIDE DEF n
<1>6. /\ data'[active] = data[active] \cup {n} /\ \A s \in Stores : s # active => data'[s] = data[s]
  BY <1>1, <1>4 DEF CallsInv, TypeOK
<1>7. ASSUME NEW w \in acked', NEW a \in Stores, w.of \in Writes, w \notin data'[a]
      PROVE  MissingOK(w, a)'
  <2>1. CASE w = n
    <3>1. a # active /\ data'[a] = data[a]
      BY <1>6, <1>7, <2>1
    <3>2. /\ \A r \in data[a] : r.at <= clock
          /\ db[a].at <= clock
          /\ \A x \in Stores : link[<<a, x>>].when <= clock /\ link[<<a, x>>].max <= clock
      BY DEF CallsInv, RecordsOK, LinkInv, LinkOK
    <3> QED BY <1>1, <1>5, <2>1, <3>1, <3>2 DEF MissingOK, Before
  <2>2. CASE w # n
    <3>1. w \in acked /\ w \in data[active]
      BY <1>1, <1>3, <1>4, <1>7, <2>2
    <3>2. a # active /\ data'[a] = data[a] /\ MissingOK(w, a)
      BY <1>3, <1>6, <1>7, <3>1
    <3>3. CASE Before(a, w)
      BY <1>1, <3>2, <3>3 DEF MissingOK, Before
    <3>4. CASE \E q \in Procs, b \in Stores : w \in data[b] /\ Pulls(q, b, a)
      <4>1. PICK q \in Procs, b \in Stores : w \in data[b] /\ Pulls(q, b, a)
        BY <3>4
      <4>2. w \in data'[b] /\ Pulls(q, b, a)'
        BY <1>1, <1>6, <4>1 DEF Pulls
      <4> QED BY <1>1, <3>2, <4>2 DEF MissingOK
    <3> QED BY <3>2, <3>3, <3>4 DEF MissingOK
  <2> QED BY <2>1, <2>2
<1>8. \A s \in Stores : \A r \in data'[s] : r.of \in Writes => r \in acked'
  BY <1>1, <1>3, <1>6
<1> QED BY <1>1, <1>3, <1>7, <1>8

LEMMA WrittenInit == Init => WrittenInv
<1> SUFFICES ASSUME Init PROVE WrittenInv
  OBVIOUS
<1>1. acked = {} /\ overtaken = {}
  BY DEF Init
<1>2. ASSUME NEW s \in Stores, NEW r \in data[s] PROVE r.of \notin Writes
  <2>1. PICK used \in SUBSET (env.stores \ {First}) :
          \E recent \in SUBSET used :
             data = [x \in Stores |-> {Row(Basket, 0)} \cup
                        {Row(y, IF y \in recent THEN 1 ELSE 0) : y \in used \cap {x}}]
    BY DEF Init
  <2>2. PICK recent \in SUBSET used :
             data = [x \in Stores |-> {Row(Basket, 0)} \cup
                        {Row(y, IF y \in recent THEN 1 ELSE 0) : y \in used \cap {x}}]
    BY <2>1
  <2>3. r \in {Row(Basket, 0)} \cup {Row(y, IF y \in recent THEN 1 ELSE 0) : y \in used \cap {s}}
    BY <1>2, <2>2
  <2>4. r.of = Basket \/ r.of = s
    BY <2>3 DEF Row
  <2> QED BY <2>4, RowsAssumption DEF Legacy
<1> QED BY <1>1, <1>2 DEF WrittenInv

\* setActive records the choice in a store with every written row.
LEMMA WrittenMark ==
  ASSUME CallsInv, LinkInv, PartitionInv, SwitchInv, DataInv, WrittenInv, NEW p \in env.procs, MarkActive(p)
  PROVE  WrittenInv'
<1> DEFINE source == proc[p].source
<1>1. /\ proc[p].pc = "mark" /\ db' = [db EXCEPT ![source] = [active |-> proc[p].key, at |-> clock + 1]]
      /\ UNCHANGED <<data, link, overtaken, acked, restarts, env>>
      /\ proc' = [proc EXCEPT ![p] = [@ EXCEPT !.pc = "push", !.todo = stores]]
  BY DEF MarkActive, held
<1>2. p \in Procs /\ DOMAIN db = Stores /\ \A q \in Procs : q # p => proc'[q] = proc[q]
  BY <1>1, EnvFacts DEF CallsInv, TypeOK
<1>3. \A b, a \in Stores : ~Pulls(p, b, a)
  BY <1>1 DEF Pulls
<1>4. ASSUME Orderly, restarts = 0
      PROVE  \A s \in Stores : \/ db'[s].at = db[s].at
                               \/ \A w \in acked : w.of \in Writes => w \in data[s]
  <2>1. \A x \in Managed : data[x] \ overtaken \subseteq data[source]
    BY <1>1, <1>4, DataFrom DEF CarryOK
  <2>2. acked \subseteq UNION {data[x] : x \in Managed}
    BY <1>4, DataFrom DEF OwnedOK
  <2>3. \A w \in acked : w.of \in Writes => w \notin overtaken
    BY <1>4 DEF WrittenInv
  <2>4. \A w \in acked : w.of \in Writes => w \in data[source]
    BY <2>1, <2>2, <2>3
  <2>5. \A s \in Stores : s # source => db'[s] = db[s]
    BY <1>1, <1>2
  <2> QED BY <2>4, <2>5
<1> QED BY <1>1, <1>2, <1>3, <1>4, WrittenStays

\* The actions that move a row, and the action that does not where the source is next.
LEMMA WrittenMoves ==
  ASSUME CallsInv, LinkInv, WrittenInv, NEW p \in env.procs,
         MergeConflict(p) \/ PushToStore(p) \/ BackupStore(p)
  PROVE  WrittenInv'
<1> DEFINE r == proc[p]
           h == Head(proc[p].todo)
<1>1. /\ p \in Procs /\ CallOK(p) /\ r.todo \in Seq(Stores) /\ proc \in [Procs -> Calls] /\ r.todo # <<>>
  <2>1. p \in Procs /\ CallOK(p) /\ proc[p] \in Calls /\ proc \in [Procs -> Calls]
    BY EnvFacts DEF CallsInv, TypeOK
  <2> QED BY <2>1 DEF Calls, MergeConflict, PushToStore, BackupStore
<1>2. h \in Stores
  BY <1>1, StoreSets
<1>3. CASE MergeConflict(p)
  <2>1. r.pc = "merge" /\ SyncHead(p, h, r.key)
    BY <1>3 DEF MergeConflict
  <2>2. r.key \in Stores
    BY <1>1, <2>1 DEF CallOK, Syncing
  <2>3. Synced(p, h, r.key) /\ Pulls(p, h, r.key)
    BY <1>1, <1>2, <2>1, <2>2, SyncFacts DEF Pulls
  <2> QED BY <1>2, <2>2, <2>3, WrittenSync
<1>4. CASE BackupStore(p) \/ (PushToStore(p) /\ h # r.source)
  <2>1. r.pc \in {"push", "backup"} /\ SyncHead(p, r.source, h)
    BY <1>4 DEF BackupStore, PushToStore
  <2>2. r.source \in Stores
    BY <1>1, <2>1 DEF CallOK
  <2>3. Synced(p, r.source, h) /\ Pulls(p, r.source, h)
    BY <1>1, <1>2, <2>1, <2>2, SyncFacts DEF Pulls
  <2> QED BY <1>2, <2>2, <2>3, WrittenSync
<1>5. CASE PushToStore(p) /\ h = r.source
  <2>1. /\ r.pc = "push" /\ UNCHANGED <<data, link, overtaken, db, acked, restarts, env>>
        /\ \A q \in Procs : q # p => proc'[q] = proc[q]
    BY <1>1, <1>5 DEF PushToStore, durable, held
  <2>2. \A b, a \in Stores : Pulls(p, b, a) => a = b
    BY <1>5, <2>1 DEF Pulls
  <2> QED BY <1>1, <2>1, <2>2, WrittenStays
<1> QED BY <1>3, <1>4, <1>5

LEMMA WrittenNext ==
  CallsInv /\ LinkInv /\ PartitionInv /\ SwitchInv /\ DataInv /\ WrittenInv /\ [Next]_vars => WrittenInv'
<1> SUFFICES ASSUME CallsInv, LinkInv, PartitionInv, SwitchInv, DataInv, WrittenInv, [Next]_vars
             PROVE  WrittenInv'
  OBVIOUS
<1>a. proc \in [Procs -> Calls] /\ \A p \in env.procs : p \in Procs
  BY EnvFacts DEF CallsInv, TypeOK
\* A call that is at no page leaves the rows alone.
<1>1. ASSUME NEW p \in env.procs, UNCHANGED <<data, link, overtaken, acked, restarts, env>>,
             \A s \in Stores : db'[s].at = db[s].at,
             \A q \in Procs : q # p => proc'[q] = proc[q],
             proc[p].pc \notin {"merge", "push", "backup"} \/ proc[p].todo = <<>>
      PROVE  WrittenInv'
  <2>1. \A b, a \in Stores : ~Pulls(p, b, a)
    BY <1>1 DEF Pulls
  <2> QED BY <1>a, <1>1, <2>1, WrittenStays
<1>2. ASSUME NEW p \in env.procs, Step(p) PROVE WrittenInv'
  <2>1. CASE MergeConflict(p) \/ PushToStore(p) \/ BackupStore(p)
    BY <2>1, WrittenMoves
  <2>2. CASE MarkActive(p)
    BY <2>2, WrittenMark
  <2>3. CASE EnsureFetch(p)
    <3>1. /\ proc[p].pc = "ensure" /\ UNCHANGED <<data, link, overtaken, acked, restarts, env>>
          /\ \A q \in Procs : q # p => proc'[q] = proc[q]
      BY <1>a, <2>3 DEF EnsureFetch, held
    <3>2. \A s \in Stores : db'[s].at = db[s].at
      BY <2>3 DEF EnsureFetch, CallsInv, TypeOK, Absent
    <3> QED BY <1>1, <3>1, <3>2
  <2>4. CASE EnsureCached(p) \/ EnsureApply(p)
    <3>1. /\ proc[p].pc \in {"ensure", "ensured"}
          /\ UNCHANGED <<data, link, overtaken, acked, restarts, env, db>>
          /\ \A q \in Procs : q # p => proc'[q] = proc[q]
      BY <1>a, <2>4 DEF EnsureCached, EnsureApply, SelectAndAdvance, durable, held
    <3> QED BY <1>1, <3>1
  <2>5. CASE Throw(p)
    BY <2>5 DEF Throw, durable, held, WrittenInv, Orderly
  <2>6. CASE \/ SetActiveRetries(p) \/ SetActiveReturns(p) \/ SetActiveQueues(p)
             \/ SetActiveFindsUnavailable(p) \/ SetActiveBegins(p)
    <3>1. /\ proc[p].pc \in {"request", "queued"}
          /\ UNCHANGED <<data, link, overtaken, acked, restarts, env, db>>
          /\ \A q \in Procs : q # p => proc'[q] = proc[q]
      BY <1>a, <2>6 DEF SetActiveRetries, SetActiveReturns, SetActiveQueues, SetActiveFindsUnavailable,
             SetActiveBegins, StartMakeAvailable, durable, held
    <3> QED BY <1>1, <3>1
  <2>7. CASE ChooseBackupSource(p) \/ SetActiveEnds(p) \/ UpdateBackupsEnds(p)
    <3>1. /\ proc[p].todo = <<>>
          /\ UNCHANGED <<data, link, overtaken, acked, restarts, env, db>>
          /\ \A q \in Procs : q # p => proc'[q] = proc[q]
      BY <1>a, <2>7 DEF ChooseBackupSource, SetActiveEnds, UpdateBackupsEnds, StartMakeAvailable, durable, held
    <3> QED BY <1>1, <3>1
  <2> QED BY <1>2, <2>1, <2>2, <2>3, <2>4, <2>5, <2>6, <2>7 DEF Step
<1>3. ASSUME NEW p \in env.procs,
             MakeAvailable(p) \/ UpdateBackups(p) \/ \E s \in env.stores : SetActive(p, s)
      PROVE  WrittenInv'
  <2>1. /\ proc[p].pc = "idle"
        /\ UNCHANGED <<data, link, overtaken, acked, restarts, env, db>>
        /\ \A q \in Procs : q # p => proc'[q] = proc[q]
    BY <1>a, <1>3 DEF MakeAvailable, UpdateBackups, SetActive, StartMakeAvailable, durable, held
  <2> QED BY <1>1, <2>1
\* What a store held before it was added was not written through the manager.
<1>4. ASSUME NEW p \in env.procs, NEW s \in env.stores, AddWalletStorageProvider(p, s)
      PROVE  WrittenInv'
  <2>1. /\ proc[p].pc = "idle"
        /\ UNCHANGED <<data, link, overtaken, restarts, env, db>> /\ acked' = acked \cup data[s]
        /\ \A q \in Procs : q # p => proc'[q] = proc[q]
    BY <1>a, <1>4 DEF AddWalletStorageProvider, StartMakeAvailable, held
  <2>2. s \in Stores
    BY EnvFacts DEF CallsInv
  <2>3. Orderly /\ restarts = 0 => \A r \in acked' : r.of \in Writes => r \in acked
    BY <2>1, <2>2 DEF WrittenInv
  <2>4. \A b, a \in Stores : ~Pulls(p, b, a)
    BY <2>1 DEF Pulls
  <2> QED BY <1>a, <2>1, <2>3, <2>4, WrittenStays
<1>5. ASSUME NEW w \in Writes, Write(w) PROVE WrittenInv'
  BY <1>5, WrittenWrite
<1>6. CASE Restart
  BY <1>6, BoundsAssumption DEF Restart, WrittenInv, CallsInv, TypeOK
<1>7. CASE UNCHANGED vars
  <2>1. UNCHANGED <<db, data, link, overtaken, acked, proc, restarts, env>>
    BY <1>7 DEF vars, durable, held
  <2> QED BY <2>1 DEF WrittenInv, MissingOK, Before, Pulls, Orderly
<1> QED BY <1>2, <1>3, <1>4, <1>5, <1>6, <1>7 DEF Next

-----------------------------------------------------------------------------
(***************************************************************************)
(* The invariants together.                                                *)
(***************************************************************************)
\* StoresInv holds in every state.  Calls that overlap, fail or are lost do not
\* disturb CallsInv and LinkInv, which says what a checkpoint of a sync means; the
\* rest, what the stores hold of each other's rows among it, holds where calls
\* neither overlap nor fail.
THEOREM StoresSound == Spec => []StoresInv
<1>1. Init => StoresInv
  BY CallsInit, LinkInit, PartitionInit, SwitchInit, DataInit, WrittenInit DEF StoresInv
<1>2. StoresInv /\ [Next]_vars => StoresInv'
  BY CallsNext, LinkNext, PartitionNext, SwitchNext, DataNext, WrittenNext DEF StoresInv
<1> QED BY <1>1, <1>2, PTL DEF Spec

\* Type correctness, overlapping calls, failures and restarts included; the clock
\* of the records stays within its bound because setActive marks once in a call.
THEOREM TypeCorrect == Spec => []TypeOK
BY StoresSound, PTL DEF StoresInv, CallsInv

\* makeAvailable, whose calls do not overlap, puts each of _stores in one place,
\* however many stores there are and whatever setActive did before.
THEOREM StoresPartitioned == Spec => []Partitioned
<1>1. StoresInv => Partitioned
  <2> SUFFICES ASSUME StoresInv, Orderly, isAvailable, lock = None PROVE Placed
    BY DEF Partitioned, Placed, Managed
  <2>1. \A p \in Procs : ~Syncing(p)
    BY NoneAssumption DEF StoresInv, CallsInv, CallOK
  <2> QED BY <2>1 DEF StoresInv, PartitionInv, Settled
<1> QED BY <1>1, StoresSound, PTL

\* _authId.isActive never disagrees with the records it was computed from.
THEOREM GateAgrees == Spec => []GateMatchesRecords
<1>1. StoresInv => GateMatchesRecords
  <2> SUFFICES ASSUME StoresInv, Orderly, isAvailable, lock = None
               PROVE  authIsActive <=> isActiveEnabled
    BY DEF GateMatchesRecords
  <2>1. \A p \in Procs : ~Syncing(p)
    BY NoneAssumption DEF StoresInv, CallsInv, CallOK
  <2> QED BY <2>1 DEF StoresInv, PartitionInv, Settled
<1> QED BY <1>1, StoresSound, PTL

\* The store that accepts writes holds every row written through the manager, and
\* every other row that was not merged behind a checkpoint, for any number of
\* stores, writes and switches of a process that is not restarted.
THEOREM WritesKept == Spec => []NoWriteLost
<1>1. StoresInv => NoWriteLost
  <2> SUFFICES ASSUME StoresInv, Orderly, Enabled, NEW r \in acked, r.of \in Writes \/ r \notin overtaken
               PROVE  r \in data[active]
    BY DEF NoWriteLost
  <2>1. acked \ overtaken \subseteq data[active]
    BY ActiveHolds DEF Enabled, StoresInv
  <2>2. r \notin overtaken
    BY DEF Enabled, StoresInv, WrittenInv
  <2> QED BY <2>1, <2>2
<1> QED BY <1>1, StoresSound, PTL

\* The step with which setActive returns is the last one of its loop.
LEMMA ReturnsFromLoop ==
  ASSUME StoresInv, [Next]_vars, NEW p \in Procs, SwitchReturns(p)
  PROVE  p \in env.procs /\ Looping(p) /\ EnsureCached(p)
<1>1. /\ Orderly /\ lock = p /\ lock' = None /\ restarts' = restarts /\ proc[p].i = Len(stores)
  BY DEF SwitchReturns
<1>2. CallsInv /\ CallOK(p) /\ SwitchOK(p)
  BY <1>1 DEF StoresInv, CallsInv, SwitchInv
<1>3. Looping(p)
  <2>1. Len(stores) # 0
    BY DEF StoresInv, CallsInv, RecordsOK, TypeOK
  <2> QED BY <1>1, <1>2, <2>1 DEF CallOK
<1>4. p \in env.procs /\ proc[p].pc = "ensure"
  BY <1>1, <1>2, <1>3 DEF CallOK, SwitchOK, Looping, Idle
<1>5. \A q \in env.procs : q = p
  BY <1>1, <1>4 DEF Orderly
<1>6. lock' # lock
  BY <1>1, NoneAssumption
<1>7. restarts \in Nat
  BY BoundsAssumption DEF StoresInv, CallsInv, TypeOK
<1>8. ~Restart /\ ~UNCHANGED vars /\ \A w \in Writes : ~Write(w)
  BY <1>1, <1>6, <1>7 DEF Restart, vars, Write
<1>9. ~MakeAvailable(p) /\ ~UpdateBackups(p)
      /\ \A s \in env.stores : ~AddWalletStorageProvider(p, s) /\ ~SetActive(p, s)
  BY <1>4 DEF MakeAvailable, UpdateBackups, AddWalletStorageProvider, SetActive
<1>10. Step(p)
  BY <1>5, <1>8, <1>9 DEF Next
<1>11. ~EnsureFetch(p) /\ ~Throw(p)
  BY <1>1, <1>6 DEF EnsureFetch, Throw, Orderly
<1> QED BY <1>3, <1>4, <1>10, <1>11
     DEF Step, EnsureApply, SetActiveRetries, SetActiveReturns, SetActiveQueues, SetActiveBegins,
         SetActiveFindsUnavailable, MergeConflict, ChooseBackupSource, MarkActive, PushToStore, SetActiveEnds, BackupStore,
         UpdateBackupsEnds

\* setActive(k) that runs to its end leaves k active and enabled, and every managed
\* store with a record that names k and with the rows of the store that was pushed,
\* those aside that were merged behind a checkpoint, whatever was interrupted before.
THEOREM SwitchEffective == Spec => SwitchTakesEffect
<1>1. ASSUME StoresInv, [Next]_vars, NEW p \in Procs, SwitchReturns(p)
      PROVE  /\ active' = proc[p].key /\ authIsActive'
             /\ \A s \in ToSet(stores) : /\ db[s].active = proc[p].key
                                         /\ data[proc[p].source] \ overtaken \subseteq data[s]
  <2> DEFINE r == proc[p]
             k == r.key
             sel == Selected(stores[r.i], r.list, user)
             a == sel[1]
             Other == {b \in Stores : user[b] # a}
  <2>1. p \in env.procs /\ Looping(p) /\ EnsureCached(p)
    BY <1>1, ReturnsFromLoop
  <2>2. /\ Orderly /\ lock = p /\ r.i = Len(stores) /\ k # None
        /\ CallsInv /\ PartitionInv /\ SwitchInv /\ LoopOK(p) /\ SwitchOK(p)
        /\ stores \in Seq(Stores)
    BY <1>1 DEF SwitchReturns, StoresInv, PartitionInv, SwitchInv, CallsInv, TypeOK
  <2>3. k \in Managed /\ \A x \in Managed : Pushed(p, x)
    BY <2>1, <2>2 DEF SwitchOK
  <2>4. a = k
    <3>1. \E j \in 1..r.i : stores[j] = k
      BY <2>2, <2>3 DEF Managed, ToSet
    <3>2. a = k \/ \A j \in 1..r.i : stores[j] # k
      BY <2>1, <2>2, ChoiceSelected
    <3> QED BY <3>1, <3>2
  <2>5. sel[2] \in Seq(Stores) /\ ToSet(sel[2]) \subseteq Managed
    <3>1. /\ sel[2] \in Seq(Stores)
          /\ {sel[1]} \cup ToSet(sel[2]) = {stores[j] : j \in 1..r.i}
      BY <2>1, <2>2, SelectedCollects
    <3>2. \A j \in 1..r.i : stores[j] \in Managed
      BY <2>2 DEF Managed, ToSet
    <3> HIDE DEF sel
    <3> QED BY <3>1, <3>2
  <2>6. /\ active' = a
        /\ authIsActive' = EnabledWith(a, conflictingActives \o Filter(sel[2], Other), user)
    BY <2>1, <2>2 DEF EnsureCached, SelectAndAdvance
  <2>7. conflictingActives \o Filter(sel[2], Other) = <<>>
    <3>1. conflictingActives = <<>>
      BY <2>1, <2>2 DEF LoopOK
    <3>2. ToSet(sel[2]) \cap Other = {}
      BY <2>3, <2>4, <2>5 DEF Pushed
    <3> HIDE DEF sel, Other
    <3>3. Filter(sel[2], Other) \in Seq(Stores) /\ ToSet(Filter(sel[2], Other)) = {}
      BY <2>5, <3>2, FilterFacts
    <3>4. Filter(sel[2], Other) = <<>>
      <4> DEFINE f == Filter(sel[2], Other)
      <4> HIDE DEF f
      <4>1. f \in Seq(Stores) /\ ToSet(f) = {}
        BY <3>3 DEF f
      <4>2. f = <<>>
        BY <4>1, StoreSets
      <4> QED BY <4>2 DEF f
    <3> QED BY <3>1, <3>4
  <2>8. user[k] = k
    BY <2>3 DEF Pushed
  <2>9. authIsActive'
    <3> HIDE DEF sel, Other, k
    <3> QED BY <2>2, <2>4, <2>6, <2>7, <2>8 DEF EnabledWith
  <2> QED BY <2>3, <2>4, <2>6, <2>9 DEF Pushed, Managed
<1>2. ASSUME StoresInv, [Next]_vars
      PROVE  \A p \in Procs : SwitchReturns(p) =>
                /\ active' = proc[p].key /\ authIsActive'
                /\ \A s \in ToSet(stores) : /\ db[s].active = proc[p].key
                                            /\ data[proc[p].source] \ overtaken \subseteq data[s]
  BY <1>1, <1>2
<1> QED BY <1>2, StoresSound, PTL DEF SwitchTakesEffect, Spec

=============================================================================
