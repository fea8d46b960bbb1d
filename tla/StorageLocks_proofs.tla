------------------------ MODULE StorageLocks_proofs -------------------------
(***************************************************************************)
(* Proofs about the access locks of WalletStorageManager, for any number   *)
(* of calls and providers.                                                 *)
(*                                                                         *)
(* The properties of the queues hold as long as makeAvailable has not      *)
(* thrown inside an acquisition (thrown): a throw before the resolver is   *)
(* pushed makes the `finally` of runAs... shift somebody else's resolver.  *)
(* Type correctness holds whatever is thrown.                              *)
(***************************************************************************)
EXTENDS StorageLocks, FiniteSetTheorems, TLAPS

(***************************************************************************)
(* The call has pushed its resolver on the reader queue and not shifted it *)
(* yet.                                                                    *)
(***************************************************************************)
InLine(c) ==
    \/ pc[c] \in {"wait", "run", "switch"}
    \/ pc[c] = "avail" /\ lvl[c] > 1

\* The call has been let past the reader queue.
Admitted(c) ==
    \/ pc[c] \in {"run", "switch"}
    \/ pc[c] = "wait" /\ (woken[c] \/ lvl[c] > 1)
    \/ pc[c] = "avail" /\ lvl[c] > 1

IsHead(c) == queue[1] # <<>> /\ queue[1][1] = c

\* The reader queue holds the calls that are in line, each once.
LineExact ==
    /\ \A i \in 1..Len(queue[1]) : InLine(queue[1][i])
    /\ \A i, j \in 1..Len(queue[1]) : queue[1][i] = queue[1][j] => i = j
    /\ \A c \in Calls : InLine(c) => \E i \in 1..Len(queue[1]) : queue[1][i] = c

\* Only the head of the reader queue is past it.
HeadAdmitted == \A c \in Calls : Admitted(c) => IsHead(c)

(***************************************************************************)
(* The upper queues belong to the head of the reader queue, and hold       *)
(* nothing but its resolvers.                                              *)
(***************************************************************************)
UpperOwned ==
    /\ \A l \in 2..4 : queue[l] # <<>> =>
          /\ queue[1] # <<>>
          /\ Len(queue[l]) = 1
          /\ l <= lvl[queue[1][1]]
          /\ pc[queue[1][1]] = "avail" => l < lvl[queue[1][1]]
    /\ \A c \in Calls : pc[c] = "wait" /\ lvl[c] > 1 => queue[lvl[c]] = <<c>>

NeedCovers == \A c \in Calls : lvl[c] <= need[c]

LockInv == TypeOK /\ LineExact /\ HeadAdmitted /\ UpperOwned /\ NeedCovers

-----------------------------------------------------------------------------
(***************************************************************************)
(* Sequences: what Shift (Array.shift) leaves.                             *)
(***************************************************************************)
LEMMA ShiftType ==
    ASSUME NEW S, NEW q \in Seq(S)
    PROVE  /\ Shift(q) \in Seq(S)
           /\ q # <<>> => Len(q) >= 1 /\ q[1] \in S
           /\ q # <<>> => Len(Shift(q)) = Len(q) - 1
           /\ q # <<>> => \A i \in 1..Len(Shift(q)) : Shift(q)[i] = q[i + 1]
           /\ q = <<>> => Shift(q) = <<>>
<1>1. CASE q = <<>>
  BY <1>1 DEF Shift
<1>2. CASE q # <<>>
  <2>1. Tail(q) \in Seq(S) /\ Len(Tail(q)) = Len(q) - 1 /\ Len(q) >= 1 /\ q[1] \in S
    BY <1>2
  <2>2. \A i \in 1..Len(Tail(q)) : Tail(q)[i] = q[i + 1]
    BY <1>2
  <2> QED
    BY <1>2, <2>1, <2>2 DEF Shift
<1> QED
  BY <1>1, <1>2

\* PushLock, getActiveLock and the release of the queues keep the types.
LEMMA PushType ==
    ASSUME TypeOK, NEW c \in Calls, NEW l \in Levels, PushLock(c, l)
    PROVE  /\ queue' \in [Levels -> Seq(Calls)]
           /\ pc' \in [Calls -> Places]
           /\ lvl' \in [Calls -> Levels]
           /\ woken' \in [Calls -> BOOLEAN]
<1>1. Append(queue[l], c) \in Seq(Calls)
  BY DEF TypeOK
<1> QED
  BY <1>1 DEF TypeOK, PushLock, Places

LEMMA GetLockType ==
    ASSUME TypeOK, NEW c \in Calls, NEW l \in Levels, GetActiveLock(c, l)
    PROVE  /\ queue' \in [Levels -> Seq(Calls)]
           /\ pc' \in [Calls -> Places]
           /\ lvl' \in [Calls -> Levels]
           /\ woken' \in [Calls -> BOOLEAN]
<1>1. CASE PushLock(c, l)
  BY <1>1, PushType
<1>2. CASE ~PushLock(c, l)
  BY <1>2 DEF GetActiveLock, TypeOK, Places
<1> QED
  BY <1>1, <1>2

LEMMA ReleaseType ==
    ASSUME TypeOK, NEW c \in Calls, ReleaseLocks(c)
    PROVE  /\ queue' \in [Levels -> Seq(Calls)]
           /\ pc' \in [Calls -> Places]
           /\ lvl' \in [Calls -> Levels]
           /\ woken' \in [Calls -> BOOLEAN]
<1>1. \A l \in Levels : queue[l] \in Seq(Calls) /\ Shift(queue[l]) \in Seq(Calls)
  BY ShiftType DEF TypeOK
<1>2. queue' = [l \in Levels |-> IF l <= need[c] THEN Shift(queue[l]) ELSE queue[l]]
  BY DEF ReleaseLocks
<1>3. queue' \in [Levels -> Seq(Calls)]
  BY <1>1, <1>2
<1>4. pc' \in [Calls -> Places] /\ lvl' \in [Calls -> Levels]
  BY DEF TypeOK, ReleaseLocks, Places
<1>5. woken' \in [Calls -> BOOLEAN]
  BY DEF TypeOK, ReleaseLocks
<1> QED
  BY <1>3, <1>4, <1>5

(***************************************************************************)
(* Every variable of the lock manager keeps its type: in particular no     *)
(* release, even one that shifts an empty queue or another call's          *)
(* resolver, leaves anything but a queue of calls behind.                  *)
(***************************************************************************)
THEOREM TypeCorrect == Spec => []TypeOK
<1>1. Init => TypeOK
  <2>1. <<>> \in Seq(Calls) /\ 1 \in Levels /\ "idle" \in Places
    BY DEF Levels, Places
  <2> QED
    BY <2>1 DEF Init, TypeOK
<1>2. ASSUME TypeOK, [Next]_vars
      PROVE  TypeOK'
  <2> USE <1>2
  <2>1. ASSUME NEW c \in Calls, NEW d \in Levels, RunAs(c, d) PROVE TypeOK'
    <3>1. GetActiveLock(c, 1) /\ 1 \in Levels
      BY <2>1 DEF RunAs, Levels
    <3> QED
      BY <2>1, <3>1, GetLockType DEF RunAs, TypeOK
  <2>2. ASSUME NEW c \in Calls, MadeAvailable(c) PROVE TypeOK'
    <3>1. lvl[c] \in Levels /\ PushLock(c, lvl[c])
      BY <2>2 DEF MadeAvailable, TypeOK
    <3> QED
      BY <2>2, <3>1, PushType DEF MadeAvailable, TypeOK
  <2>3. ASSUME NEW c \in Calls, AcquireNext(c) PROVE TypeOK'
    <3>1. lvl[c] \in Levels /\ need[c] \in Levels
      BY DEF TypeOK
    <3>2. lvl[c] + 1 \in Levels /\ GetActiveLock(c, lvl[c] + 1)
      BY <2>3, <3>1 DEF AcquireNext, Levels
    <3> QED
      BY <2>3, <3>2, GetLockType DEF AcquireNext, TypeOK
  <2>4. ASSUME NEW c \in Calls, EnterCallback(c) \/ SwitchActive(c) PROVE TypeOK'
    BY <2>4 DEF EnterCallback, SwitchActive, TypeOK, Places
  <2>5. ASSUME NEW c \in Calls,
               \/ AvailabilityThrown(c) \/ GetActiveThrows(c)
               \/ LeaveCallback(c) \/ SwitchEnds(c)
        PROVE  TypeOK'
    <3>1. ReleaseLocks(c)
      BY <2>5 DEF AvailabilityThrown, GetActiveThrows, LeaveCallback, SwitchEnds
    <3>2. /\ need' = need /\ adding' = adding
          /\ isAvailable' \in BOOLEAN /\ thrown' \in BOOLEAN
      BY <2>5 DEF AvailabilityThrown, GetActiveThrows, LeaveCallback, SwitchEnds, TypeOK
    <3> QED
      BY <3>1, <3>2, ReleaseType DEF TypeOK
  <2>6. ASSUME NEW p \in Providers, AddProvider(p) \/ ProviderAdded(p) PROVE TypeOK'
    BY <2>6 DEF AddProvider, ProviderAdded, TypeOK
  <2>7. CASE GetAuth
    BY <2>7 DEF GetAuth, TypeOK
  <2>8. CASE UNCHANGED vars
    BY <2>8 DEF vars, TypeOK
  <2> QED
    BY <2>1, <2>2, <2>3, <2>4, <2>5, <2>6, <2>7, <2>8 DEF Next, Step
<1> QED
  BY <1>1, <1>2, PTL DEF Spec

-----------------------------------------------------------------------------
LockParts == LineExact /\ HeadAdmitted /\ UpperOwned /\ NeedCovers

\* A call that is not in line joins the end of the reader queue.
LEMMA PushFirst ==
    ASSUME LockInv, TypeOK', NEW c \in Calls, ~InLine(c), PushLock(c, 1),
           \A d \in Calls : d # c => need'[d] = need[d]
    PROVE  LockParts'
<1> DEFINE q == queue[1]
<1>1. /\ q \in Seq(Calls) /\ q' = Append(q, c)
      /\ \A l \in 2..4 : queue'[l] = queue[l]
  BY DEF LockInv, TypeOK, PushLock, Levels
<1>2. /\ Len(q') = Len(q) + 1 /\ Len(q) \in Nat /\ q'[Len(q) + 1] = c
      /\ \A i \in 1..Len(q) : q'[i] = q[i] /\ q[i] \in Calls
      /\ q' # <<>> /\ (q # <<>> => q'[1] = q[1] /\ Len(q) >= 1)
      /\ (q = <<>> => q'[1] = c /\ Len(q) = 0)
  <2>1. /\ Len(q') = Len(q) + 1 /\ Len(q) \in Nat /\ q'[Len(q) + 1] = c
        /\ \A i \in 1..Len(q) : q'[i] = q[i] /\ q[i] \in Calls
    BY <1>1
  <2>2. (q # <<>> => Len(q) >= 1) /\ (q = <<>> => Len(q) = 0)
    BY <1>1
  <2>3. q' # <<>>
    BY <2>1
  <2> QED
    BY <2>1, <2>2, <2>3
<1>3. /\ pc' = [pc EXCEPT ![c] = "wait"] /\ pc'[c] = "wait" /\ lvl'[c] = 1
      /\ woken'[c] = (q = <<>>)
      /\ \A d \in Calls : d # c => /\ pc'[d] = pc[d] /\ lvl'[d] = lvl[d]
                                   /\ woken'[d] = woken[d]
  BY DEF LockInv, TypeOK, PushLock, Levels
<1>4. \A i \in 1..Len(q) : q[i] # c
  BY DEF LockInv, LineExact
<1>5. \A d \in Calls : d # c => /\ InLine(d)' <=> InLine(d)
                                /\ Admitted(d)' <=> Admitted(d)
  BY <1>3 DEF InLine, Admitted
<1>6. InLine(c)' /\ (Admitted(c)' => q = <<>>)
  <2>1. lvl'[c] > 1 <=> FALSE
    BY <1>3
  <2> QED
    BY <2>1, <1>3, Zenon DEF InLine, Admitted
<1>7. LineExact'
  <2>1. (\A i \in 1..Len(q) : InLine(q[i]))'
    BY <1>2, <1>4, <1>5, <1>6 DEF LockInv, LineExact
  <2>2. \A i, j \in 1..Len(q') : q'[i] = q'[j] => i = j
    <3>1. \A i, j \in 1..Len(q) : q[i] = q[j] => i = j
      BY DEF LockInv, LineExact
    <3>2. \A i \in 1..Len(q') : i \in 1..Len(q) \/ i = Len(q) + 1
      BY <1>2
    <3> SUFFICES ASSUME NEW i \in 1..Len(q'), NEW j \in 1..Len(q'), q'[i] = q'[j]
                 PROVE  i = j
      OBVIOUS
    <3>3. CASE i \in 1..Len(q) /\ j \in 1..Len(q)
      BY <3>1, <3>3, <1>2
    <3>4. CASE i = Len(q) + 1 \/ j = Len(q) + 1
      BY <3>2, <3>4, <1>2, <1>4
    <3> QED
      BY <3>2, <3>3, <3>4
  <2>3. \A d \in Calls : InLine(d)' => \E i \in 1..Len(q') : q'[i] = d
    <3> SUFFICES ASSUME NEW d \in Calls, InLine(d)'
                 PROVE  \E i \in 1..Len(q') : q'[i] = d
      OBVIOUS
    <3>1. CASE d = c
      BY <3>1, <1>2
    <3>2. CASE d # c
      <4>1. PICK i \in 1..Len(q) : q[i] = d
        BY <3>2, <1>5 DEF LockInv, LineExact
      <4> QED
        BY <4>1, <1>2
    <3> QED
      BY <3>1, <3>2
  <2> QED
    BY <2>1, <2>2, <2>3 DEF LineExact
<1>8. HeadAdmitted'
  <2> SUFFICES ASSUME NEW d \in Calls, Admitted(d)'
               PROVE  IsHead(d)'
    BY DEF HeadAdmitted
  <2>1. CASE d = c
    BY <2>1, <1>2, <1>6 DEF IsHead
  <2>2. CASE d # c
    BY <2>2, <1>2, <1>5 DEF IsHead, LockInv, HeadAdmitted
  <2> QED
    BY <2>1, <2>2
<1>9. UpperOwned'
  <2>1. ASSUME NEW l \in 2..4, queue'[l] # <<>>
        PROVE  /\ q' # <<>> /\ Len(queue'[l]) = 1 /\ l <= lvl'[q'[1]]
               /\ pc'[q'[1]] = "avail" => l < lvl'[q'[1]]
    <3>1. queue[l] # <<>> /\ queue'[l] = queue[l]
      BY <2>1, <1>1
    <3>2. /\ q # <<>> /\ Len(queue[l]) = 1 /\ l <= lvl[q[1]]
          /\ pc[q[1]] = "avail" => l < lvl[q[1]]
      BY <3>1 DEF LockInv, UpperOwned
    <3>3. 1 \in 1..Len(q) /\ q[1] \in Calls /\ q[1] # c /\ q'[1] = q[1]
      BY <3>2, <1>2, <1>4
    <3> QED
      BY <3>1, <3>2, <3>3, <1>2, <1>3
  <2>2. ASSUME NEW d \in Calls, pc'[d] = "wait", lvl'[d] > 1
        PROVE  queue'[lvl'[d]] = <<d>>
    <3>1. d # c
      BY <2>2, <1>3
    <3>2. pc[d] = "wait" /\ lvl[d] > 1 /\ lvl[d] \in 2..4 /\ lvl'[d] = lvl[d]
      BY <2>2, <3>1, <1>3 DEF LockInv, TypeOK, Levels
    <3> QED
      BY <3>2, <1>1 DEF LockInv, UpperOwned
  <2> QED
    BY <2>1, <2>2 DEF UpperOwned
<1>10. NeedCovers'
  <2>1. need'[c] \in Levels
    BY DEF TypeOK
  <2> QED
    BY <2>1, <1>3 DEF LockInv, NeedCovers, Levels
<1> QED
  BY <1>7, <1>8, <1>9, <1>10 DEF LockParts

(***************************************************************************)
(* The head of the reader queue pushes its resolver on the next queue.     *)
(***************************************************************************)
LEMMA PushUpper ==
    ASSUME LockInv, TypeOK', NEW c \in Calls, Admitted(c), NEW l \in 2..4,
           PushLock(c, l), l <= need[c], need' = need,
           \/ pc[c] = "wait" /\ l = lvl[c] + 1
           \/ pc[c] = "avail" /\ l = lvl[c]
    PROVE  LockParts'
<1> DEFINE q == queue[1]
<1>1. IsHead(c) /\ q # <<>> /\ q[1] = c
  BY DEF LockInv, HeadAdmitted, IsHead
<1>2. queue[l] = <<>>
  <2>1. lvl[c] \in 1..4
    BY DEF LockInv, TypeOK, Levels
  <2> QED
    BY <1>1, <2>1 DEF LockInv, UpperOwned
<1>3. /\ q' = q /\ queue'[l] = <<c>>
      /\ \A k \in 2..4 : k # l => queue'[k] = queue[k]
  <2>1. q' = q /\ queue'[l] = Append(queue[l], c)
               /\ \A k \in 2..4 : k # l => queue'[k] = queue[k]
    BY DEF LockInv, TypeOK, PushLock, Levels
  <2> QED
    BY <1>2, <2>1
<1>4. /\ pc'[c] = "wait" /\ lvl'[c] = l
      /\ \A d \in Calls : d # c => /\ pc'[d] = pc[d] /\ lvl'[d] = lvl[d]
                                   /\ woken'[d] = woken[d]
  BY DEF LockInv, TypeOK, PushLock, Levels
<1>5. \A d \in Calls : d # c => /\ InLine(d)' <=> InLine(d)
                                /\ Admitted(d)' <=> Admitted(d)
  BY <1>4 DEF InLine, Admitted
<1>6. InLine(c) /\ InLine(c)'
  BY <1>4 DEF InLine, Admitted
<1>7. \A i \in 1..Len(q) : q[i] \in Calls
  BY DEF LockInv, TypeOK, Levels
<1>8. LineExact'
  <2>1. (\A i \in 1..Len(q) : InLine(q[i]))'
    BY <1>3, <1>5, <1>6, <1>7 DEF LockInv, LineExact
  <2>2. \A i, j \in 1..Len(q') : q'[i] = q'[j] => i = j
    BY <1>3 DEF LockInv, LineExact
  <2>3. \A d \in Calls : InLine(d)' => \E i \in 1..Len(q') : q'[i] = d
    BY <1>3, <1>5, <1>6 DEF LockInv, LineExact
  <2> QED
    BY <2>1, <2>2, <2>3 DEF LineExact
<1>9. HeadAdmitted'
  BY <1>1, <1>3, <1>5 DEF HeadAdmitted, IsHead, LockInv
<1>10. UpperOwned'
  <2>1. lvl[c] \in 1..4 /\ lvl[c] <= l
    BY DEF LockInv, TypeOK, Levels
  <2>2. ASSUME NEW k \in 2..4, queue'[k] # <<>>
        PROVE  /\ q' # <<>> /\ Len(queue'[k]) = 1 /\ k <= lvl'[q'[1]]
               /\ pc'[q'[1]] = "avail" => k < lvl'[q'[1]]
    <3>1. q'[1] = c /\ q' # <<>>
      BY <1>1, <1>3
    <3>2. CASE k = l
      BY <3>1, <3>2, <1>3, <1>4
    <3>3. CASE k # l
      BY <3>1, <3>3, <1>1, <1>3, <1>4, <2>1, <2>2 DEF LockInv, UpperOwned
    <3> QED
      BY <3>2, <3>3
  <2>3. ASSUME NEW d \in Calls, pc'[d] = "wait", lvl'[d] > 1
        PROVE  queue'[lvl'[d]] = <<d>>
    <3>1. CASE d = c
      BY <3>1, <1>3, <1>4
    <3>2. CASE d # c
      <4>1. pc[d] = "wait" /\ lvl[d] > 1
        BY <3>2, <1>4, <2>3
      <4>2. Admitted(d)
        BY <4>1 DEF Admitted
      <4> QED
        BY <3>2, <4>2, <1>1 DEF LockInv, HeadAdmitted, IsHead
    <3> QED
      BY <3>1, <3>2
  <2> QED
    BY <2>2, <2>3 DEF UpperOwned
<1>11. NeedCovers'
  BY <1>4 DEF LockInv, NeedCovers
<1> QED
  BY <1>8, <1>9, <1>10, <1>11 DEF LockParts

(***************************************************************************)
(* The head of the reader queue releases what it holds: every upper queue  *)
(* is empty afterwards, and the next in line is resolved.                  *)
(***************************************************************************)
LEMMA ReleaseHead ==
    ASSUME LockInv, TypeOK', NEW c \in Calls, Admitted(c), ReleaseLocks(c),
           need' = need
    PROVE  LockParts'
<1> DEFINE q == queue[1]
<1>1. q # <<>> /\ q[1] = c
  BY DEF LockInv, HeadAdmitted, IsHead
<1>2. need[c] \in 1..4 /\ lvl[c] \in 1..4 /\ lvl[c] <= need[c] /\ q \in Seq(Calls)
  BY DEF LockInv, TypeOK, Levels, NeedCovers
<1>3. \A k \in 1..4 : queue'[k] = IF k <= need[c] THEN Shift(queue[k]) ELSE queue[k]
  BY DEF ReleaseLocks, Levels
<1>4. q' = Shift(q)
  BY <1>2, <1>3
<1>5. /\ Len(q) \in Nat /\ Len(q) >= 1 /\ Len(q') = Len(q) - 1
      /\ \A i \in 1..Len(q') : q'[i] = q[i + 1]
  BY <1>1, <1>2, <1>4, ShiftType
<1>6. /\ pc'[c] = "done" /\ lvl' = lvl
      /\ \A d \in Calls : d # c => pc'[d] = pc[d]
  BY DEF LockInv, TypeOK, ReleaseLocks
<1>7. \A k \in 2..4 : queue'[k] = <<>>
  <2> SUFFICES ASSUME NEW k \in 2..4, queue[k] # <<>>
               PROVE  queue'[k] = <<>>
    BY <1>3 DEF Shift
  <2>1. Len(queue[k]) = 1 /\ k <= lvl[c]
    BY <1>1 DEF LockInv, UpperOwned
  <2>2. queue[k] \in Seq(Calls) /\ queue'[k] = Shift(queue[k])
    BY <1>2, <1>3, <2>1 DEF LockInv, TypeOK, Levels
  <2>3. queue'[k] \in Seq(Calls) /\ Len(queue'[k]) = 0
    BY <2>1, <2>2, ShiftType
  <2> QED
    BY <2>3
<1>8. \A d \in Calls : d # c => ~Admitted(d)
  BY <1>1 DEF LockInv, HeadAdmitted, IsHead
<1>9. \A d \in Calls : d # c /\ Admitted(d)' => q' # <<>> /\ q'[1] = d
  <2> SUFFICES ASSUME NEW d \in Calls, d # c, Admitted(d)'
               PROVE  q' # <<>> /\ q'[1] = d
    OBVIOUS
  <2>1. ~Admitted(d) /\ pc'[d] = pc[d] /\ lvl'[d] = lvl[d]
    BY <1>6, <1>8
  <2>2. pc[d] = "wait" /\ ~(lvl[d] > 1) /\ woken'[d] /\ ~woken[d]
    BY <2>1 DEF Admitted
  <2>3. lvl[d] = 1
    <3>1. lvl[d] \in 1..4
      BY DEF LockInv, TypeOK, Levels
    <3> QED
      BY <2>2, <3>1
  <2>4. queue'[lvl[d]] # <<>> /\ Head(queue'[lvl[d]]) = d
    BY <2>2 DEF ReleaseLocks
  <2>5. q' \in Seq(Calls)
    BY DEF TypeOK, Levels
  <2> QED
    BY <2>3, <2>4, <2>5
<1>10. \A d \in Calls : d # c => (InLine(d)' <=> InLine(d))
  BY <1>6 DEF InLine
<1>11. ~InLine(c)' /\ ~Admitted(c)'
  BY <1>6 DEF InLine, Admitted
<1>12. \A i \in 1..Len(q) : q[i] \in Calls
  BY <1>2
<1>13. \A i \in 1..Len(q') : i + 1 \in 1..Len(q) /\ q'[i] # c /\ q'[i] \in Calls
  <2> SUFFICES ASSUME NEW i \in 1..Len(q')
               PROVE  i + 1 \in 1..Len(q) /\ q'[i] # c /\ q'[i] \in Calls
    OBVIOUS
  <2>1. i + 1 \in 1..Len(q) /\ 1 \in 1..Len(q) /\ i + 1 # 1
    BY <1>5
  <2>2. q[i + 1] # q[1]
    BY <2>1 DEF LockInv, LineExact
  <2> QED
    BY <1>1, <1>5, <1>12, <2>1, <2>2
<1>14. LineExact'
  <2>1. (\A i \in 1..Len(q) : InLine(q[i]))'
    <3> SUFFICES ASSUME NEW i \in 1..Len(q') PROVE InLine(q[i])'
      OBVIOUS
    <3>1. InLine(q[i + 1])
      BY <1>13 DEF LockInv, LineExact
    <3> QED
      BY <3>1, <1>5, <1>10, <1>13
  <2>2. \A i, j \in 1..Len(q') : q'[i] = q'[j] => i = j
    <3> SUFFICES ASSUME NEW i \in 1..Len(q'), NEW j \in 1..Len(q'), q'[i] = q'[j]
                 PROVE  i = j
      OBVIOUS
    <3>1. i + 1 \in 1..Len(q) /\ j + 1 \in 1..Len(q) /\ q[i + 1] = q[j + 1]
      BY <1>5, <1>13
    <3>2. i + 1 = j + 1
      BY <3>1 DEF LockInv, LineExact
    <3> QED
      BY <3>2, <1>5
  <2>3. \A d \in Calls : InLine(d)' => \E i \in 1..Len(q') : q'[i] = d
    <3> SUFFICES ASSUME NEW d \in Calls, InLine(d)'
                 PROVE  \E i \in 1..Len(q') : q'[i] = d
      OBVIOUS
    <3>1. d # c /\ InLine(d)
      BY <1>10, <1>11
    <3>2. PICK i \in 1..Len(q) : q[i] = d
      BY <3>1 DEF LockInv, LineExact
    <3>3. i - 1 \in 1..Len(q') /\ q'[i - 1] = d
      BY <3>1, <3>2, <1>1, <1>5
    <3> QED
      BY <3>3
  <2> QED
    BY <2>1, <2>2, <2>3 DEF LineExact
<1>15. HeadAdmitted'
  BY <1>9, <1>11 DEF HeadAdmitted, IsHead
<1>16. UpperOwned'
  <2>1. ASSUME NEW d \in Calls, pc'[d] = "wait", lvl'[d] > 1
        PROVE  FALSE
    <3>1. d # c /\ pc[d] = "wait" /\ lvl[d] > 1
      BY <2>1, <1>6
    <3>2. Admitted(d)
      BY <3>1 DEF Admitted
    <3> QED
      BY <3>1, <3>2, <1>8
  <2> QED
    BY <1>7, <2>1 DEF UpperOwned
<1>17. NeedCovers'
  BY <1>6 DEF LockInv, NeedCovers
<1> QED
  BY <1>14, <1>15, <1>16, <1>17 DEF LockParts

(***************************************************************************)
(* A step that leaves the reader queue and who is in line alone.           *)
(***************************************************************************)
LEMMA SameLine ==
    ASSUME LockInv, TypeOK', NEW c \in Calls,
           queue' = queue, woken' = woken,
           \A d \in Calls : d # c => /\ pc'[d] = pc[d] /\ lvl'[d] = lvl[d]
                                     /\ need'[d] = need[d],
           InLine(c)' <=> InLine(c), Admitted(c)' => Admitted(c),
           IsHead(c) => /\ lvl[c] <= lvl'[c]
                        /\ pc'[c] = "avail" => pc[c] = "avail" \/ lvl[c] < lvl'[c],
           pc'[c] # "wait", lvl'[c] <= need'[c]
    PROVE  LockParts'
<1> DEFINE q == queue[1]
<1>1. \A d \in Calls : d # c => /\ InLine(d)' <=> InLine(d)
                                /\ Admitted(d)' <=> Admitted(d)
  BY DEF InLine, Admitted
<1>2. \A i \in 1..Len(q) : q[i] \in Calls
  BY DEF LockInv, TypeOK, Levels
<1>3. LineExact'
  <2>1. (\A i \in 1..Len(q) : InLine(q[i]))'
    BY <1>1, <1>2 DEF LockInv, LineExact
  <2>2. \A i, j \in 1..Len(q') : q'[i] = q'[j] => i = j
    BY DEF LockInv, LineExact
  <2>3. \A d \in Calls : InLine(d)' => \E i \in 1..Len(q') : q'[i] = d
    BY <1>1 DEF LockInv, LineExact
  <2> QED
    BY <2>1, <2>2, <2>3 DEF LineExact
<1>4. HeadAdmitted'
  BY <1>1 DEF LockInv, HeadAdmitted, IsHead
<1>5. UpperOwned'
  <2>1. ASSUME NEW l \in 2..4, queue'[l] # <<>>
        PROVE  /\ q' # <<>> /\ Len(queue'[l]) = 1 /\ l <= lvl'[q'[1]]
               /\ pc'[q'[1]] = "avail" => l < lvl'[q'[1]]
    <3>1. /\ q # <<>> /\ Len(queue[l]) = 1 /\ l <= lvl[q[1]]
          /\ pc[q[1]] = "avail" => l < lvl[q[1]]
      BY <2>1 DEF LockInv, UpperOwned
    <3>2. q[1] \in Calls
      BY <3>1, ShiftType DEF LockInv, TypeOK, Levels
    <3>3. lvl[q[1]] \in 1..4 /\ lvl'[q[1]] \in 1..4
      BY <3>2 DEF LockInv, TypeOK, Levels
    <3> QED
      BY <3>1, <3>2, <3>3 DEF IsHead
  <2>2. ASSUME NEW d \in Calls, pc'[d] = "wait", lvl'[d] > 1
        PROVE  queue'[lvl'[d]] = <<d>>
    BY <2>2 DEF LockInv, UpperOwned
  <2> QED
    BY <2>1, <2>2 DEF UpperOwned
<1>6. NeedCovers'
  BY DEF LockInv, NeedCovers
<1> QED
  BY <1>3, <1>4, <1>5, <1>6 DEF LockParts

(***************************************************************************)
(* LockInv is preserved by every step in which no acquisition throws.      *)
(***************************************************************************)
LEMMA LockInvStep ==
    ASSUME ~thrown', LockInv, TypeOK', [Next]_vars
    PROVE  LockInv'
<1> SUFFICES LockParts'
  BY DEF LockInv, LockParts
<1>a. \A c \in Calls : lvl[c] \in 1..4 /\ need[c] \in 1..4 /\ lvl[c] <= need[c]
  BY DEF LockInv, TypeOK, Levels, NeedCovers
<1>b. \A c \in Calls : InLine(c) => queue[1] # <<>>
  <2> SUFFICES ASSUME NEW c \in Calls, InLine(c) PROVE queue[1] # <<>>
    OBVIOUS
  <2>1. PICK i \in 1..Len(queue[1]) : queue[1][i] = c
    BY DEF LockInv, LineExact
  <2> QED
    BY <2>1
<1>c. \A c \in Calls : IsHead(c) => InLine(c)
  <2> SUFFICES ASSUME NEW c \in Calls, IsHead(c) PROVE InLine(c)
    OBVIOUS
  <2>1. 1 \in 1..Len(queue[1])
    BY ShiftType DEF IsHead, LockInv, TypeOK, Levels
  <2> QED
    BY <2>1 DEF IsHead, LockInv, LineExact
<1>1. ASSUME NEW c \in Calls, NEW d \in Levels, RunAs(c, d) PROVE LockParts'
  <2>1. /\ ~InLine(c) /\ need' = [need EXCEPT ![c] = d] /\ pc[c] = "idle"
        /\ GetActiveLock(c, 1)
    BY <1>1 DEF RunAs, InLine
  <2>2. \A e \in Calls : e # c => need'[e] = need[e]
    BY <2>1 DEF LockInv, TypeOK
  <2>3. CASE PushLock(c, 1)
    BY <2>1, <2>2, <2>3, PushFirst
  <2>4. CASE /\ pc' = [pc EXCEPT ![c] = "avail"] /\ lvl' = [lvl EXCEPT ![c] = 1]
             /\ UNCHANGED <<queue, woken>>
    <3>1. /\ pc'[c] = "avail" /\ lvl'[c] = 1 /\ need'[c] = d
          /\ \A e \in Calls : e # c => pc'[e] = pc[e] /\ lvl'[e] = lvl[e]
      BY <2>1, <2>4 DEF LockInv, TypeOK, Levels
    <3>2. ~InLine(c)' /\ ~Admitted(c)' /\ ~IsHead(c) /\ 1 <= d
      BY <2>1, <3>1, <1>c DEF InLine, Admitted, Levels
    <3> QED
      BY <2>1, <2>2, <2>4, <3>1, <3>2, SameLine
  <2> QED
    BY <2>1, <2>3, <2>4 DEF GetActiveLock
<1>2. ASSUME NEW c \in Calls, MadeAvailable(c) PROVE LockParts'
  <2>1. pc[c] = "avail" /\ PushLock(c, lvl[c]) /\ need' = need
    BY <1>2 DEF MadeAvailable
  <2>2. CASE lvl[c] = 1
    <3>1. ~InLine(c)
      BY <2>1, <2>2 DEF InLine
    <3> QED
      BY <2>1, <2>2, <3>1, PushFirst
  <2>3. CASE lvl[c] # 1
    <3>1. lvl[c] \in 2..4 /\ lvl[c] <= need[c] /\ lvl[c] > 1
      BY <2>3, <1>a
    <3>2. Admitted(c)
      BY <2>1, <3>1 DEF Admitted
    <3> QED
      BY <2>1, <3>1, <3>2, PushUpper
  <2> QED
    BY <2>2, <2>3
<1>3. ASSUME NEW c \in Calls, AcquireNext(c) PROVE LockParts'
  <2>1. /\ pc[c] = "wait" /\ woken[c] /\ lvl[c] < need[c] /\ need' = need
        /\ GetActiveLock(c, lvl[c] + 1)
    BY <1>3 DEF AcquireNext
  <2>2. lvl[c] + 1 \in 2..4 /\ lvl[c] + 1 <= need[c] /\ lvl[c] + 1 > 1
    BY <2>1, <1>a
  <2>3. Admitted(c) /\ InLine(c)
    BY <2>1 DEF Admitted, InLine
  <2>4. CASE PushLock(c, lvl[c] + 1)
    BY <2>1, <2>2, <2>3, <2>4, PushUpper
  <2>5. CASE /\ pc' = [pc EXCEPT ![c] = "avail"]
             /\ lvl' = [lvl EXCEPT ![c] = lvl[c] + 1]
             /\ UNCHANGED <<queue, woken>>
    <3>1. /\ pc'[c] = "avail" /\ lvl'[c] = lvl[c] + 1
          /\ \A e \in Calls : e # c => pc'[e] = pc[e] /\ lvl'[e] = lvl[e]
      BY <2>5 DEF LockInv, TypeOK
    <3>2. /\ InLine(c)' /\ lvl'[c] <= need'[c]
          /\ lvl[c] <= lvl'[c] /\ lvl[c] < lvl'[c]
      BY <2>1, <2>2, <3>1, <1>a DEF InLine
    <3> QED
      BY <2>1, <2>3, <2>5, <3>1, <3>2, SameLine
  <2> QED
    BY <2>1, <2>4, <2>5 DEF GetActiveLock
<1>4. ASSUME NEW c \in Calls, EnterCallback(c) \/ SwitchActive(c) PROVE LockParts'
  <2>1. /\ queue' = queue /\ woken' = woken /\ lvl' = lvl /\ need' = need
        /\ pc'[c] \in {"run", "switch"}
        /\ \A e \in Calls : e # c => pc'[e] = pc[e]
    BY <1>4 DEF EnterCallback, SwitchActive, LockInv, TypeOK
  <2>2. Admitted(c) /\ InLine(c)
    BY <1>4 DEF EnterCallback, SwitchActive, Admitted, InLine
  <2>3. InLine(c)' /\ pc'[c] # "wait" /\ pc'[c] # "avail" /\ lvl[c] <= lvl'[c]
        /\ lvl'[c] <= need'[c]
    BY <2>1, <1>a DEF InLine
  <2> QED
    BY <2>1, <2>2, <2>3, SameLine
<1>5. ASSUME NEW c \in Calls,
             GetActiveThrows(c) \/ LeaveCallback(c) \/ SwitchEnds(c)
      PROVE  LockParts'
  <2>1. ReleaseLocks(c) /\ need' = need /\ Admitted(c)
    BY <1>5 DEF GetActiveThrows, LeaveCallback, SwitchEnds, Admitted
  <2> QED
    BY <2>1, ReleaseHead
<1>6. CASE queue' = queue /\ pc' = pc /\ need' = need /\ lvl' = lvl /\ woken' = woken
  BY <1>6 DEF LockInv, LockParts, LineExact, HeadAdmitted, UpperOwned, NeedCovers,
              InLine, Admitted, IsHead
<1>7. ASSUME NEW c \in Calls, AvailabilityThrown(c) PROVE FALSE
  BY <1>7 DEF AvailabilityThrown
<1>8. ASSUME NEW p \in Providers, AddProvider(p) \/ ProviderAdded(p) PROVE LockParts'
  BY <1>8, <1>6 DEF AddProvider, ProviderAdded
<1>9. CASE GetAuth \/ UNCHANGED vars
  BY <1>9, <1>6 DEF GetAuth, vars
<1> QED
  BY <1>1, <1>2, <1>3, <1>4, <1>5, <1>7, <1>8, <1>9 DEF Next, Step

(***************************************************************************)
(* A throw is remembered.                                                  *)
(***************************************************************************)
LEMMA ThrownStays ==
    ASSUME TypeOK, thrown, [Next]_vars
    PROVE  thrown'
BY DEF Next, Step, RunAs, MadeAvailable, AvailabilityThrown, AcquireNext, EnterCallback,
       GetActiveThrows, LeaveCallback, SwitchActive, SwitchEnds, AddProvider,
       ProviderAdded, GetAuth, vars

(***************************************************************************)
(* LockInv holds in every behaviour until an acquisition throws.           *)
(***************************************************************************)
LEMMA LockInvHolds == Spec => [](~thrown => LockInv)
<1>1. Init => LockInv
  <2> SUFFICES ASSUME Init PROVE LockInv
    OBVIOUS
  <2>1. TypeOK
    <3>1. <<>> \in Seq(Calls) /\ 1 \in Levels /\ "idle" \in Places
      BY DEF Levels, Places
    <3> QED
      BY <3>1 DEF Init, TypeOK
  <2>2. \A c \in Calls : ~InLine(c) /\ ~Admitted(c) /\ lvl[c] = 1 /\ need[c] = 1
                         /\ pc[c] = "idle"
    BY DEF Init, InLine, Admitted
  <2>3. \A l \in 1..4 : queue[l] = <<>>
    BY DEF Init, Levels
  <2>4. Len(queue[1]) = 0
    BY <2>3
  <2> QED
    BY <2>1, <2>2, <2>3, <2>4
       DEF LockInv, LineExact, HeadAdmitted, UpperOwned, NeedCovers
<1>2. (~thrown => LockInv) /\ TypeOK /\ TypeOK' /\ [Next]_vars
        => (~thrown => LockInv)'
  BY LockInvStep, ThrownStays
<1>3. Spec => []TypeOK
  BY TypeCorrect
<1> QED
  BY <1>1, <1>2, <1>3, PTL DEF Spec

(***************************************************************************)
(* The callbacks of runAsReader, runAsWriter, runAsSync and                *)
(* runAsStorageProvider exclude each other, for any number of calls and    *)
(* however often the manager becomes unavailable in between.               *)
(***************************************************************************)
THEOREM CallbacksExclude == Spec => []MutualExclusion
<1>1. (~thrown => LockInv) => MutualExclusion
  <2> SUFFICES ASSUME LockInv, NEW c \in Calls, NEW d \in Calls,
                      InCallback(c), InCallback(d)
               PROVE  c = d
    BY DEF MutualExclusion
  <2>1. IsHead(c) /\ IsHead(d)
    BY DEF LockInv, HeadAdmitted, Admitted, InCallback
  <2> QED
    BY <2>1 DEF IsHead
<1> QED
  BY <1>1, LockInvHolds, PTL

(***************************************************************************)
(* No waiting call is dropped from the queue it waits in, so the release   *)
(* that must resolve its promise will find it.                             *)
(***************************************************************************)
THEOREM WaitersKept == Spec => []NoLostWaiter
<1>1. (~thrown => LockInv) => NoLostWaiter
  <2> SUFFICES ASSUME LockInv, NEW c \in Calls, pc[c] = "wait"
               PROVE  \E i \in DOMAIN queue[lvl[c]] : queue[lvl[c]][i] = c
    BY DEF NoLostWaiter
  <2>1. lvl[c] \in 1..4 /\ queue[1] \in Seq(Calls)
    BY DEF LockInv, TypeOK, Levels
  <2>2. CASE lvl[c] = 1
    <3>1. PICK i \in 1..Len(queue[1]) : queue[1][i] = c
      BY DEF LockInv, LineExact, InLine
    <3> QED
      BY <2>1, <2>2, <3>1
  <2>3. CASE lvl[c] > 1
    <3>1. queue[lvl[c]] = <<c>>
      BY <2>3 DEF LockInv, UpperOwned
    <3> QED
      BY <3>1
  <2> QED
    BY <2>1, <2>2, <2>3
<1> QED
  BY <1>1, LockInvHolds, PTL

(***************************************************************************)
(* The writer, sync and provider queues never hold more than one resolver  *)
(* until an acquisition throws.                                            *)
(***************************************************************************)
THEOREM UpperQueuesFree == Spec => []UpperLocksUncontended
<1>1. (~thrown => LockInv) => UpperLocksUncontended
  <2> SUFFICES ASSUME LockInv, NEW l \in 2..4 PROVE Len(queue[l]) <= 1
    BY DEF UpperLocksUncontended, Levels
  <2>1. CASE queue[l] = <<>>
    BY <2>1
  <2>2. CASE queue[l] # <<>>
    <3>1. Len(queue[l]) = 1
      BY <2>2 DEF LockInv, UpperOwned
    <3> QED
      BY <3>1
  <2> QED
    BY <2>1, <2>2
<1> QED
  BY <1>1, LockInvHolds, PTL

-----------------------------------------------------------------------------
(***************************************************************************)
(* The calls that have pushed a resolver on queue l and not yet released   *)
(* it: whatever was thrown, their releases are still to come.              *)
(***************************************************************************)
Owes(l) ==
    {c \in Calls : \/ pc[c] \in {"wait", "run", "switch"} /\ l <= lvl[c]
                   \/ pc[c] = "avail" /\ l < lvl[c]}

\* No queue holds more resolvers than there are releases to come.
ReleasesSuffice ==
    \A l \in Levels : IsFiniteSet(Owes(l)) /\ Len(queue[l]) <= Cardinality(Owes(l))

ReleaseInv == TypeOK /\ NeedCovers /\ ReleasesSuffice

\* One call more, or one call less, owes a release.
LEMMA OneMore ==
    ASSUME NEW S, NEW x, IsFiniteSet(S), x \notin S
    PROVE  IsFiniteSet(S \cup {x}) /\ Cardinality(S \cup {x}) = Cardinality(S) + 1
           /\ Cardinality(S) \in Nat
BY FS_AddElement, FS_CardinalityType

LEMMA OneLess ==
    ASSUME NEW S, NEW x, IsFiniteSet(S)
    PROVE  /\ IsFiniteSet(S \ {x}) /\ Cardinality(S) \in Nat
           /\ Cardinality(S \ {x}) \in {Cardinality(S), Cardinality(S) - 1}
BY FS_RemoveElement, FS_CardinalityType

\* A push and the release it makes due.
LEMMA PushOwes ==
    ASSUME ReleaseInv, NEW c \in Calls, NEW l \in Levels, PushLock(c, l),
           \/ pc[c] = "idle" /\ l = 1
           \/ pc[c] = "avail" /\ lvl[c] = l
           \/ pc[c] = "wait" /\ lvl[c] + 1 = l
    PROVE  ReleasesSuffice'
<1>1. /\ queue' = [queue EXCEPT ![l] = Append(@, c)] /\ queue[l] \in Seq(Calls)
      /\ pc' = [pc EXCEPT ![c] = "wait"] /\ lvl' = [lvl EXCEPT ![c] = l]
      /\ lvl[c] \in 1..4 /\ l \in 1..4
  BY DEF PushLock, ReleaseInv, TypeOK, Levels
<1>2. c \notin Owes(l) /\ Owes(l)' = Owes(l) \cup {c}
  BY <1>1 DEF Owes, ReleaseInv, TypeOK, Levels
<1>3. \A m \in 1..4 : m # l => Owes(m)' = Owes(m)
  BY <1>1 DEF Owes, ReleaseInv, TypeOK, Levels
<1> SUFFICES ASSUME NEW m \in 1..4
             PROVE  IsFiniteSet(Owes(m)') /\ Len(queue'[m]) <= Cardinality(Owes(m)')
  BY DEF ReleasesSuffice, Levels
<1>4. CASE m = l
  <2>1. Len(queue'[l]) = Len(queue[l]) + 1 /\ Len(queue[l]) \in Nat
    BY <1>1 DEF ReleaseInv, TypeOK, Levels
  <2>2. IsFiniteSet(Owes(l)) /\ Len(queue[l]) <= Cardinality(Owes(l))
    BY DEF ReleaseInv, ReleasesSuffice
  <2>3. /\ IsFiniteSet(Owes(l) \cup {c}) /\ Cardinality(Owes(l)) \in Nat
        /\ Cardinality(Owes(l) \cup {c}) = Cardinality(Owes(l)) + 1
    BY <1>2, <2>2, OneMore
  <2>4. IsFiniteSet(Owes(l)') /\ Cardinality(Owes(l)') = Cardinality(Owes(l)) + 1
    BY <1>2, <2>3, Zenon
  <2>5. Len(queue'[l]) <= Cardinality(Owes(l)')
    BY <2>1, <2>2, <2>3, <2>4
  <2> QED
    BY <1>4, <2>4, <2>5, Zenon
<1>5. CASE m # l
  BY <1>1, <1>3, <1>5 DEF ReleaseInv, ReleasesSuffice, TypeOK, Levels
<1> QED
  BY <1>4, <1>5

\* A release, which shifts whatever is at the head, pays what the call owes.
LEMMA ReleaseOwes ==
    ASSUME ReleaseInv, NEW c \in Calls, ReleaseLocks(c)
    PROVE  ReleasesSuffice'
<1>1. /\ queue' = [l \in Levels |-> IF l <= need[c] THEN Shift(queue[l]) ELSE queue[l]]
      /\ pc' = [pc EXCEPT ![c] = "done"] /\ lvl' = lvl
      /\ lvl[c] \in 1..4 /\ need[c] \in 1..4 /\ lvl[c] <= need[c]
  BY DEF ReleaseLocks, ReleaseInv, TypeOK, NeedCovers, Levels
<1>2. \A m \in 1..4 : Owes(m)' = Owes(m) \ {c}
  BY <1>1 DEF Owes, ReleaseInv, TypeOK, Levels
<1> SUFFICES ASSUME NEW m \in 1..4
             PROVE  IsFiniteSet(Owes(m)') /\ Len(queue'[m]) <= Cardinality(Owes(m)')
  BY DEF ReleasesSuffice, Levels
<1>3. /\ IsFiniteSet(Owes(m)) /\ Len(queue[m]) <= Cardinality(Owes(m))
      /\ queue[m] \in Seq(Calls)
  BY DEF ReleaseInv, ReleasesSuffice, TypeOK, Levels
<1>4. /\ IsFiniteSet(Owes(m) \ {c}) /\ Cardinality(Owes(m)) \in Nat
      /\ Cardinality(Owes(m) \ {c}) \in {Cardinality(Owes(m)), Cardinality(Owes(m)) - 1}
  BY <1>3, OneLess
<1>7. /\ IsFiniteSet(Owes(m)')
      /\ Cardinality(Owes(m)') \in {Cardinality(Owes(m)), Cardinality(Owes(m)) - 1}
      /\ Cardinality(Owes(m)') \in Nat
  <2>1. Owes(m)' = Owes(m) \ {c} /\ Cardinality(Owes(m) \ {c}) \in Nat
    BY <1>2, <1>4, FS_CardinalityType, Zenon
  <2> QED
    BY <1>4, <2>1, Zenon
<1>5. CASE m <= need[c]
  <2>1. queue'[m] = Shift(queue[m])
    BY <1>1, <1>5 DEF Levels
  <2>2. CASE queue[m] = <<>>
    <3>1. Len(queue'[m]) = 0
      BY <2>1, <2>2 DEF Shift
    <3> QED
      BY <1>7, <3>1
  <2>3. CASE queue[m] # <<>>
    <3>1. Len(queue'[m]) = Len(queue[m]) - 1 /\ Len(queue[m]) \in Nat
      BY <2>1, <2>3, <1>3, ShiftType
    <3> QED
      BY <1>3, <1>4, <1>7, <3>1
  <2> QED
    BY <2>2, <2>3
<1>6. CASE m > need[c]
  <2>1. queue'[m] = queue[m]
    BY <1>1, <1>6 DEF Levels
  <2>2. c \notin Owes(m)
    BY <1>1, <1>6 DEF Owes
  <2>3. Owes(m) \ {c} = Owes(m)
    BY <2>2
  <2> QED
    BY <1>2, <1>3, <2>1, <2>3
<1> QED
  BY <1>1, <1>5, <1>6

\* ReleasesSuffice is preserved by every step, one that throws included.
LEMMA ReleaseInvStep ==
    ASSUME ReleaseInv, TypeOK', [Next]_vars
    PROVE  ReleaseInv'
<1>a. \A c \in Calls : lvl[c] \in 1..4 /\ need[c] \in 1..4 /\ lvl[c] <= need[c]
  BY DEF ReleaseInv, TypeOK, NeedCovers, Levels
<1>b. ASSUME NEW c \in Calls, NEW l \in Levels, GetActiveLock(c, l),
             (pc[c] = "idle" /\ l = 1) \/ (pc[c] = "wait" /\ lvl[c] + 1 = l)
      PROVE  ReleasesSuffice'
  <2>1. CASE PushLock(c, l)
    BY <1>b, <2>1, PushOwes
  <2>2. CASE ~PushLock(c, l)
    <3>1. queue' = queue /\ pc' = [pc EXCEPT ![c] = "avail"] /\ lvl' = [lvl EXCEPT ![c] = l]
      BY <1>b, <2>2 DEF GetActiveLock
    <3>2. /\ pc'[c] = "avail" /\ lvl'[c] = l
          /\ \A e \in Calls : e # c => pc'[e] = pc[e] /\ lvl'[e] = lvl[e]
      BY <3>1 DEF ReleaseInv, TypeOK
    <3>3. \A m \in 1..4 : c \in Owes(m)' <=> c \in Owes(m)
      BY <1>a, <1>b, <3>2 DEF Owes, Levels
    <3>4. \A m \in 1..4 : \A e \in Calls : e \in Owes(m)' <=> e \in Owes(m)
      BY <3>2, <3>3 DEF Owes
    <3>5. \A m \in 1..4 : Owes(m)' = Owes(m)
      BY <3>4 DEF Owes
    <3> QED
      BY <3>1, <3>5 DEF ReleaseInv, ReleasesSuffice, Levels
  <2> QED
    BY <2>1, <2>2
<1>c. ASSUME queue' = queue, \A m \in 1..4 : Owes(m)' = Owes(m) PROVE ReleasesSuffice'
  BY <1>c DEF ReleaseInv, ReleasesSuffice, Levels
<1>1. ASSUME NEW c \in Calls, NEW d \in Levels, RunAs(c, d)
      PROVE  ReleasesSuffice' /\ NeedCovers'
  <2>1. pc[c] = "idle" /\ GetActiveLock(c, 1) /\ need' = [need EXCEPT ![c] = d] /\ 1 \in Levels
    BY <1>1 DEF RunAs, Levels
  <2>2. lvl' = [lvl EXCEPT ![c] = 1]
    BY <2>1 DEF GetActiveLock, PushLock
  <2>3. ReleasesSuffice'
    <3>1. ASSUME NEW l \in Levels, l = 1 PROVE ReleasesSuffice'
      <4>1. pc[c] = "idle" /\ GetActiveLock(c, l)
        BY <2>1, <3>1, Zenon
      <4>2. (pc[c] = "idle" /\ l = 1) \/ (pc[c] = "wait" /\ lvl[c] + 1 = l)
        BY <3>1, <4>1, Zenon
      <4> QED
        BY <1>b, <4>1, <4>2
    <3> QED
      BY <2>1, <3>1, Zenon
  <2>4. NeedCovers'
    BY <1>a, <2>1, <2>2 DEF NeedCovers, ReleaseInv, TypeOK, Levels
  <2> QED
    BY <2>3, <2>4
<1>2. ASSUME NEW c \in Calls, MadeAvailable(c) PROVE ReleasesSuffice' /\ NeedCovers'
  <2>1. pc[c] = "avail" /\ PushLock(c, lvl[c]) /\ need' = need /\ lvl[c] \in Levels
    BY <1>2, <1>a DEF MadeAvailable, Levels
  <2>2. lvl' = lvl
    BY <2>1 DEF PushLock, ReleaseInv, TypeOK
  <2>3. ReleasesSuffice'
    BY <2>1, PushOwes
  <2> QED
    BY <1>a, <2>1, <2>2, <2>3 DEF NeedCovers
<1>3. ASSUME NEW c \in Calls, AcquireNext(c) PROVE ReleasesSuffice' /\ NeedCovers'
  <2>1. /\ pc[c] = "wait" /\ lvl[c] < need[c] /\ GetActiveLock(c, lvl[c] + 1)
        /\ need' = need /\ lvl[c] + 1 \in Levels
    BY <1>3, <1>a DEF AcquireNext, Levels
  <2>2. lvl' = [lvl EXCEPT ![c] = lvl[c] + 1]
    BY <2>1 DEF GetActiveLock, PushLock
  <2>3. ReleasesSuffice'
    BY <1>b, <2>1
  <2>4. lvl[c] + 1 <= need[c]
    BY <1>a, <2>1
  <2>5. \A e \in Calls : lvl'[e] = IF e = c THEN lvl[c] + 1 ELSE lvl[e]
    BY <2>2 DEF ReleaseInv, TypeOK
  <2>6. NeedCovers'
    BY <1>a, <2>1, <2>4, <2>5 DEF NeedCovers
  <2> QED
    BY <2>3, <2>6
<1>4. ASSUME NEW c \in Calls, EnterCallback(c) \/ SwitchActive(c)
      PROVE  ReleasesSuffice' /\ NeedCovers'
  <2>1. /\ queue' = queue /\ lvl' = lvl /\ need' = need /\ pc[c] \in {"wait", "run"}
        /\ pc' \in {[pc EXCEPT ![c] = "run"], [pc EXCEPT ![c] = "switch"]}
    BY <1>4 DEF EnterCallback, SwitchActive
  <2>2. \A m \in 1..4 : Owes(m)' = Owes(m)
    BY <2>1 DEF Owes, ReleaseInv, TypeOK
  <2> QED
    BY <1>a, <1>c, <2>1, <2>2 DEF NeedCovers
<1>5. ASSUME NEW c \in Calls,
             \/ AvailabilityThrown(c) \/ GetActiveThrows(c)
             \/ LeaveCallback(c) \/ SwitchEnds(c)
      PROVE  ReleasesSuffice' /\ NeedCovers'
  <2>1. ReleaseLocks(c) /\ need' = need
    BY <1>5 DEF AvailabilityThrown, GetActiveThrows, LeaveCallback, SwitchEnds
  <2>2. lvl' = lvl
    BY <2>1 DEF ReleaseLocks
  <2> QED
    BY <1>a, <2>1, <2>2, ReleaseOwes DEF NeedCovers
<1>6. ASSUME queue' = queue, pc' = pc, need' = need, lvl' = lvl
      PROVE  ReleasesSuffice' /\ NeedCovers'
  <2>1. \A m \in 1..4 : Owes(m)' = Owes(m)
    BY <1>6 DEF Owes
  <2> QED
    BY <1>6, <1>a, <1>c, <2>1 DEF NeedCovers
<1>7. ASSUME NEW p \in Providers, AddProvider(p) \/ ProviderAdded(p)
      PROVE  ReleasesSuffice' /\ NeedCovers'
  BY <1>6, <1>7 DEF AddProvider, ProviderAdded
<1>8. ASSUME GetAuth \/ UNCHANGED vars PROVE ReleasesSuffice' /\ NeedCovers'
  BY <1>6, <1>8 DEF GetAuth, vars
<1> QED
  BY <1>1, <1>2, <1>3, <1>4, <1>5, <1>7, <1>8 DEF ReleaseInv, Next, Step

(***************************************************************************)
(* Once no call is under way every queue is empty, also when acquisitions  *)
(* have thrown and releases have shifted the resolvers of other calls.     *)
(***************************************************************************)
THEOREM NothingLeaked == Spec => []NoLockLeaked
<1>1. Init => ReleaseInv
  <2> SUFFICES ASSUME Init PROVE ReleaseInv
    OBVIOUS
  <2>1. TypeOK
    <3>1. <<>> \in Seq(Calls) /\ 1 \in Levels /\ "idle" \in Places
      BY DEF Levels, Places
    <3> QED
      BY <3>1 DEF Init, TypeOK
  <2>2. \A l \in Levels : Owes(l) = {} /\ Len(queue[l]) = 0
    BY DEF Init, Owes, Levels
  <2>3. IsFiniteSet({}) /\ Cardinality({}) = 0
    BY FS_EmptySet
  <2>4. \A c \in Calls : lvl[c] = 1 /\ need[c] = 1
    BY DEF Init
  <2>5. NeedCovers
    <3>1. \A n \in {1} : n <= n
      OBVIOUS
    <3> QED
      BY <2>4, <3>1 DEF NeedCovers
  <2>6. \A l \in Levels : IsFiniteSet(Owes(l)) /\ Cardinality(Owes(l)) = 0
    BY <2>2, <2>3, Zenon
  <2>7. ReleasesSuffice
    BY <2>2, <2>6 DEF ReleasesSuffice
  <2> QED
    BY <2>1, <2>5, <2>7 DEF ReleaseInv
<1>2. ReleaseInv /\ TypeOK' /\ [Next]_vars => ReleaseInv'
  BY ReleaseInvStep
<1>3. ReleaseInv => NoLockLeaked
  <2> SUFFICES ASSUME ReleaseInv, \A c \in Calls : pc[c] \in {"idle", "done"},
                      NEW l \in Levels
               PROVE  queue[l] = <<>>
    BY DEF NoLockLeaked
  <2>1. Owes(l) = {}
    BY DEF Owes
  <2>2. Cardinality(Owes(l)) = 0
    BY <2>1, FS_EmptySet
  <2>3. Len(queue[l]) <= 0 /\ queue[l] \in Seq(Calls)
    BY <2>2 DEF ReleaseInv, ReleasesSuffice, TypeOK
  <2> QED
    BY <2>3
<1> QED
  BY <1>1, <1>2, <1>3, TypeCorrect, PTL DEF Spec

-----------------------------------------------------------------------------
\* The steps of the locks are steps of the line they implement.
LEMMA LineStep ==
    ASSUME ~thrown, ~thrown', LockInv, LockInv', [Next]_vars
    PROVE  [Line!Next]_(Line!lineVars)
<1> USE DEF Line!lineVars, Waiters
<1>0. thrown = FALSE /\ thrown' = FALSE
  BY DEF LockInv, TypeOK
<1>1. ASSUME NEW c \in Calls, PushLock(c, 1), pc[c] \in {"idle", "avail"}, ~InLine(c)
      PROVE  Line!Next
  <2>1. queue'[1] = Append(queue[1], c) /\ pc' = [pc EXCEPT ![c] = "wait"]
    BY <1>1 DEF PushLock, LockInv, TypeOK, Levels
  <2>2. Served' = Served /\ Ended' = Ended /\ c \notin Ended
    BY <1>1, <2>1 DEF Served, Ended, InCallback, LockInv, TypeOK
  <2>3. \A i \in DOMAIN queue[1] : queue[1][i] # c
    <3>1. queue[1] \in Seq(Calls)
      BY DEF LockInv, TypeOK, Levels
    <3> QED
      BY <1>1, <3>1 DEF LockInv, LineExact
  <2> QED
    BY <1>0, <2>1, <2>2, <2>3 DEF Line!Next, Line!Join
<1>2. ASSUME NEW c \in Calls, ReleaseLocks(c), Admitted(c)
      PROVE  Line!Next
  <2>1. IsHead(c) /\ queue[1] \in Seq(Calls) /\ need[c] \in 1..4
    BY <1>2 DEF LockInv, HeadAdmitted, TypeOK, Levels
  <2>2. queue'[1] = Tail(queue[1]) /\ pc' = [pc EXCEPT ![c] = "done"]
    BY <1>2, <2>1 DEF ReleaseLocks, Levels, Shift, IsHead
  <2>3. queue[1] # <<>> /\ Head(queue[1]) = c
    BY <2>1 DEF IsHead
  <2>4. Served \subseteq {c}
    BY <2>1 DEF Served, InCallback, LockInv, HeadAdmitted, Admitted, IsHead
  <2>5. Served' = {} /\ Ended' = Ended \cup {c}
    BY <2>2, <2>4 DEF Served, Ended, InCallback, LockInv, TypeOK
  <2> QED
    BY <1>0, <2>2, <2>3, <2>4, <2>5 DEF Line!Next, Line!Leave
<1>3. ASSUME NEW c \in Calls, EnterCallback(c) PROVE Line!Next
  <2>1. Admitted(c) /\ pc[c] = "wait" /\ pc' = [pc EXCEPT ![c] = "run"] /\ queue' = queue
    BY <1>3 DEF EnterCallback, Admitted
  <2>2. IsHead(c) /\ queue[1] \in Seq(Calls)
    BY <2>1 DEF LockInv, HeadAdmitted, TypeOK, Levels
  <2>3. Served \subseteq {c} /\ c \notin Served
    BY <2>1, <2>2 DEF Served, InCallback, LockInv, HeadAdmitted, Admitted, IsHead
  <2>4. Served = {} /\ Served' = {c} /\ Ended' = Ended
    BY <2>1, <2>3 DEF Served, Ended, InCallback, LockInv, TypeOK
  <2>5. queue[1] # <<>> /\ Head(queue[1]) = c
    BY <2>2 DEF IsHead
  <2> QED
    BY <1>0, <2>1, <2>4, <2>5 DEF Line!Next, Line!Enter
<1>4. ASSUME queue'[1] = queue[1], Served' = Served, Ended' = Ended
      PROVE  UNCHANGED Line!lineVars
  BY <1>0, <1>4
<1>5. ASSUME NEW c \in Calls, NEW l \in Levels, GetActiveLock(c, l), ~PushLock(c, l),
             pc[c] \in {"idle", "wait"}
      PROVE  UNCHANGED Line!lineVars
  <2>1. queue' = queue /\ pc' = [pc EXCEPT ![c] = "avail"]
    BY <1>5 DEF GetActiveLock
  <2> QED
    BY <1>5, <2>1, <1>4 DEF Served, Ended, InCallback, LockInv, TypeOK
<1>6. ASSUME NEW c \in Calls, NEW l \in 2..4, PushLock(c, l),
             pc[c] \in {"avail", "wait"}
      PROVE  UNCHANGED Line!lineVars
  <2>1. queue'[1] = queue[1] /\ pc' = [pc EXCEPT ![c] = "wait"]
    BY <1>6 DEF PushLock, LockInv, TypeOK, Levels
  <2> QED
    BY <1>6, <2>1, <1>4 DEF Served, Ended, InCallback, LockInv, TypeOK
<1>7. ASSUME NEW c \in Calls, NEW d \in Levels, RunAs(c, d)
      PROVE  [Line!Next]_(Line!lineVars)
  <2>1. pc[c] = "idle" /\ GetActiveLock(c, 1) /\ 1 \in Levels /\ ~InLine(c)
    BY <1>7 DEF RunAs, Levels, InLine
  <2> QED
    BY <2>1, <1>1, <1>5
<1>8. ASSUME NEW c \in Calls, MadeAvailable(c)
      PROVE  [Line!Next]_(Line!lineVars)
  <2>1. pc[c] = "avail" /\ PushLock(c, lvl[c]) /\ lvl[c] \in 1..4
    BY <1>8 DEF MadeAvailable, LockInv, TypeOK, Levels
  <2>2. CASE lvl[c] = 1
    <3>1. ~InLine(c)
      BY <2>1, <2>2 DEF InLine
    <3> QED
      BY <2>1, <2>2, <3>1, <1>1
  <2>3. CASE lvl[c] \in 2..4
    BY <2>1, <2>3, <1>6
  <2> QED
    BY <2>1, <2>2, <2>3
<1>9. ASSUME NEW c \in Calls, AcquireNext(c)
      PROVE  [Line!Next]_(Line!lineVars)
  <2>1. pc[c] = "wait" /\ GetActiveLock(c, lvl[c] + 1) /\ lvl[c] < need[c]
    BY <1>9 DEF AcquireNext
  <2>2. lvl[c] \in 1..4 /\ need[c] \in 1..4
    BY DEF LockInv, TypeOK, Levels
  <2>3. lvl[c] + 1 \in 2..4 /\ lvl[c] + 1 \in Levels
    BY <2>1, <2>2 DEF Levels
  <2> QED
    BY <2>1, <2>3, <1>5, <1>6
<1>10. ASSUME NEW c \in Calls,
              GetActiveThrows(c) \/ LeaveCallback(c) \/ SwitchEnds(c)
       PROVE  Line!Next
  <2>1. ReleaseLocks(c) /\ Admitted(c)
    BY <1>10 DEF GetActiveThrows, LeaveCallback, SwitchEnds, Admitted
  <2> QED
    BY <2>1, <1>2
<1>11. ASSUME NEW c \in Calls, SwitchActive(c)
       PROVE  UNCHANGED Line!lineVars
  <2>1. queue' = queue /\ pc[c] = "run" /\ pc' = [pc EXCEPT ![c] = "switch"]
    BY <1>11 DEF SwitchActive
  <2> QED
    BY <2>1, <1>4 DEF Served, Ended, InCallback, LockInv, TypeOK
<1>12. ASSUME queue' = queue, pc' = pc
       PROVE  UNCHANGED Line!lineVars
  BY <1>12, <1>4 DEF Served, Ended, InCallback
<1>13. ASSUME NEW p \in Providers, AddProvider(p) \/ ProviderAdded(p)
       PROVE  UNCHANGED Line!lineVars
  BY <1>13, <1>12 DEF AddProvider, ProviderAdded
<1>14. CASE GetAuth \/ UNCHANGED vars
  BY <1>14, <1>12 DEF GetAuth, vars
<1>15. ASSUME NEW c \in Calls, AvailabilityThrown(c) PROVE FALSE
  BY <1>15 DEF AvailabilityThrown
<1> QED
  BY <1>3, <1>7, <1>8, <1>9, <1>10, <1>11, <1>13, <1>14, <1>15 DEF Next, Step

(***************************************************************************)
(* The four queues together behave as one line served in the order in      *)
(* which the calls pushed their reader resolver (FifoLine): no access      *)
(* overtakes another, whatever its kind.                                   *)
(***************************************************************************)
THEOREM LocksImplementLine == Spec => ImplementsLine
<1>1. Init => Line!Init
  <2> SUFFICES ASSUME Init PROVE Line!Init
    OBVIOUS
  <2>1. queue[1] = <<>> /\ ~thrown /\ \A c \in Calls : pc[c] = "idle"
    BY DEF Init, Levels
  <2> QED
    BY <2>1 DEF Init, Line!Init, Waiters, Served, Ended, InCallback
<1>2. ASSUME TypeOK, TypeOK', ~thrown => LockInv, (~thrown => LockInv)', [Next]_vars
      PROVE  [Line!Next]_(Line!lineVars)
  <2>1. CASE ~thrown'
    BY <1>2, <2>1, LineStep, ThrownStays
  <2>2. CASE thrown'
    <3>1. Waiters' = <<>> /\ Served' = {} /\ Ended' = {} /\ thrown' = TRUE
      BY <1>2, <2>2 DEF TypeOK, Waiters, Served, Ended
    <3> QED
      BY <3>1 DEF Line!Next, Line!Close
  <2> QED
    BY <2>1, <2>2
<1> QED
  BY <1>1, <1>2, LockInvHolds, TypeCorrect, PTL DEF Spec, ImplementsLine, Line!Spec
=============================================================================
