---------------------------- MODULE StorageLocks ----------------------------
(***************************************************************************)
(* The access locks of WalletStorageManager.                               *)
(*                                                                         *)
(* Every access to the managed stores goes through runAsReader,            *)
(* runAsWriter, runAsSync or runAsStorageProvider.  Each takes the first   *)
(* 1, 2, 3 or 4 of four FIFO queues of promise resolvers (readerLocks,     *)
(* writerLocks, syncLocks, spLocks), runs its callback and releases the    *)
(* same queues in reverse order in a `finally`.  The acquisition of each   *)
(* queue first awaits makeAvailable() when the manager is not available,   *)
(* and that may throw.                                                     *)
(*                                                                         *)
(* An asynchronous call is a process: it runs without interruption from    *)
(* one await to the next, and each such stretch is one action.             *)
(***************************************************************************)
EXTENDS Naturals, Sequences

CONSTANTS
    Calls,       \* the runAs... calls made on one manager, each made once
    Providers    \* the providers passed to addWalletStorageProvider

(***************************************************************************)
(* The four queues, and how many of them each kind of access takes.        *)
(***************************************************************************)
Levels == 1..4
Sync == 3
StorageProvider == 4

VARIABLES
    queue,        \* queue[l]: the resolvers waiting for, or holding, lock l
    pc,           \* where each call is
    need,         \* need[c]: the number of queues call c takes
    lvl,          \* lvl[c]: the queue call c is acquiring, or the last it took
    woken,        \* woken[c]: the promise call c awaits has been resolved
    isAvailable,  \* the manager's _isAvailable flag
    adding,       \* progress of each addWalletStorageProvider call
    thrown        \* (history) makeAvailable has thrown inside an acquisition

vars == <<queue, pc, need, lvl, woken, isAvailable, adding, thrown>>

(***************************************************************************)
(* idle: not made yet; avail: awaits makeAvailable inside getActiveLock;   *)
(* wait: awaits the promise it pushed; run: its callback runs; switch: its *)
(* callback is setActive's and awaits makeAvailable; done: it returned or  *)
(* threw.                                                                  *)
(***************************************************************************)
Places == {"idle", "avail", "wait", "run", "switch", "done"}

InCallback(c) == pc[c] \in {"run", "switch"}

TypeOK ==
    /\ queue \in [Levels -> Seq(Calls)]
    /\ pc \in [Calls -> Places]
    /\ need \in [Calls -> Levels]
    /\ lvl \in [Calls -> Levels]
    /\ woken \in [Calls -> BOOLEAN]
    /\ isAvailable \in BOOLEAN
    /\ adding \in [Providers -> {"idle", "avail", "done"}]
    /\ thrown \in BOOLEAN

\* makeAvailable has not run yet when the manager has been constructed.
Init ==
    /\ queue = [l \in Levels |-> <<>>]
    /\ pc = [c \in Calls |-> "idle"]
    /\ need = [c \in Calls |-> 1]
    /\ lvl = [c \in Calls |-> 1]
    /\ woken = [c \in Calls |-> FALSE]
    /\ isAvailable = FALSE
    /\ adding = [p \in Providers |-> "idle"]
    /\ thrown = FALSE

-----------------------------------------------------------------------------
\* With a mistake: the promise is resolved although others are in the queue.
PushLockEager(c, l) ==
    /\ queue' = [queue EXCEPT ![l] = Append(@, c)]
    /\ woken' = [woken EXCEPT ![c] = TRUE]
    /\ pc' = [pc EXCEPT ![c] = "wait"]
    /\ lvl' = [lvl EXCEPT ![c] = l]

\* With a mistake: unshift instead of push.
PushLockFront(c, l) ==
    /\ queue' = [queue EXCEPT ![l] = <<c>> \o @]
    /\ woken' = [woken EXCEPT ![c] = queue[l] = <<>>]
    /\ pc' = [pc EXCEPT ![c] = "wait"]
    /\ lvl' = [lvl EXCEPT ![c] = l]

(***************************************************************************)
(* getActiveLock, after isAvailable() or makeAvailable(): push a resolver  *)
(* on queue l and resolve it at once if it is alone there.                 *)
(***************************************************************************)
PushLock(c, l) ==
    /\ queue' = [queue EXCEPT ![l] = Append(@, c)]
    /\ woken' = [woken EXCEPT ![c] = queue[l] = <<>>]
    /\ pc' = [pc EXCEPT ![c] = "wait"]
    /\ lvl' = [lvl EXCEPT ![c] = l]

\* getActiveLock up to its first await.
GetActiveLock(c, l) ==
    \/ isAvailable /\ PushLock(c, l)
    \/ /\ ~isAvailable
       /\ pc' = [pc EXCEPT ![c] = "avail"]
       /\ lvl' = [lvl EXCEPT ![c] = l]
       /\ UNCHANGED <<queue, woken>>

(***************************************************************************)
(* releaseActiveLock on the first need[c] queues: shift the head of each,  *)
(* whoever it belongs to, and resolve the head that is left.  Resolving a  *)
(* promise that is already resolved does nothing.                          *)
(***************************************************************************)
\* With a mistake: one resolver too many is shifted out.
ShiftTwo(q) == IF Len(q) < 2 THEN <<>> ELSE Tail(Tail(q))

Shift(q) == IF q = <<>> THEN q ELSE Tail(q)

\* With a mistake: the last queue taken is not released.
ReleaseAllButLast(c) ==
    /\ queue' = [l \in Levels |-> IF l < need[c] THEN Shift(queue[l]) ELSE queue[l]]
    /\ woken' = [d \in Calls |->
                    woken[d] \/ (pc[d] = "wait" /\ queue'[lvl[d]] # <<>> /\ Head(queue'[lvl[d]]) = d)]
    /\ pc' = [pc EXCEPT ![c] = "done"]
    /\ UNCHANGED lvl

\* With a mistake: the head that is left is not resolved.
ReleaseSilently(c) ==
    /\ queue' = [l \in Levels |-> IF l <= need[c] THEN Shift(queue[l]) ELSE queue[l]]
    /\ pc' = [pc EXCEPT ![c] = "done"]
    /\ UNCHANGED <<woken, lvl>>

ReleaseLocks(c) ==
    LET left == [l \in Levels |-> IF l <= need[c] THEN Shift(queue[l]) ELSE queue[l]]
        next == {d \in Calls : /\ pc[d] = "wait"
                               /\ lvl[d] <= need[c]
                               /\ left[lvl[d]] # <<>>
                               /\ Head(left[lvl[d]]) = d}
    IN /\ queue' = left
       /\ woken' = [d \in Calls |-> woken[d] \/ d \in next]
       /\ pc' = [pc EXCEPT ![c] = "done"]
       /\ UNCHANGED lvl

-----------------------------------------------------------------------------
\* With a mistake: one queue too many.
RunAsOneMore(c, d) ==
    /\ pc[c] = "idle"
    /\ need' = [need EXCEPT ![c] = d + 1]
    /\ GetActiveLock(c, 1)
    /\ UNCHANGED <<isAvailable, adding, thrown>>

\* runAsReader, runAsWriter, runAsSync, runAsStorageProvider are called.
RunAs(c, d) ==
    /\ pc[c] = "idle"
    /\ need' = [need EXCEPT ![c] = d]
    /\ GetActiveLock(c, 1)
    /\ UNCHANGED <<isAvailable, adding, thrown>>

\* The makeAvailable awaited by getActiveLock returns.
MadeAvailable(c) ==
    /\ pc[c] = "avail"
    /\ isAvailable' = TRUE
    /\ PushLock(c, lvl[c])
    /\ UNCHANGED <<need, adding, thrown>>

(***************************************************************************)
(* The makeAvailable awaited by getActiveLock throws.  Nothing was pushed, *)
(* yet the `finally` of runAs... releases all its queues.                  *)
(***************************************************************************)
AvailabilityThrown(c) ==
    /\ pc[c] = "avail"
    /\ ReleaseLocks(c)
    /\ thrown' = TRUE
    /\ UNCHANGED <<need, isAvailable, adding>>

\* The call holds queue lvl[c] and goes on to the next.
AcquireNext(c) ==
    /\ pc[c] = "wait" /\ woken[c]
    /\ lvl[c] < need[c]
    /\ GetActiveLock(c, lvl[c] + 1)
    /\ UNCHANGED <<need, isAvailable, adding, thrown>>

\* The call holds all its queues, getActive() succeeds, its callback starts.
EnterCallback(c) ==
    /\ pc[c] = "wait" /\ woken[c]
    /\ lvl[c] = need[c]
    /\ isAvailable
    /\ pc' = [pc EXCEPT ![c] = "run"]
    /\ UNCHANGED <<queue, need, lvl, woken, isAvailable, adding, thrown>>

(***************************************************************************)
(* getActive() throws because the manager has meanwhile become             *)
(* unavailable, or the active store is no StorageProvider.                 *)
(***************************************************************************)
GetActiveThrows(c) ==
    /\ pc[c] = "wait" /\ woken[c]
    /\ lvl[c] = need[c]
    /\ ~isAvailable \/ need[c] = StorageProvider
    /\ ReleaseLocks(c)
    /\ UNCHANGED <<need, isAvailable, adding, thrown>>

\* The callback returns or throws.
LeaveCallback(c) ==
    /\ pc[c] = "run"
    /\ ReleaseLocks(c)
    /\ UNCHANGED <<need, isAvailable, adding, thrown>>

(***************************************************************************)
(* The callback of setActive ends by making the manager unavailable and    *)
(* awaiting makeAvailable under the sync lock.                             *)
(***************************************************************************)
SwitchActive(c) ==
    /\ pc[c] = "run"
    /\ need[c] = Sync
    /\ isAvailable' = FALSE
    /\ pc' = [pc EXCEPT ![c] = "switch"]
    /\ UNCHANGED <<queue, need, lvl, woken, adding, thrown>>

SwitchEnds(c) ==
    /\ pc[c] = "switch"
    /\ isAvailable' \in {TRUE, isAvailable}
    /\ ReleaseLocks(c)
    /\ UNCHANGED <<need, adding, thrown>>

(***************************************************************************)
(* addWalletStorageProvider takes no lock: it makes the manager            *)
(* unavailable whoever holds one, and awaits makeAvailable.                *)
(***************************************************************************)
AddProvider(p) ==
    /\ adding[p] = "idle"
    /\ isAvailable' = FALSE
    /\ adding' = [adding EXCEPT ![p] = "avail"]
    /\ UNCHANGED <<queue, pc, need, lvl, woken, thrown>>

ProviderAdded(p) ==
    /\ adding[p] = "avail"
    /\ isAvailable' \in {TRUE, isAvailable}
    /\ adding' = [adding EXCEPT ![p] = "done"]
    /\ UNCHANGED <<queue, pc, need, lvl, woken, thrown>>

\* getAuth, called outside any lock, makes the manager available.
GetAuth ==
    /\ ~isAvailable
    /\ isAvailable' = TRUE
    /\ UNCHANGED <<queue, pc, need, lvl, woken, adding, thrown>>

Step(c) ==
    \/ MadeAvailable(c)
    \/ AvailabilityThrown(c)
    \/ AcquireNext(c)
    \/ EnterCallback(c)
    \/ GetActiveThrows(c)
    \/ LeaveCallback(c)
    \/ SwitchActive(c)
    \/ SwitchEnds(c)

Next ==
    \/ \E c \in Calls : (\E d \in Levels : RunAs(c, d)) \/ Step(c)
    \/ \E p \in Providers : AddProvider(p) \/ ProviderAdded(p)
    \/ GetAuth

(***************************************************************************)
(* The event loop runs every continuation that is ready, and awaited store *)
(* and service requests end (they are answered or time out).               *)
(***************************************************************************)
Fairness ==
    /\ \A c \in Calls : WF_vars(Step(c))
    /\ \A p \in Providers : WF_vars(ProviderAdded(p))

Spec == Init /\ [][Next]_vars
FairSpec == Spec /\ Fairness

-----------------------------------------------------------------------------
(***************************************************************************)
(* No callback runs while another one does, as long as no acquisition has  *)
(* thrown.  The reader queue is taken by every kind of access, so this     *)
(* holds of two readers as well.                                           *)
(***************************************************************************)
MutualExclusion ==
    ~thrown => \A c, d \in Calls : InCallback(c) /\ InCallback(d) => c = d

(***************************************************************************)
(* The class comment's words taken literally: while the callback of a      *)
(* runAsSync runs (a synchronization, or setActive), no other access has a *)
(* callback running.                                                       *)
(***************************************************************************)
SyncBlocksOthers ==
    \A c, d \in Calls : InCallback(c) /\ InCallback(d) /\ need[c] = Sync => c = d

(***************************************************************************)
(* A call that awaits a lock is in the queue of that lock, so that a       *)
(* release will reach it: no resolver is shifted out by somebody else      *)
(* before it is called, as long as no acquisition has thrown.              *)
(***************************************************************************)
NoLostWaiter ==
    ~thrown => \A c \in Calls :
        pc[c] = "wait" => \E i \in DOMAIN queue[lvl[c]] : queue[lvl[c]][i] = c

(***************************************************************************)
(* Nobody ever queues for the writer, sync or provider lock: the holder of *)
(* the reader lock is the only one that can ask for them, whatever happens *)
(* to the manager's availability in between, until an acquisition throws.  *)
(***************************************************************************)
UpperLocksUncontended ==
    ~thrown => \A l \in Levels \ {1} : Len(queue[l]) <= 1

\* Every call made on the manager ends, unless the acquisition of one throws.
EveryCallEnds ==
    \A c \in Calls : pc[c] # "idle" ~> pc[c] = "done" \/ thrown

(***************************************************************************)
(* When no call is under way no lock is left behind, although a call whose *)
(* acquisition threw has shifted queues it never pushed on.                *)
(***************************************************************************)
NoLockLeaked ==
    (\A c \in Calls : pc[c] \in {"idle", "done"})
        => \A l \in Levels : queue[l] = <<>>

-----------------------------------------------------------------------------
(***************************************************************************)
(* What the locks promise: one line, served in the order of arrival, until *)
(* the acquisition of some call throws.                                    *)
(***************************************************************************)
Waiters == IF thrown THEN <<>> ELSE queue[1]
Served == {c \in Calls : ~thrown /\ InCallback(c)}
Ended == {c \in Calls : ~thrown /\ pc[c] = "done"}
Line == INSTANCE FifoLine WITH Clients <- Calls, line <- Waiters, inside <- Served,
                               left <- Ended, broken <- thrown
ImplementsLine == Line!Spec
=============================================================================
