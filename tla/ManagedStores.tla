---------------------------- MODULE ManagedStores ---------------------------
(***************************************************************************)
(* The stores managed by WalletStorageManager: which one is active, which  *)
(* are backups, which conflict, and how setActive moves a wallet from one  *)
(* store to another.                                                       *)
(*                                                                         *)
(* Each store persists the user's record (activeStorage and updated_at),   *)
(* the wallet's rows, and for every store it was synced from how far that  *)
(* sync has come.  The manager caches the records, partitions the stores   *)
(* in makeAvailable, and gates every write on _authId.isActive.            *)
(* makeAvailable takes no lock and awaits inside its loop, so calls of it  *)
(* interleave; setActive and updateBackups run under the sync lock, which  *)
(* module StorageLocks is about.  A store's key is the store itself.       *)
(***************************************************************************)
EXTENDS Naturals, Sequences, FiniteSets, SequencesExt

CONSTANTS
    Stores,       \* storage providers, identified with their storageIdentityKey
    First,        \* the store the manager is constructed with
    Procs,        \* asynchronous calls that may be under way together
    Writes,       \* rows written through the manager
    Environments, \* records that say what may happen, see env
    MaxSwitches,  \* bound on calls of setActive
    MaxRestarts   \* bound on restarts of the wallet process

None == "none"
Absent == [active |-> None, at |-> 0]
Dates == 0..(MaxSwitches + 1)

(***************************************************************************)
(* A row of a store: what it is and its updated_at, which it keeps when it *)
(* is merged into another store.  Legacy rows are what a store held before *)
(* it was added, named by the store.  The default basket, inserted with    *)
(* the user's record and dated 1971, is the same row in every store.       *)
(***************************************************************************)
Basket == "default"
Legacy == Stores
Rows == [of : Writes \cup Legacy \cup {Basket}, at : Dates]
Row(of, at) == [of |-> of, at |-> at]

Links == Stores \X Stores     \* <<from, to>>: a sync that reads `from` and writes `to`

ASSUME FirstAssumption == First \in Stores
ASSUME NoneAssumption == None \notin Stores \cup Procs
ASSUME RowsAssumption == Writes \cap (Legacy \cup {Basket}) = {}
ASSUME BoundsAssumption == MaxSwitches \in Nat /\ MaxRestarts \in Nat
ASSUME EnvironmentsAssumption ==
    Environments \subseteq [stores : SUBSET Stores, procs : SUBSET Procs,
                            storeFails : BOOLEAN, writes : SUBSET Writes,
                            switches : 0..MaxSwitches, restarts : 0..MaxRestarts]

VARIABLES
    stores,       \* the manager's _stores, in order
    db,           \* db[s]: the user record kept in store s
    data,         \* data[s]: the wallet's rows kept in store s
    link,         \* link[<<a, b>>]: the sync_state that store b keeps for store a
    overtaken,    \* history: rows merged into a store behind the checkpoint of a sync from it
    user,         \* user[s]: the manager's cached activeStorage of store s
    active, backups, conflictingActives,   \* the manager's partition
    isAvailable,  \* _isAvailable
    authIsActive, \* _authId.isActive, the gate of every writer
    proc,         \* the local state of each call
    lock,         \* the call under the sync lock, or None
    clock,        \* time of the last update of a user record
    acked,        \* rows the user owns: written, or brought by an added store
    switches,     \* calls of setActive so far
    restarts,     \* restarts so far
    env           \* the environment, a member of Environments that never changes

held == <<data, link, overtaken>>
durable == <<stores, db, held, clock, acked, env>>
manager == <<user, active, backups, conflictingActives, isAvailable, authIsActive>>
vars == <<durable, manager, proc, lock, switches, restarts>>

\* One call at a time, and no request to a store fails.
Orderly == ~env.storeFails /\ \A p, q \in env.procs : p = q

(***************************************************************************)
(* The local state of a call: where it is, the position in the loop it is  *)
(* in, makeAvailable's local `backups`, the record it fetched, and for     *)
(* setActive the target key, backupSource and the stores left to sync.     *)
(***************************************************************************)
Idle == [pc |-> "idle", i |-> 0, list |-> <<>>, got |-> None, then |-> "return",
         key |-> None, source |-> None, todo |-> <<>>]

Calls ==
    [pc : {"idle", "ensure", "ensured", "request", "queued", "merge", "mark", "push", "backup"},
     i : Nat, list : Seq(Stores), got : Stores \cup {None},
     then : {"return", "setActive", "queue"}, key : Stores \cup {None}, source : Stores \cup {None}, todo : Seq(Stores)]

\* `when`, and of the syncMap the greatest date and the rows the offsets have counted.
SyncStates == [when : Dates, max : Dates, counted : SUBSET Rows]

TypeOK ==
    /\ stores \in Seq(Stores)
    /\ db \in [Stores -> [active : Stores \cup {None}, at : Dates]]
    /\ data \in [Stores -> SUBSET Rows]
    /\ link \in [Links -> SyncStates]
    /\ overtaken \subseteq Rows
    /\ user \in [Stores -> Stores \cup {None}]
    /\ active \in Stores \cup {None}
    /\ backups \in Seq(Stores) /\ conflictingActives \in Seq(Stores)
    /\ isAvailable \in BOOLEAN /\ authIsActive \in BOOLEAN
    /\ proc \in [Procs -> Calls]
    /\ lock \in Procs \cup {None}
    /\ acked \subseteq Rows
    /\ clock \in 1..(MaxSwitches + 1)
    /\ switches \in 0..MaxSwitches /\ restarts \in 0..MaxRestarts
    /\ env \in Environments

\* Some of the stores have served this user before, on their own.
Init ==
    /\ env \in Environments
    /\ stores = <<First>>
    /\ \E used \in SUBSET (env.stores \ {First}) :
          /\ db = [s \in Stores |-> IF s \in used THEN [active |-> s, at |-> 1] ELSE Absent]
          /\ \E recent \in SUBSET used :
                data = [s \in Stores |->
                          {Row(Basket, 0)} \cup
                          {Row(x, IF x \in recent THEN 1 ELSE 0) : x \in used \cap {s}}]
    /\ link = [l \in Links |-> [when |-> 0, max |-> 0, counted |-> {}]]
    /\ overtaken = {}
    /\ user = [s \in Stores |-> None]
    /\ active = None /\ backups = <<>> /\ conflictingActives = <<>>
    /\ isAvailable = FALSE /\ authIsActive = FALSE
    /\ proc = [p \in Procs |-> Idle]
    /\ lock = None
    /\ clock = 1
    /\ acked = {}
    /\ switches = 0 /\ restarts = 0

-----------------------------------------------------------------------------
\* The elements of seq that are in S, in their order.
Filter(seq, S) ==
    LET I == {i \in 1..Len(seq) : seq[i] \in S}
        Place(i) == Cardinality({j \in I : j <= i})
    IN [n \in 1..Cardinality(I) |-> seq[CHOOSE i \in I : Place(i) = n]]

\* The getter isActiveEnabled.
EnabledWith(a, conflicts, cache) ==
    a # None /\ cache[a] = a /\ conflicts = <<>>

isActiveEnabled == EnabledWith(active, conflictingActives, user)

\* makeAvailable up to its first await, when the manager is not available.
StartMakeAvailable(p, r, then) ==
    /\ active' = None /\ backups' = <<>> /\ conflictingActives' = <<>>
    /\ proc' = [proc EXCEPT ![p] = [r EXCEPT !.pc = "ensure", !.i = 1,
                                             !.list = <<>>, !.then = then]]
    /\ UNCHANGED <<user, authIsActive>>

\* With a mistake: a store that is replaced as active is not kept as a backup.
SelectedForgetful(s, list, cache) ==
    CASE active = None -> <<s, list>>
      [] active # None /\ cache[s] = s /\ ~EnabledWith(active, conflictingActives, cache)
            -> <<s, list>>
      [] OTHER -> <<active, Append(list, s)>>

(***************************************************************************)
(* selectActiveFromStore(s, list) with the cache as it is: the new active  *)
(* store and the new local list of backups.                                *)
(***************************************************************************)
Selected(s, list, cache) ==
    CASE active = None -> <<s, list>>
      [] active # None /\ cache[s] = s /\ ~EnabledWith(active, conflictingActives, cache)
            -> <<s, Append(list, active)>>
      [] OTHER -> <<active, Append(list, s)>>

\* Where a call goes on when makeAvailable returns to it.
Resumed(r) ==
    IF r.then = "return" THEN Idle
    ELSE [Idle EXCEPT !.pc = IF r.then = "queue" THEN "queued" ELSE "request", !.key = r.key]

(***************************************************************************)
(* After the store at position i is known to be available: select, and go  *)
(* on to the next store, or partition the local list and finish.           *)
(***************************************************************************)
SelectAndAdvance(p, cache) ==
    LET r == proc[p]
        s == stores[r.i]
        sel == Selected(s, r.list, cache)
        a == sel[1]
        last == r.i = Len(stores)
        confl == IF last THEN conflictingActives \o Filter(sel[2], {b \in Stores : cache[b] # a})
                         ELSE conflictingActives
    IN /\ user' = cache
       /\ active' = a
       /\ conflictingActives' = confl
       /\ backups' = IF last THEN backups \o Filter(sel[2], {b \in Stores : cache[b] = a})
                             ELSE backups
       /\ isAvailable' = (isAvailable \/ last)
       /\ authIsActive' = IF last THEN EnabledWith(a, confl, cache) ELSE authIsActive
       /\ proc' = [proc EXCEPT ![p] =
                     IF ~last THEN [r EXCEPT !.pc = "ensure", !.got = None,
                                             !.i = r.i + 1, !.list = sel[2]]
                     ELSE Resumed(r)]
       /\ lock' = IF last /\ lock = p THEN None ELSE lock

\* ensureStoreAvailable returns at once for a store that is already cached.
EnsureCached(p) ==
    /\ proc[p].pc = "ensure"
    /\ user[stores[proc[p].i]] # None
    /\ SelectAndAdvance(p, user)
    /\ UNCHANGED <<durable, switches, restarts>>

\* ensureStoreAvailable: findOrInsertUser at the store, which may create the user.
EnsureFetch(p) ==
    LET s == stores[proc[p].i]
    IN /\ proc[p].pc = "ensure"
       /\ user[s] = None
       /\ db' = IF db[s] = Absent THEN [db EXCEPT ![s] = [active |-> s, at |-> 0]] ELSE db
       /\ proc' = [proc EXCEPT ![p] = [@ EXCEPT !.pc = "ensured", !.got = db'[s].active]]
       /\ UNCHANGED <<stores, held, clock, acked, manager, lock, switches, restarts, env>>

EnsureApply(p) ==
    /\ proc[p].pc = "ensured"
    /\ SelectAndAdvance(p, [user EXCEPT ![stores[proc[p].i]] = proc[p].got])
    /\ UNCHANGED <<durable, switches, restarts>>

\* A call throws out of makeAvailable, of a sync or of a store request.
Throw(p) ==
    /\ env.storeFails
    /\ proc[p].pc \in {"ensure", "merge", "mark", "push", "backup"}
    /\ proc[p].pc = "ensure" => user[stores[proc[p].i]] = None
    /\ proc' = [proc EXCEPT ![p] = Idle]
    /\ lock' = IF lock = p THEN None ELSE lock
    /\ UNCHANGED <<durable, manager, switches, restarts>>

-----------------------------------------------------------------------------
\* getAuth, getActiveLock or the wallet calls makeAvailable.
MakeAvailable(p) ==
    /\ proc[p].pc = "idle"
    /\ ~isAvailable
    /\ StartMakeAvailable(p, Idle, "return")
    /\ UNCHANGED <<durable, isAvailable, lock, switches, restarts>>

\* addWalletStorageProvider(s).
AddWalletStorageProvider(p, s) ==
    /\ proc[p].pc = "idle"
    /\ s \notin ToSet(stores)
    /\ stores' = Append(stores, s)
    /\ acked' = acked \cup data[s]
    /\ isAvailable' = FALSE
    /\ StartMakeAvailable(p, Idle, "return")
    /\ UNCHANGED <<db, held, clock, lock, switches, restarts, env>>

\* A call of setActive that makes the manager available holds the upper queues.
UpperQueuesFree == \A q \in Procs : proc[q].then # "queue"

\* A writer under the lock: createAction, internalizeAction, ...
Write(w) ==
    /\ lock = None /\ UpperQueuesFree
    /\ isAvailable /\ authIsActive
    /\ w \in env.writes /\ \A r \in acked : r.of # w
    /\ data' = [data EXCEPT ![active] = @ \cup {Row(w, clock)}]
    /\ acked' = acked \cup {Row(w, clock)}
    /\ UNCHANGED <<stores, db, link, overtaken, clock, manager, proc, lock, switches, restarts, env>>

-----------------------------------------------------------------------------
\* setActive(k): before the lock.
SetActive(p, k) ==
    /\ proc[p].pc = "idle"
    /\ switches < env.switches
    /\ switches' = switches + 1
    /\ LET r == [Idle EXCEPT !.key = k]
       IN \/ /\ isAvailable
             /\ proc' = [proc EXCEPT ![p] = [r EXCEPT !.pc = "request"]]
             /\ UNCHANGED manager
          \/ /\ ~isAvailable
             /\ StartMakeAvailable(p, r, "setActive")
             /\ UNCHANGED isAvailable
    /\ UNCHANGED <<durable, lock, restarts>>

\* getAuth finds the manager unavailable again.
SetActiveRetries(p) ==
    /\ proc[p].pc = "request"
    /\ ~isAvailable
    /\ StartMakeAvailable(p, proc[p], "setActive")
    /\ UNCHANGED <<durable, isAvailable, lock, switches, restarts>>

\* Unknown key, or the current enabled active: a permitted no-op.
SetActiveReturns(p) ==
    /\ proc[p].pc = "request"
    /\ isAvailable
    /\ \/ proc[p].key \notin ToSet(stores)
       \/ proc[p].key = active /\ isActiveEnabled
    /\ proc' = [proc EXCEPT ![p] = Idle]
    /\ UNCHANGED <<durable, manager, lock, switches, restarts>>

\* runAsSync queues for the sync lock.
SetActiveQueues(p) ==
    /\ proc[p].pc = "request"
    /\ isAvailable
    /\ proc[p].key \in ToSet(stores)
    /\ ~(proc[p].key = active /\ isActiveEnabled)
    /\ proc' = [proc EXCEPT ![p].pc = "queued"]
    /\ UNCHANGED <<durable, manager, lock, switches, restarts>>

(***************************************************************************)
(* The sync lock is taken, and the conflicting actives are to be merged    *)
(* into the store that becomes active.                                     *)
(***************************************************************************)
SetActiveBegins(p) ==
    LET confl == IF conflictingActives = <<>> THEN <<>>
                 ELSE Filter(Append(conflictingActives, active), Stores \ {proc[p].key})
    IN /\ proc[p].pc = "queued"
       /\ lock = None /\ UpperQueuesFree
       /\ isAvailable
       /\ lock' = p
       /\ conflictingActives' = confl
       /\ proc' = [proc EXCEPT ![p] = [@ EXCEPT !.pc = "merge", !.todo = confl]]
       /\ UNCHANGED <<durable, user, active, backups, isAvailable, authIsActive, switches, restarts>>

(***************************************************************************)
(* The manager has become unavailable since the call queued.  runAsSync    *)
(* takes three queues, and getActiveLock makes the manager available       *)
(* before it enters the next one; after the last one getActive throws.     *)
(***************************************************************************)
SetActiveFindsUnavailable(p) ==
    /\ proc[p].pc = "queued"
    /\ lock = None /\ UpperQueuesFree
    /\ ~isAvailable
    /\ \/ StartMakeAvailable(p, proc[p], "queue")
       \/ /\ proc' = [proc EXCEPT ![p] = Idle]
          /\ UNCHANGED <<user, active, backups, conflictingActives, authIsActive>>
    /\ UNCHANGED <<durable, isAvailable, lock, switches, restarts>>

-----------------------------------------------------------------------------
(***************************************************************************)
(* syncToWriter from one store to another, the head of a call's todo.      *)
(***************************************************************************)
\* What a page is taken from: rows dated `when` or later, beyond the offsets.
Pending(from, to) ==
    {r \in data[from] : r.at >= link[<<from, to>>].when} \ link[<<from, to>>].counted

\* The page carries the user's record, and the writer's is older.
UserMerged(from, to) == db[from].at > link[<<from, to>>].when /\ db[from].at > db[to].at

Later(t, u) == IF t > u THEN t ELSE u

\* Store s takes row r though a sync from it has gone past r's date without it.
Overtaken(s, r) ==
    r \notin data[s] /\ \E b \in Stores : r.at < link[<<s, b>>].when /\ r \notin data[b]

\* A page with row r; the user's record comes with the first.
SyncRow(from, to, r) ==
    /\ data' = [data EXCEPT ![to] = @ \cup {r}]
    /\ overtaken' = IF Overtaken(to, r) THEN overtaken \cup {r} ELSE overtaken
    /\ LET l == link[<<from, to>>]
       IN link' = [link EXCEPT ![<<from, to>>] =
                       [l EXCEPT !.counted = @ \cup {r}, !.max = Later(@, r.at)]]

\* The empty page: `when` moves to the latest date, and the offsets to zero.
SyncDone(from, to) ==
    LET l == link[<<from, to>>]
    IN /\ Pending(from, to) = {}
       /\ link' = [link EXCEPT ![<<from, to>>] =
                      [@ EXCEPT !.when = IF UserMerged(from, to) THEN Later(l.max, db[from].at)
                                         ELSE l.max,
                                !.counted = {}]]
       /\ UNCHANGED <<data, overtaken>>

\* With a mistake: the sync ends after its first page.
SyncHeadOnce(p, from, to) ==
    /\ db' = IF UserMerged(from, to) THEN [db EXCEPT ![to] = db[from]] ELSE db
    /\ \/ \E r \in Pending(from, to) : SyncRow(from, to, r)
       \/ SyncDone(from, to)
    /\ proc' = [proc EXCEPT ![p].todo = Tail(@)]
    /\ UNCHANGED <<stores, clock, acked, lock, switches, restarts, env>>

\* One page of the sync: a row that is pending, or the empty page that ends it.
SyncHead(p, from, to) ==
    /\ db' = IF UserMerged(from, to) THEN [db EXCEPT ![to] = db[from]] ELSE db
    /\ \/ /\ \E r \in Pending(from, to) : SyncRow(from, to, r)
          /\ UNCHANGED proc
       \/ /\ SyncDone(from, to)
          /\ proc' = [proc EXCEPT ![p].todo = Tail(@)]
    /\ UNCHANGED <<stores, clock, acked, lock, switches, restarts, env>>

MergeConflict(p) ==
    /\ proc[p].pc = "merge"
    /\ proc[p].todo # <<>>
    /\ SyncHead(p, Head(proc[p].todo), proc[p].key)
    /\ UNCHANGED manager

(***************************************************************************)
(* backupSource is chosen after the merges, from the manager's fields as   *)
(* they are then; without an active store the call throws.                 *)
(***************************************************************************)
ChooseBackupSource(p) ==
    LET source == IF conflictingActives # <<>> THEN proc[p].key ELSE active
    IN /\ proc[p].pc = "merge"
       /\ proc[p].todo = <<>>
       /\ IF source = None
          THEN proc' = [proc EXCEPT ![p] = Idle] /\ lock' = None
          ELSE /\ proc' = [proc EXCEPT ![p] = [@ EXCEPT !.pc = "mark", !.source = source]]
               /\ UNCHANGED lock
       /\ UNCHANGED <<durable, manager, switches, restarts>>

\* With a mistake: the choice is recorded in the chosen store.
MarkTarget(p) ==
    /\ proc[p].pc = "mark"
    /\ clock' = clock + 1
    /\ db' = [db EXCEPT ![proc[p].key] = [active |-> proc[p].key, at |-> clock + 1]]
    /\ proc' = [proc EXCEPT ![p] = [@ EXCEPT !.pc = "push", !.todo = stores]]
    /\ UNCHANGED <<stores, held, acked, manager, lock, switches, restarts, env>>

\* With a mistake: the record is touched a second time, at a time of its own.
MarkTwice(p) ==
    /\ proc[p].pc = "mark"
    /\ clock' = clock + 2
    /\ db' = [db EXCEPT ![proc[p].source] = [active |-> proc[p].key, at |-> clock + 2]]
    /\ proc' = [proc EXCEPT ![p] = [@ EXCEPT !.pc = "push", !.todo = stores]]
    /\ UNCHANGED <<stores, held, acked, manager, lock, switches, restarts, env>>

\* backupSource.storage.setActive records the choice in the source store.
MarkActive(p) ==
    /\ proc[p].pc = "mark"
    /\ clock' = clock + 1
    /\ db' = [db EXCEPT ![proc[p].source] = [active |-> proc[p].key, at |-> clock + 1]]
    /\ proc' = [proc EXCEPT ![p] = [@ EXCEPT !.pc = "push", !.todo = stores]]
    /\ UNCHANGED <<stores, held, acked, manager, lock, switches, restarts, env>>

(***************************************************************************)
(* The loop over all stores: the cached record of the store is updated     *)
(* before the source's state is pushed to it.                              *)
(***************************************************************************)
PushToStore(p) ==
    LET s == Head(proc[p].todo)
    IN /\ proc[p].pc = "push"
       /\ proc[p].todo # <<>>
       /\ user' = [user EXCEPT ![s] = proc[p].key]
       /\ IF s = proc[p].source
          THEN /\ proc' = [proc EXCEPT ![p].todo = Tail(@)]
               /\ UNCHANGED <<durable, lock, switches, restarts>>
          ELSE SyncHead(p, proc[p].source, s)
       /\ UNCHANGED <<active, backups, conflictingActives, isAvailable, authIsActive>>

\* With a mistake: setActive returns without partitioning the stores anew.
SetActiveStops(p) ==
    /\ proc[p].pc = "push"
    /\ proc[p].todo = <<>>
    /\ proc' = [proc EXCEPT ![p] = Idle]
    /\ lock' = None
    /\ UNCHANGED <<durable, manager, switches, restarts>>

\* setActive's last act under the lock: make the manager available again.
SetActiveEnds(p) ==
    /\ proc[p].pc = "push"
    /\ proc[p].todo = <<>>
    /\ isAvailable' = FALSE
    /\ StartMakeAvailable(p, proc[p], "return")
    /\ UNCHANGED <<durable, lock, switches, restarts>>

-----------------------------------------------------------------------------
\* updateBackups, under the sync lock; calls that wait for it are served first.
UpdateBackups(p) ==
    /\ proc[p].pc = "idle"
    /\ lock = None /\ UpperQueuesFree /\ \A q \in Procs : proc[q].pc # "queued"
    /\ isAvailable /\ authIsActive
    /\ backups # <<>>
    /\ lock' = p
    /\ proc' = [proc EXCEPT ![p] = [Idle EXCEPT !.pc = "backup", !.source = active,
                                                !.todo = backups]]
    /\ UNCHANGED <<durable, manager, switches, restarts>>

BackupStore(p) ==
    /\ proc[p].pc = "backup"
    /\ proc[p].todo # <<>>
    /\ SyncHead(p, proc[p].source, Head(proc[p].todo))
    /\ UNCHANGED manager

\* With a mistake: the sync lock is not released.
UpdateBackupsKeepsLock(p) ==
    /\ proc[p].pc = "backup"
    /\ proc[p].todo = <<>>
    /\ proc' = [proc EXCEPT ![p] = Idle]
    /\ UNCHANGED <<durable, manager, lock, switches, restarts>>

UpdateBackupsEnds(p) ==
    /\ proc[p].pc = "backup"
    /\ proc[p].todo = <<>>
    /\ proc' = [proc EXCEPT ![p] = Idle]
    /\ lock' = None
    /\ UNCHANGED <<durable, manager, switches, restarts>>

(***************************************************************************)
(* The wallet process stops and is started with the same stores.           *)
(***************************************************************************)
Restart ==
    /\ restarts < env.restarts
    /\ restarts' = restarts + 1
    /\ user' = [s \in Stores |-> None]
    /\ active' = None /\ backups' = <<>> /\ conflictingActives' = <<>>
    /\ isAvailable' = FALSE /\ authIsActive' = FALSE
    /\ proc' = [p \in Procs |-> Idle]
    /\ lock' = None
    /\ UNCHANGED <<durable, switches>>

Step(p) ==
    \/ EnsureCached(p) \/ EnsureFetch(p) \/ EnsureApply(p) \/ Throw(p)
    \/ SetActiveRetries(p) \/ SetActiveReturns(p)
    \/ SetActiveQueues(p) \/ SetActiveBegins(p)
    \/ SetActiveFindsUnavailable(p)
    \/ MergeConflict(p) \/ ChooseBackupSource(p) \/ MarkActive(p)
    \/ PushToStore(p) \/ SetActiveEnds(p)
    \/ BackupStore(p) \/ UpdateBackupsEnds(p)

Next ==
    \/ \E p \in env.procs :
          \/ MakeAvailable(p)
          \/ \E s \in env.stores : AddWalletStorageProvider(p, s) \/ SetActive(p, s)
          \/ UpdateBackups(p)
          \/ Step(p)
    \/ \E w \in Writes : Write(w)
    \/ Restart

Spec == Init /\ [][Next]_vars
FairSpec == Spec /\ \A p \in Procs : WF_vars(Step(p))

-----------------------------------------------------------------------------
(***************************************************************************)
(* "Runs through `_stores` validating all properties and partitioning      *)
(* across `_active`, `_backups`, `_conflictingActives`": once the manager  *)
(* is available each managed store is in exactly one place, if its calls   *)
(* do not overlap.  updateBackups would otherwise push to a store twice,   *)
(* or push the active to itself.                                           *)
(***************************************************************************)
Partitioned ==
    Orderly /\ isAvailable /\ lock = None =>
        LET all == <<active>> \o backups \o conflictingActives
        IN Len(all) = Len(stores) /\ ToSet(all) = ToSet(stores)

(***************************************************************************)
(* _authId.isActive, which is computed once and gates every later write,   *)
(* agrees with isActiveEnabled, which is computed from the records when it *)
(* is asked for.                                                           *)
(***************************************************************************)
GateMatchesRecords ==
    Orderly /\ isAvailable /\ lock = None => (authIsActive <=> isActiveEnabled)

(***************************************************************************)
(* A store that accepts writes holds every row that was written through    *)
(* the manager, whichever store was active then, and what the conflicting  *)
(* stores had, which setActive merges, except the rows that were merged    *)
(* behind a checkpoint.  A restart in the middle of a merge may hide a     *)
(* conflict, so this is said of one process that loses no request.         *)
(***************************************************************************)
Enabled == isAvailable /\ authIsActive /\ lock = None /\ restarts = 0

NoWriteLost ==
    Orderly /\ Enabled =>
        \A r \in acked : r.of \in Writes \/ r \notin overtaken => r \in data[active]

(***************************************************************************)
(* What the comment on setActive says, "Also resolves conflicting actives" *)
(* (WalletStorageManager.ts): whatever setActive did before, also where it *)
(* failed, the store it enables holds what the conflicting ones had.       *)
(***************************************************************************)
ConflictsResolved == Enabled => acked \subseteq data[active]

(***************************************************************************)
(* setActive(k) that runs to its end, also after a restart in the middle   *)
(* of another, leaves k active and enabled, and every store with a record  *)
(* that says so and with the data of the store that was pushed, except the *)
(* rows that were merged behind a checkpoint.                              *)
(***************************************************************************)
SwitchReturns(p) ==
    /\ Orderly /\ lock = p /\ lock' = None /\ restarts' = restarts
    /\ proc[p].key # None /\ proc[p].i = Len(stores)

SwitchTakesEffect ==
    [][\A p \in Procs : SwitchReturns(p) =>
          /\ active' = proc[p].key /\ authIsActive'
          /\ \A s \in ToSet(stores) :
                 /\ db[s].active = proc[p].key
                 /\ data[proc[p].source] \ overtaken \subseteq data[s]]_vars

(***************************************************************************)
(* Every call returns or throws, and gives up the sync lock: setActive,    *)
(* updateBackups and makeAvailable cannot block each other for ever.       *)
(***************************************************************************)
EveryCallReturns ==
    \A p \in Procs : []<>(proc[p].pc = "idle" /\ lock # p)
=============================================================================
