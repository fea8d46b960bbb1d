# A TLA+ verification of the ts-stack wallet, peers and overlay engine

This directory holds TLA+ modules that model the parts of the repository where
state outlives a call and steps interleave: the storage layer of
`packages/wallet/wallet-toolbox` and the Monitor that works on it, the copying
of a wallet between stores, the authenticated peers of `packages/sdk`, and the
submissions of the overlay engine. TLC checks the modules on small instances;
TLAPS proves most of their safety properties for every value of the constants:
all those of the storage locks, the managed stores and the peers, and the most
important ones of the action lifecycle and the overlay engine (section 4). In
the text below `W/` stands for
`src/packages/wallet/wallet-toolbox/src/`.

## 1. Inventory

| Component | State it keeps | Operations | Hard behaviour | What makes it correct |
|---|---|---|---|---|
| Storage access locks (`W/storage/WalletStorageManager.ts`) | four queues of promise resolvers, `_isAvailable` | `runAsReader`, `runAsWriter`, `runAsSync`, `runAsStorageProvider` | every `await` lets others run; availability changes under a call that is acquiring; a failing `makeAvailable` | one callback at a time, nobody waits for ever, no lock is left behind |
| Managed stores (same file) | `_stores`, the partition into active, backups and conflicting actives, cached user records, `_authId.isActive`; in each store a user record and the data | `makeAvailable`, `addWalletStorageProvider`, `setActive`, `updateBackups`, `syncToWriter` | loops with awaits and no lock, failing requests, restarts in the middle of a switch, retries | an exact partition; the store that accepts writes has everything |
| Action lifecycle (`W/storage/StorageProvider.ts`, `W/storage/methods/`) | `transactions`, `proven_tx_reqs`, `outputs` (`spendable`, `spentBy`) | `createAction`, `processAction`, `sendWith`, `abortAction`, `listActions` with label unfail | posting under an outage, two rows that must agree, proofs that come late | inputs of failed actions come back, outputs of failed actions do not, proofs are final |
| Monitor (`W/monitor/`) | the page of requests a task has read | TaskSendWaiting, CheckForProofs, CheckNoSends, UnFail, FailAbandoned, ReviewStatus, ReviewDoubleSpends | a page is read under one lock and written back under later ones; crash between; timeouts against late proofs | what is mined is completed in the end; what was accepted is not given up early |
| Other Monitor tasks (ReconcilePendingTransactions, ArcSSE, NoSendExpiry, Purge, ReviewUtxos, Reorg, ...) | the same tables | quarantine of inputs, cascade to descendants, expiry, reorganisation | events out of order | not modelled yet |
| Live sync (`W/storage/methods/getSyncChunk.ts`, `EntitySyncState.ts`, `W/storage/sync/`, `W/storage/remoting/`) | in the writer, for each reader: `when`, offsets per table, the map of ids; staged transfers | paging, merging, checkpoints, staged uploads | rows change between pages; replies are lost, uploads arrive late | no row is passed by, a child never precedes its parent, no row goes back, every sync ends |
| internalizeAction, action batches, funding and change selection | transactions, batches, coins | merging, staging, choosing | recovery of interrupted calls, boundary amounts | not modelled yet |
| Services and chaintracks | provider lists, headers | postBeef, getMerklePath, reorganisation | outages, disagreeing providers | external: their answers are choices of the models |
| SDK: authenticated peers (`packages/sdk/src/auth/`) | sessions by nonce and by identity, consumed nonces, waiting calls and messages | `toPeer`, the handlers of the five message types, timeouts, eviction | concurrent handshakes, lost, late, repeated and reordered messages, a full store | the two sides agree on a session, a message is dispatched once, every wait ends |
| Overlay engine (`packages/overlays/overlay/src/Engine.ts`, `storage/knex/`) | outputs with their references, applied transactions, the submission line | `submit`, pruning, eviction | concurrent prunes, evictions outside the line, partial failure, retries | history is kept as long as it is needed, a spent coin stays spent, lookups agree with the storage |
| SDK: remittance | threads of invoices | messages | lost and repeated messages | not modelled yet |
| SDK: primitives, script, transactions | none | pure functions | arithmetic and encodings | out of TLC's reach; the repository's conformance vectors cover them |
| GASP, overlay server, messaging, middleware, network, helpers | databases, connections | exchange, payment | partial failure, replay | not modelled yet |

How the parts interact. The wallet's front end calls WalletStorageManager. The
manager takes its locks, picks the active store and runs a callback on it, so
wallet calls and the writes of Monitor tasks are serialised; but a task spans
several such callbacks, with requests to the network between them. Stores are
reached by function calls or by JSON-RPC and may fail. The Monitor is one loop
that runs its tasks one after the other; it shares nothing with the wallet
calls but the tables. `setActive` and `updateBackups` copy one store to another
under the sync lock, page by page. Two peers meet only through a transport, and
each wallet process, peer or overlay node keeps its own tables: the modules
below do not share variables, and where one relies on what another shows, its
description says so.

`PROJECT.json` lists every component and the hazards, each at the line where it
bites, with the properties that watch it.

## 2. Modules

### StorageLocks (with FifoLine, MCStorageLocks, StorageLocks_proofs)

`queue[l]` is the array of resolvers `readerLocks`, `writerLocks`, `syncLocks`,
`spLocks`; a call is a process that runs from one `await` to the next.

| Code | Action |
|---|---|
| `runAs...` up to the first await of `getActiveLock` | `RunAs` |
| `makeAvailable` awaited by `getActiveLock` returns / throws | `MadeAvailable`, `AvailabilityThrown` |
| the resolver is called and the next queue is asked for | `AcquireNext` |
| `getActive` succeeds / throws | `EnterCallback`, `GetActiveThrows` |
| the callback ends and the `finally` releases | `LeaveCallback` |
| `setActive` clears `_isAvailable` inside its callback | `SwitchActive`, `SwitchEnds` |
| `addWalletStorageProvider` clears it with no lock at all | `AddProvider`, `ProviderAdded` |
| `getAuth` | `GetAuth` |

`thrown` records that an acquisition has thrown: its `finally` then releases
queues the call never joined. `FifoLine` is the abstract specification: one
line, the head may be inside, it leaves and is gone, and the line may be closed
for good. `ImplementsLine` says that the four queues, seen through the reader
queue, do just that, and that the line closes when an acquisition throws.

### ManagedStores (with MCManagedStores, ManagedStores_proofs)

`db[s]`, `data[s]` and `link[<<a, s>>]` are durable: the user's record (which
store is active, and when that was written), the wallet's rows in store `s`, and
its `sync_states` row for syncs from `a`. The manager's
fields are `active`, `backups`, `conflictingActives`, `user` (cached records),
`isAvailable` and `authIsActive`. A call that awaits keeps its local variables
in `proc[p]`. `EnsureFetch`/`EnsureApply` are the two sides of the await in
`ensureStoreAvailable`; `SyncHead` is one page of `syncToWriter`;
`setActive` is the sequence from `SetActive` to `SetActiveEnds`. The sync lock
is a single variable here, since StorageLocks is about the queues; a call that
waits for it is served before one that comes later. When the manager has become
unavailable since a `setActive` queued, `getActiveLock` makes it available again
before it enters the next queue, or finds none left to enter and the call throws
(`SetActiveFindsUnavailable`).

A row is `[of, at]`: what it is and its `updated_at`, which it keeps when it is
merged into another store. A page is one row that is `Pending`, that is dated
`when` or later and beyond the offsets (`counted`), or it is empty, and then
`when` moves to the latest date seen and the sync has ended (`SyncDone`). It does
not end when the target has everything: rows merged into the source with dates
its checkpoint has passed are never pending. The history variable `overtaken`
holds them. Every store has the default basket from the start, which
`findOrInsertUser` inserts with the user; so a first sync always has a row. The
clocks of the stores are taken to agree. `Orderly` behaviours make one call at
a time, the others interleave two and let requests fail. `Filter` keeps the
elements of a sequence that are in a set, by counting positions: the provers know
nothing of `SelectSeq`, whose definition recurs. `Init` lets stores have
served the same user before, which is how conflicts arise.

### ActionLifecycle (with MCActionLifecycle, ActionLifecycle_proofs, ActionReservations_proofs)

`db` is the active store: `tx` (transactions.status), `req` (the
proven_tx_reqs row), `linked` (transactions.provenTxId), `spendable` and
`spentBy` of outputs. `net` and `rivals` are the network: what it knows of each
transaction, and coins that somebody else spent. An action spends one coin and
makes one change output, so chains of actions occur: the change of one is the
coin of the next. Storage calls are single steps, as the locks make them.
Monitor tasks are not: `ReadPage` remembers the rows it read in `monitor.page`,
and `SendWaiting`, `SettleWithoutProof`, `ProofMissing`, `ProofFound`,
`ApplyProof` and `UnFail` write the remembered rows back (`WriteReq`), which is
what `updateStorageDynamicProperties` does. `ReviewStatus` is the four SQL
updates of `reviewStatus.ts`, each on the result of the one before, after
`reconcileCompletedProvenTxReqs`. That reconciliation and `RestoreForProof`
take a set of transactions at once: the code goes through them one by one, in an
order that does not matter, since no two mined transactions spend one coin.

`attemptToPostReqsToNetwork` first merges the BEEF of the request, and that may
fail (`env.merges`). `MergeFailed` is what becomes of the request then: an attempt
is counted, and after more than `MergeLimit` of them (6 in the code), or when an
ancestor is not known to storage, it is invalid, also one that was broadcast.
`Share` and `MergeFails` are the two places where it happens, in a wallet call
and in TaskSendWaiting; as nothing else is in the batch, the posting throws and
ends the call or the task.

What the data abstraction leaves out: amounts, scripts, the content of BEEFs,
histories and notes, ages (whether an action is old enough is a choice), batches of
`sendWith` (one request at a time), baskets and labels, `nonfinal` and noSend
expiry, statuses no modelled code writes (`callback`, `unconfirmed`,
`unknown`). `confirmDoubleSpend` is part of `Posting`: a reported double spend
stands when the status service does not know the transaction, or does not
answer, and the input is no UTXO.

### SyncPaging (with MCSyncPaging, SyncPaging_proofs)

One sync at a time runs on a link from a reader to a writer (it holds the sync
lock of StorageLocks). A row is a key with its `updated_at`; `before[s]` relates
the rows of a table by their ids, the order a table is paged in: `Rank` is where
an offset finds a row among those dated `since` or later. `state[l]` is the
writer's `sync_states` row: `when`, the offsets (`count`), the newest date seen
and the map of ids. A page is the user record, the rows with their dates
(`rows`), and how many tables were asked (`asked`). `GetSyncChunk` and one
`AddItems` per table read a page; `SendInline` merges it in one request, `SendStaged` through a transfer that is
committed only if the checkpoint is still the one the page was read for,
`SendAgain` when the same bytes were committed before. `ProcessSyncChunk` is
the writer's database transaction. `Fail`, `FailAfterSending`,
`FailAfterMerge`, `Arrive` and `Drop` are the network. `Create` and `Update`
are other calls writing rows meanwhile. The history variable `disturbed` holds
the links where a write, by such a call or by the merge of another link, gave a
row the writer lacks a date the checkpoint has passed, or moved a row while a
cycle was counting (`Overtakes`): a property of offsets cannot hold there.

### PeerAuth (with MCPeerAuth, PeerAuth_proofs)

`object[n]` is the PeerSession with session nonce `n`, `stored[p]` the nonces in
`p`'s SessionManager: a handler keeps an object it fetched, also after the
manager dropped it, and may store it again. A process is a call of `toPeer`, the
answer to a request for certificates, or the handler of one delivery, and goes
from await to await: `Claim` after the signature was verified, `MarkAuthenticated`
and `Marked` on the two sides of the await in `markSessionAuthenticated`, and so
on. `initialRequest` is handled in one step, since its session is new.
`InitiateHandshake` stores the session and asks the wallet for the identity key
("keying"); then `SendInitialRequest` sends the request, or, if the wallet has not
given the key before and fails now, `IdentityKeyFails` ends the call and leaves
the session stored (`abandoned`). `ForgetRequest` drops the claim of an initial
request, for its age or to make room for others, so that a repeated request is
answered again (`lapsed`). `GiveUp`
and `ValidationTimesOut` are the timers, `Expire` the removal of a session nobody
has used for long. The transport keeps every message sent and may deliver it
late, never, or (what is in `Repeated`) twice; it cannot forge one. Three
history variables record what the properties except: `forgotten` the sessions
that have left a store by eviction or because their handshake gave up,
`abandoned` those a failed handshake left stored, and `lapsed` the nonces of the
requests whose claim was forgotten.

Not modelled: `requestCertificates` and `processCertificateRequest`, the default
peer `lastInteractedWithPeer`, the capacity of the table of message nonces, at
which `claimMessageNonce` throws.

### OverlayEngine (with MCOverlayEngine, OverlayEngine_proofs, OverlayHistory_proofs)

`rows[t][o]` is the row of output `o` in topic `t`: who spent it (`spentBy`),
the outputs it was built on (`outputsConsumed`) and those built on it
(`consumedBy`). `job` is the submission that has the turn, with its local
variables; `line` the calls waiting on `submissionTail`.

| Code | Action |
|---|---|
| `submit`, up to `await previous`; the turn comes; `finally` | `Submit`; `Start`; `Finish` |
| bad arguments, SPV verification fails | `Refuse` |
| `validateTopicSubmission` | `ValidateTopic` |
| `broadcastAcceptedSubmission`, `abortProvisionalAdmissions` | `Broadcast` |
| `markPreviousOutputSpent` with `markUTXOAsSpent` | `MarkPreviousOutputSpent` |
| `applyTopicStorageMutation`, `removeStaleOutputs` | `NextTopic`, `StaleRemoved`, `TopicApplied` |
| `deleteUTXODeep`: delete, read an ancestor, write its references | `PruneDelete`, `PruneRead`, `PruneWrite` |
| `admitOutput` | `AdmitOutput` |
| `updateConsumedOutput`, `insertAppliedTransaction`, concurrently | `UpdateConsumedOutput`, `InsertAppliedTransaction` |
| `evictAppliedTransaction` | `Evict`, `EvictOutput`, `EvictApplied` |
| a storage call throws; a prune throws; the process stops | `StorageFails`, `PruneFails`, `Crash` |

`Changing(t)` says that topic `t` is neither a dupe nor failed: the loops of
`submit` skip the others (`continue`), and `NextTopic` does. The assumptions of
the module are that a submission names each topic once, which `submit` checks,
that an output is made by one transaction, and that the values that stand for
"no row" and "no submission" are neither.

Topic managers answer anything `validateAdmittanceInstructions` lets through, or
throw. A lookup service holds what it was told (`index`), or misses a
notification (`unheard`): the engine logs the exception and goes on. A
notification and the storage call before it are one step; a stop between the two
is the same as a missed notification. `evictUnprovenTransactions` makes the same
calls for each of its candidates. Not modelled: the admission host
(`EngineAdmission`), anchors and reorganisations, proofs that arrive later,
GASP, the answers to lookups, limits on the number of relations. The mode
`historical-tx-no-spv` is a current transaction here, as in the code, which
broadcasts it although the comment of `submit` says historical ones are not.

## 3. Runs

Bounds are constants of the modules; `CHECK_DEADLOCK FALSE` is set because
every instance stops when its calls have been made and its counters are spent.
`Environments` and `Workloads` are sets from which a behaviour chooses once, so
that one run covers several settings without mixing them.

| Run | Instance | What it shows |
|---|---|---|
| `locks` | 3 calls of any of the 4 kinds, 1 added provider, `makeAvailable` may throw | until an acquisition throws: `MutualExclusion`, `NoLostWaiter`, under fairness `EveryCallEnds`, and `ImplementsLine`; always: `NoLockLeaked`, although releases shift queues the call never joined. Three calls are the least with a holder, a waiter and one that arrives between two acquisitions. |
| `locks_release` (violation) | the same | `SyncBlocksOthers` fails: such a release admits a second callback beside a running sync |
| `stores` | 3 stores and 1 call at a time, with 1 write and 3 switches, or with 2 switches and 1 restart; or 2 stores and 2 interleaved calls with failing requests and 2 switches | orderly: `Partitioned`, `GateMatchesRecords`, `NoWriteLost`, `SwitchTakesEffect`; under fairness, in either case, `EveryCallReturns`. Three stores allow an active, a backup and a conflict at once; two switches allow there and back, and three allow a checkpoint to be passed: one to sync a store, one to merge older rows behind it, one to come back. Two calls are the least for one to hold the lock and one to queue behind it. |
| `stores_retry` (violation) | 2 stores, failing requests | `ConflictsResolved` fails: a failed merge leaves a conflict list from which the target is gone, and a second `setActive` the other way merges nothing |
| `actions` | 2 actions, 1 coin; rejections, rivals and crashes anywhere; or rivals only and no TaskCheckNoSends; or BEEFs that may fail to be merged and nothing else, given up at the first failure | `FailedOutputsDead`, `ReservationsSound`, `NoCoinForgotten`, `StaleInputsStayDead`; in the calm environment `NoDoubleAllocation`, `BroadcastInputHeld`. Two actions on one coin are siblings or parent and child. |
| `actions_live` | 1 action, 2 proof checks, 1 rebroadcast, rejections, outages, rivals, interrupted calls; BEEFs that are always merged, or may fail to be, given up at the second failure | `ProofSettled`, and under fairness `MinedCompletes` |
| `actions_late` (violation) | 1 action | `LateResultKeepsProgress` fails: the page TaskSendWaiting read is written over an `unmined` request before the guard looks at it |
| `peers` | 2 peers, a call from each to the other, 2 sessions each, a store of 2 and a store of 1, one peer asks for certificates, the requests and general messages of one of them may come twice, claims of requests may be forgotten, wallets may fail | `SessionsAgree`, `DispatchedOnce`, `NoLostWakeup`, `HandshakeTidy`, `EstablishedKept`, and under fairness `Settles`. Two sessions are the least with a handshake in each direction; a store of one has to evict. |
| `sync` | 2 stores, 2 transactions and an output of one, pages of 1 or 2 rows, 2 instants, 1 transfer slot; rows written in both stores, or the user record written, or staged pages that arrive late | `NothingSkipped`, `ParentsFirst`, `RowsNeverRegress`, and under fairness `SyncEnds`. Two instants distinguish what was written before a checkpoint from what came after; pages smaller than the data make the offsets matter. |
| `sync_relay` (violation) | 3 stores: one is merged into a second, which is copied to a third | `ReceivedAll` fails: merged rows keep dates the second link has passed |
| `overlay` | a chain of 3 transactions with 2 outputs in the middle; a parent submitted again beside its child; a transaction submitted twice to 2 topics; 1 call waiting, 1 fault (crash, failing call, missed notification or eviction), strict broadcast or not | `HistoryKept`, `ReferencesExact`, `NoResurrection`, `LookupAgrees`, `DupesComplete`, and under fairness `EverySubmissionEnds`. Two outputs with one ancestor are the least for two prunes to meet. |
| `overlay_rejected` (violation) | the same without faults | `RejectedNotBroadcast` fails: a transaction no topic accepts is recorded as applied, and its second submission is accepted as a dupe |

Every property of a passing run has a mutant in `PROJECT.json`: an operator
that stands before the definition it replaces, with a comment that names the
mistake ("With a mistake", "A plausible slip", "As Matches, without ...").

Where a passing property needs a restriction, the restriction is a fact about
the code. `NoWriteLost` is said of one process: a restart in the middle of a
merge leaves records in which the conflict no longer shows. Of what conflicting
stores brought, and of the data in `SwitchTakesEffect`, the rows merged behind a
checkpoint (`overtaken`) are left out: no sync from that store sends them any
more, as `sync_relay` shows. With three stores and three switches they occur in
`stores`: a used store is merged into the active one after a backup, and the next
switch enables the backup. What was written through the manager is never among
them. `Partitioned` is
checked with one call at a time: overlapping calls of `makeAvailable` append a
store twice. `ProofSettled` is checked without crashes
inside the Monitor: after a stop between the two database transactions of
`updateProvenTxReqWithNewProvenTx` an abort can invalidate a request that has
its proof, and `reviewStatus` then fails the action and completes it in turn.
`NoDoubleAllocation` and `BroadcastInputHeld` are said of environments without
outages, without failing merges and without TaskCheckNoSends (`Calm`): a nosend transaction aborted while the status service
is unreachable, or revived by the stale write of TaskCheckNoSends, may have its
coin given to another action until the network decides. `FailedOutputsDead` and
`ReservationsSound` are checked without outages, with merges that fail only where
nothing else does, and with `maxRebroadcastAttempts` 0, the default of the code: with a limit on
rebroadcasts, a transaction that was broadcast can be given up by a proof
timeout and found mined later, when its input has been freed. With outages, a
double spend that is reported while the status
service is unreachable may fail a child and then be recovered by TaskUnFail
although its parent has failed; when the child is refused again,
`updateTransactionStatus` frees its input without looking at the parent, and
the output of the failed parent is offered. `MinedCompletes` leaves out the
requests the wallet has given up (`GivenUpFor`): a broadcast one whose
rebroadcasts are used up, or whose BEEF failed to be merged too often when it was
posted again, becomes invalid, and `reviewStatus` fails its transaction although
it may be mined; TaskCheckForProofs no longer reads them. `SessionsAgree`
lets the other side's session be paired with another one of the same peer where
the claim of a request was forgotten (`lapsed`): the repeated request makes a
second session, and its response replaces the peer nonce of a session whose first
partner is authenticated already. `HandshakeTidy` leaves out the sessions of
handshakes that failed to get the identity key (`abandoned`), which nothing but
the idle limit removes. `DispatchedOnce` is said of
messages in sessions that no store has dropped (`forgotten`): one that is evicted,
or removed by a handshake that gives up, between a handler's `getSession` and
its `updateSession` is stored again without the nonces it had consumed. `NothingSkipped` and `ParentsFirst` leave out `disturbed` links, and
inline uploads are never late in `sync`: the writer compares checkpoints for
staged ones only, and counts a late inline page twice. `ReferencesExact` leaves
out prunes that crossed: two stale outputs of one submission with a common
ancestor are pruned at the same time, each writes back the references it read
less its own, and the ancestor keeps a reference to a deleted output for ever.
`NoResurrection` and `LookupAgrees` leave out the outputs of transactions that
were interrupted or evicted: the retry of an interrupted submission inserts and
announces its outputs again, whatever became of them since.

Two more disagreements with the documentation have an action but no run. A stop
in `processAction` after the posting leaves a request `unprocessed`, which no
task reads, while the lifecycle document calls every status but three eligible
for the Monitor's attention. The label `unfail` of `listActions` marks the
transaction, while TaskUnFail reads marked requests. `PROJECT.json` lists both
as hazards.

### Fairness

StorageLocks: `WF` on every continuation of a call and on the end of a provider
being added. The JavaScript event loop runs every promise that is resolved, and
a request to a store is answered or fails. ManagedStores: the same.
SyncPaging: `WF` on the steps of the sync under way, for the same reason; none
on the network or on the writers of rows. PeerAuth: `WF` on the continuations
and on the timers; none on deliveries. OverlayEngine: `WF` on the engine's own
steps: managers, lookup services, broadcaster and database answer or throw.

ActionLifecycle: `WF` on the steps of a task that has a page in hand and on
ReviewStatus, `SF` on reading a page and on TaskReviewDoubleSpends (the Monitor's loop
comes back to each task, which may find nothing in between), `SF` on finding a proof that exists
(a service that is asked again and again answers at some point), and the
assumption that service errors and repeated `sendWith` calls stop at some
point: each service error counts as a failed attempt, so that without it a
transaction may be given up however often it is sent. No fairness is assumed of
the network or of the wallet's callers.

## 4. Proofs

A theorem holds for every value of the constants that meets the assumptions of
its module. These fix no sizes: the first store is one of the stores and a
behaviour's environment is made of stores and calls (ManagedStores), callers and
callees are peers and the bounds are positive (PeerAuth), a submission names no
topic twice (OverlayEngine), coins and transactions have different names
and `MergeLimit` is not above `ProofLimit` (ActionLifecycle), and a row refers to a row of an earlier table (SyncPaging).
TLC evaluates the assumptions on every run. Each inductive invariant was first checked by TLC on the instance
of the component's run.

### StorageLocks

`StorageLocks_proofs` proves, for any set of calls and providers and without
assuming anything of `makeAvailable`:

| Theorem | Statement |
|---|---|
| `TypeCorrect` | `Spec => []TypeOK` |
| `CallbacksExclude` | `Spec => []MutualExclusion` |
| `WaitersKept` | `Spec => []NoLostWaiter` |
| `UpperQueuesFree` | `Spec => []UpperLocksUncontended` (proved only; no run checks it) |
| `NothingLeaked` | `Spec => []NoLockLeaked` |
| `LocksImplementLine` | `Spec => ImplementsLine` |

All but the first and `NothingLeaked` speak of the time before the first
acquisition that throws (`~thrown`); `locks_release` shows that they fail after
it.

None of the properties is inductive. `MutualExclusion` alone says nothing of
who may enter next. The inductive invariant `LockInv`, which is claimed while
`~thrown`, adds to `TypeOK`:

- `LineExact`: the reader queue holds exactly the calls that are in line (they
  wait for it or are past it), each once;
- `HeadAdmitted`: only the head of the reader queue is past it, that is, was
  woken, or acquires an upper queue, or runs its callback;
- `UpperOwned`: an upper queue holds at most one resolver, which belongs to the
  head of the reader queue, and no queue above the one it is acquiring is taken;
- `NeedCovers`: a call never acquires more queues than it will release.

Preservation is shown for the things actions do to the queues: a push on the
reader queue, a push on an upper one (by the head only, so it is alone there and
is woken at once), and a release (by the head only, so that what is shifted out
is its own, and the next in line becomes the head). Refinement follows from the
same invariant: a push on the reader queue is `Join`, entering the callback is
`Enter`, a release is `Leave`, the first exception is `Close`, and all else
stutters.

`NothingLeaked` needs another argument, since after an exception the queues no
longer tell whose resolvers they hold. `ReleaseInv` counts instead: no queue
holds more resolvers than there are calls under way that will still release it.
A push comes from a call that will release what it pushed; a release shifts one
resolver, if there is any, and takes one call off the count. When no call is
under way the count is zero, and so every queue is empty.

### ManagedStores

`ManagedStores_proofs` covers any set of stores, any number of calls, switches,
writes and restarts:

| Theorem | Statement |
|---|---|
| `StoresSound` | `Spec => []StoresInv` |
| `TypeCorrect` | `Spec => []TypeOK` |
| `StoresPartitioned` | `Spec => []Partitioned` |
| `GateAgrees` | `Spec => []GateMatchesRecords` |
| `WritesKept` | `Spec => []NoWriteLost` |
| `SwitchEffective` | `Spec => SwitchTakesEffect` |

`StoresInv` has six parts. Two hold in every environment. `CallsInv`: a call in a
loop is at a position of the list, a call that syncs has the lock, records are
dated by the clock, and the clock plus the number of switches that have yet to
mark a store stays within the switches made, which bounds the dates. `LinkInv`
says what a checkpoint means: a row of the source dated before `when` is in the
target, or is `overtaken`; the rows the offsets count are in the target. So a
sync that has come to its empty page has brought all of the source but those
rows. The other four hold with one call at a time:

- `PartitionInv`: in the loop of `makeAvailable`, the active store and the local
  list are the stores visited so far; once it has ended, `Filter` splits that
  list, so that every store has one place, the gate agrees with the records, and
  the backups are the stores whose record names the active one.
- `SwitchInv`: a switch works on managed stores only. After it marked its source,
  no record is newer, so a page that carries the source's record always replaces
  the other; each store taken off the list has the choice and the source's data.
  In the loop of `makeAvailable` that ends the switch, all cached records name
  the target, so the selection keeps it once it has come to it, and no store
  conflicts.
- `DataInv` (before a restart), of all rows but the overtaken ones: a store has
  no more than the store its cached record names, which names itself; while
  conflicts are merged, every store's data is in the target or in a store still
  to be merged; while the choice is pushed, it is all in the source.
- `WrittenInv` (before a restart): a row written through the manager is never
  overtaken. A store without it has nothing newer, no newer record and no
  checkpoint past it, unless it is being synced from a store that has it; so when
  the row comes, no sync from that store has gone past it. `NoWriteLost` follows
  from these two, since an enabled active store is named by every other.

The lemmas on `Filter` (what it keeps, and that the elements kept by a set and by
its complement add up) rest on the library's facts about finite sets.

### ActionLifecycle

`ActionLifecycle_proofs`, for any number of actions and coins, in every
environment (outages, rivals, crashes, any choice of tasks and limits):

| Theorem | Statement |
|---|---|
| `ActionsSound` | `Spec => []ActionInv` |
| `TypeCorrect` | `Spec => []TypeOK` |
| `CoinsRemembered` | `Spec => []NoCoinForgotten` |
| `StaleStayDead` | `Spec => StaleInputsStayDead` |
| `ProofsSettled` | `Spec => []("task" \notin Crashes => ProofSettled)` |

`ActionInv` is `TypeOK` with three parts, each stated of a store rather than of
the variable, so that it can be followed through the writes that make up a step.
`CoinInv`: a coin nobody holds and nobody has spent is offered, a held one is not
and its holder consumes it, the change of a failed action is held only by a mined
one. `RowInv`: which statuses `transactions` and `proven_tx_reqs` may have
together, and what a proof implies. `PageInv`: what the Monitor remembers of a
request it has read, and what nobody else does to that request meanwhile.

`ActionReservations_proofs` adds, for `MaxRebroadcast = 0` and services that
answer and BEEFs that can be merged (`~Outages /\ ~Merges`), with rejections, rivals, stale writes and crashes:

| Theorem | Statement |
|---|---|
| `ReservationsKept` | `Spec => []ReservationInv` |
| `ReservationsHold` | `Spec => [](~Outages /\ ~Merges => ReservationsSound)` |
| `FailedStayDead` | `Spec => [](~Outages /\ ~Merges => FailedOutputsDead)` |

A failed action's change may be held: TaskUnFail or a late proof brings a child
back whose parent has failed. If that child failed again its input would be
freed without a look at the parent. `ReservationInv` says why it does not: the
child is mined, and its rows as well as the Monitor's copy of its request say
that it was broadcast, and a request that was broadcast is not given up with
these settings. `ReservationsKept` needs the conditions: TLC finds
counterexamples with outages and with a limit of 1.

The same module proves, for a calm environment (`Calm`: the services answer and
accept, BEEFs are merged, no call is interrupted, TaskCheckNoSends does not run) with aborts,
rivals, late proofs, stale pages and reviews:

| Theorem | Statement |
|---|---|
| `CalmKept` | `Spec => []CalmInv` |
| `AllocatedOnce` | `Spec => []NoDoubleAllocation` |
| `BroadcastHeld` | `Spec => []BroadcastInputHeld`, if `MaxRebroadcast = 0` |

`CalmInv` follows claims rather than holders. An action that was begun lays
claim to its input (`Claimant`) until it is given up and no row and no page can
bring it back (`Over`); no two claimants have one input, and a claimed coin is
held by its claimant, or by nobody and not offered. An action that has failed
without being `Over` is one the network can never accept (`Blocked`), so the
services confirm that its input is no UTXO when it is refused, and the coin is
set aside, not freed. Blocked actions stay blocked: a transaction the network
knows has an unspent or own input and known ancestors, which `NetInv` says of
every known one. A request marked broadcast is known to the network, and so never
failed by anything but the limit of rebroadcasts: with a limit, TLC finds the
input of a broadcast transaction offered again, and `BroadcastHeld` says so in
its hypothesis.

### SyncPaging

`SyncPaging_proofs`, for any stores and links, any number of rows and tables, and
pages of any size, with rows written in any store at any time, syncs that fail,
uploads that arrive late and transfers that are committed and not released:

| Theorem | Statement |
|---|---|
| `SyncSound` | `Spec => []SyncInv` |
| `TypeCorrect` | `Spec => []TypeOK` |
| `NoRegress` | `Spec => RowsNeverRegress` |
| `SyncCovered` | `Spec => []CoverInv` |
| `NeverSkips` | `Spec => [](Careful(env) => NothingSkipped)` |
| `ParentsReach` | `Spec => [](Careful(env) => ParentsFirst)` |

`SyncInv` says what holds of the stores (their rows are finitely many, in a linear
order of ids, with their parents), of a page under way or late (its rows are rows
of the reader, of the tables asked), of the request under way while nothing is
late (it is not behind the sync state), and of a kept transfer (its rows have been
merged, and the checkpoint it records is that of its request with them counted).

`CoverInv` is the argument about offsets, for links no write has overtaken. A row
is safe when the writer has it, as new, and knows its id; a page holds it when it
has its latest version. `Covered` says of a checkpoint (`since`, and so many rows
of each table counted) that every row behind it, by its date or by its position
among the rows dated `since` or later, is safe, and that it counts no more rows
than there are. It holds of the sync state, and, with the rows of the page counted
and safe or held, of the request under way and of every late upload. It is kept
because

- new rows come after the rows of their tables, so that positions never shrink,
  and what else is written is overtaken (`CoveredGrows`);
- a query adds to the page the rows at the positions it counts (`CoveredPart`):
  in a finite linear order the rows from position a on, up to m of them, are at
  positions a to a + m - 1 (`PartFits`), which is shown by well-founded induction
  on the positions;
- a merge makes the rows of its page safe, and counts them from the sync state,
  which is not ahead of the request (`RowsCover`);
- when the last page is empty, no table has a row beyond its offset, so what is
  not safe was written since and is no older than the new `when` (`Drained`,
  `LastCovers`); a late upload may move `when` on by its newest date, which
  `Drained` allows for.

`Careful(env)` is the condition that no upload is late, or that all uploads that
have rows are staged; every environment of `sync` meets it. It is needed: the
writer counts an inline page on top of whatever its offsets are by then. With
inline uploads that arrive late, and also with staged ones that arrive late
beside inline ones, TLC finds rows that are passed by.

### PeerAuth

`PeerAuth_proofs`, for any peers, calls and sessions and any capacity of the
SessionManagers, with messages lost, late, repeated and reordered:

| Theorem | Statement |
|---|---|
| `SessionsSound` | `Spec => []SessionInv` |
| `TypeCorrect` | `Spec => []TypeOK` |
| `PeersAgree` | `Spec => []SessionsAgree` |
| `DeliveredOnce` | `Spec => []DispatchedOnce` |
| `NoWakeupLost` | `Spec => []NoLostWakeup` |
| `HandshakesTidied` | `Spec => []HandshakeTidy` |
| `EstablishedStay` | `Spec => EstablishedKept` |

`SessionInv`: a nonce not yet created appears nowhere (`Fresh`); a handler works
on the session its message names, which it keeps also when the store drops it
(`Proper`); and `Pairing` follows a handshake: a response names the session that
was asked for, a session that answers a request names it, and there is only one
as long as the claim of the request has not been forgotten; so an authenticated
session is named by its partner, or its partner answers a request that was
answered more than once. For `DeliveredOnce`,
`DispatchInv` counts deliveries (each copy is on its way, in a handler,
dispatched or dropped) and says that one handler at most is past the claim, and
that the message stays claimed or its session can come back to no store.

### OverlayEngine

`OverlayEngine_proofs`, for any topics, transactions, outputs and calls and any
number of faults:

| Theorem | Statement |
|---|---|
| `EngineSound` | `Spec => []EngineInv` |
| `TypeCorrect` | `Spec => []TypeOK` |
| `RecordsComplete` | `Spec => []DupesComplete` |
| `SpentStaysSpent` | `Spec => []NoResurrection` |
| `LookupsFollow` | `Spec => []LookupAgrees` |

`EngineInv`: `Turns` (one submission has the turn and no call waits twice),
`JobInv` (the topics still to be changed have not recorded the transaction, and
what is taken off the list of outputs to admit is written) and `OutputsSound`
(whatever was ever written is of a transaction that is recorded, was interrupted
or evicted, or is being admitted now; the index is the set of unspent rows).

`OverlayHistory_proofs` proves `HistoryStays`,
`Spec => [](evicted = {} => HistoryKept)`, for concurrent prunes that share
ancestors. The argument is about one output `c` of one topic: an output built on
`c` is among the references of `c` unless these were not written yet; a prune
that has read the references of `c` and will write them back keeps every output
but the one it deleted; and two prunes take different references off. So an
ancestor that a prune finds bare is nobody's ancestor. `evicted = {}` is
needed: `evictAppliedTransaction` deletes outputs outside the line.

On top of that invariant it proves `ReferencesKept`, `Spec => []ReferencesExact`.
The property speaks of states in which nothing was interrupted or evicted and no
ancestor was held by two prunes at once (`Plain`); none of these can be taken back,
so the inductive invariant is `Plain => RefsInv`, and its parts are:

- `Awaited`: prunes are under way only in the step of their submission that waits
  for them, so no row changes under the submission that writes references.
- `Listed`: every output built on `c` is among the references of `c`, or the
  submission that admitted it still is to write them (`Owes`).
- `Backed`: every reference is an output built on `c`, or a prune has deleted that
  output and is at work on `c` to take the reference off.
- `HeldAlone`, `HeldExact`: the row a prune has read is held by it alone and is as
  in the storage but for the prune's own reference, so that writing it back takes
  off one reference and restores none. This is where crossing prunes fail.
- `BuiltSoFar`: what the submission has admitted to its topic is stored and built on
  the coins it retains. `insertOutput` would leave a row that is there alone; that
  no such row exists (`Unstored`) is from `EngineInv`: it would belong to a recorded
  transaction, and the topic has not recorded this one.

At rest no submission owes anything and no prune works on anything, and `Listed`
and `Backed` are the two halves of the equation.

### Only model-checked

- Liveness, which is out of the prover's reach: `EveryCallEnds`,
  `EveryCallReturns`, `MinedCompletes`, `Settles`, `SyncEnds`,
  `EverySubmissionEnds`.
- `HistoryKept` after evictions.
- `BroadcastInputHeld` with a limit of rebroadcasts is false (see above); what
  the runs check is the case of `BroadcastHeld`.
- `NothingSkipped` and `ParentsFirst` where `Careful(env)` does not hold are
  false (see above).

## 5. Plan

Written so far: StorageLocks, FifoLine, ManagedStores, ActionLifecycle,
SyncPaging, PeerAuth, OverlayEngine, and theorems about all of them. No module
declares a RECURSIVE operator.

Worth proving next: what `HistoryKept` says of transactions that are not evicted
themselves once others are. What needs induction over positions or counts can be had from the
least element of a set of natural numbers (`Least` in `SyncPaging_proofs`), which
takes no operator as a parameter.

Components worth modelling next: TaskReconcilePendingTransactions, TaskArcSSE,
noSend expiry and `internalizeAction` in ActionLifecycle; reorganisations (headers,
TaskReorg and the proofs that rest on them); the admission host of the overlay
engine; remittance and GASP as two parties over an unreliable channel; the
payment middleware on top of PeerAuth.

## 6. Not modelled

- Cryptography, script evaluation, big numbers and encodings
  (`packages/sdk/src/primitives`, `script`, `transaction`): pure functions over
  large domains, out of TLC's reach and covered by the conformance vectors.
- Change selection (`generateChange.ts`): arithmetic over amounts and fees whose
  interesting cases need larger numbers than TLC enumerates.
- The network services, chaintracks and block headers: external, their answers
  are choices of the models.
- The wallet's front end, permissions and key managers; messaging clients;
  HTTP servers, routes and configuration; tokens, templates and helpers: they
  keep little state of their own, or are clients of the modelled parts.
