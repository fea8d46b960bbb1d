---------------------------- MODULE SyncPaging ----------------------------
(***************************************************************************)
(* Copying one wallet's rows from a reading store to a writing store, page *)
(* by page (syncFromReader, syncToWriter).                                 *)
(*                                                                         *)
(* The writer keeps a checkpoint for each reader: `when` (rows updated     *)
(* earlier have been received), the offsets into the rows updated since,   *)
(* the newest date seen and the map of the reader's ids to its own.  A     *)
(* page of rows is read from the reader, one query per table in dependency *)
(* order, and merged by the writer in one database transaction with the    *)
(* checkpoint.  A remote writer gets a large page as a staged transfer,    *)
(* which it commits only against the checkpoint the page was read for.     *)
(*                                                                         *)
(* A row is a key and its updated_at; which of two versions is newer is    *)
(* all that a merge looks at.  0 stands for `never`.                       *)
(***************************************************************************)
EXTENDS Naturals, FiniteSets, FiniteSetsExt

CONSTANTS
    Stores,      \* the stores
    Links,       \* <<reader, writer>> pairs a sync may run on
    Entities,    \* number of tables, in dependency order
    Keys,        \* rows: what mergeFind recognises in another store (a txid)
    Kind,        \* Kind[k]: the table of row k
    Parent,      \* Parent[k]: the row k refers to, or k itself for none
    Slots,       \* transfers a writer keeps for one wallet (2 in the code)
    Environments,\* what the stores and the network may do (see env)
    MaxTime      \* bound on the clock

Tables == 1..Entities
Uploads == {"inline", "staged"}
Times == 0..MaxTime

ASSUME LinksAssumption == Links \subseteq {l \in Stores \X Stores : l[1] # l[2]}
ASSUME RowsAssumption ==
    /\ Kind \in [Keys -> Tables]
    /\ Parent \in [Keys -> Keys]
    /\ \A k \in Keys : Parent[k] # k => Kind[Parent[k]] < Kind[k]
ASSUME BoundsAssumption == {Entities, Slots, MaxTime} \subseteq Nat \ {0}

(***************************************************************************)
(* sizes: how many rows a page may come to (maxItems, maxRoughSize);       *)
(* sends: how a page with rows in it may be sent (its size decides); late: *)
(* which uploads may reach the writer after their sender has given up on   *)
(* them, one at a time; writes: the <<store, row>> pairs that other calls  *)
(* write; users: the stores whose user record they write.                  *)
(***************************************************************************)
ASSUME EnvironmentsAssumption ==
    Environments \subseteq [sizes : SUBSET (Nat \ {0}), sends : SUBSET Uploads,
                            late : SUBSET Uploads,
                            writes : SUBSET (Stores \X Keys), users : SUBSET Stores]

VARIABLES
    env,       \* the environment this behaviour runs in; it never changes
    now,       \* the clock the stores date their rows by
    at,        \* at[s][k]: updated_at of row k in store s, 0 if it has none
    before,    \* before[s]: the pairs of rows of a table of s in the order of ids
    user,      \* user[s]: updated_at of the wallet's user record in store s
    state,     \* state[l]: the sync state the writer keeps for the reader
    job,       \* the sync under way, if any (it holds the sync lock)
    late,      \* uploads whose sender has given up
    kept,      \* committed staged transfers that were not released
    disturbed  \* (history) links overtaken by a write: see Overtakes

vars == <<env, now, at, before, user, state, job, late, kept, disturbed>>

(***************************************************************************)
(* A sync is ready (it has a request to send), reading (the page is being  *)
(* put together) or uploading (the page goes to the writer).               *)
(***************************************************************************)
NoJob == [phase |-> "none"]
NoRows == [k \in {} |-> 0]
Running == job # NoJob

Requests == [since : Times, offsets : [Tables -> Nat]]
Versions == UNION {[S -> Times] : S \in SUBSET Keys}
Pages == [user : Times, rows : Versions, asked : 0..Entities]
Jobs == [phase : {"ready", "reading", "uploading"}, link : Links, request : Requests,
         room : Nat, user : Times, rows : Versions, asked : 0..Entities]
Sent == [link : Links, request : Requests, page : Pages, kind : Uploads]

RowsOf(s) == {k \in Keys : at[s][k] > 0}

\* The rows of a table have different ids.
Ordered(s) ==
    /\ \A j, k \in Keys :
          /\ <<j, k>> \in before[s] => {j, k} \subseteq RowsOf(s) /\ Kind[j] = Kind[k]
          /\ {j, k} \subseteq RowsOf(s) /\ Kind[j] = Kind[k] =>
                j = k \/ <<j, k>> \in before[s] \/ <<k, j>> \in before[s]
          /\ <<j, k>> \in before[s] => <<k, j>> \notin before[s]
    /\ \A i, j, k \in Keys :
          <<i, j>> \in before[s] /\ <<j, k>> \in before[s] => <<i, k>> \in before[s]

TypeOK ==
    /\ env \in Environments
    /\ now \in Times
    /\ at \in [Stores -> [Keys -> Times]]
    /\ before \in [Stores -> SUBSET (Keys \X Keys)]
    /\ \A s \in Stores : Ordered(s)
    /\ user \in [Stores -> Times]
    /\ state \in [Links -> [when : Times, max : Times, mapped : SUBSET Keys,
                            count : [Tables -> Nat]]]
    /\ job \in Jobs \cup {NoJob}
    /\ late \subseteq Sent
    /\ kept \subseteq [upload : Sent, next : Requests]
    /\ disturbed \subseteq Links

Init ==
    /\ env \in Environments
    /\ now = 1
    /\ at = [s \in Stores |-> [k \in Keys |-> 0]]
    /\ before = [s \in Stores |-> {}]
    /\ user = [s \in Stores |-> 0]
    /\ state = [l \in Links |-> [when |-> 0, max |-> 0, mapped |-> {},
                                 count |-> [e \in Tables |-> 0]]]
    /\ job = NoJob
    /\ late = {}
    /\ kept = {}
    /\ disturbed = {}

-----------------------------------------------------------------------------
(***************************************************************************)
(* Writing rows.                                                           *)
(***************************************************************************)

\* Some page of link l has been merged in this cycle, or is on its way.
CycleOpen(l) ==
    \/ \E e \in Tables : state[l].count[e] > 0
    \/ Running /\ job.link = l
    \/ \E u \in late : u.link = l

(***************************************************************************)
(* Row k of the reader of l gets date t.  The write is overtaken when the  *)
(* rows dated later have been asked for already, or while a cycle is under *)
(* way: when it moves a row among those the cycle has counted, or brings   *)
(* one that is older than the rows on their way.                           *)
(***************************************************************************)
Overtakes(l, k, t) ==
    /\ at[l[2]][k] < t \/ k \notin state[l].mapped
    /\ \/ t < state[l].when \/ t < state[l].max
       \/ CycleOpen(l) /\ (k \in RowsOf(l[1]) \/ t < now)

Disturb(s, W) ==
    disturbed' = disturbed \cup
        {l \in Links : l[1] = s /\ \E r \in W : Overtakes(l, r.key, r.date)}

\* New rows K of store s come after the rows of their tables.
NewIds(s, K) == {p \in RowsOf(s) \X K : Kind[p[1]] = Kind[p[2]]}

\* A wallet call inserts row k, after the row it refers to.
Create(s, k) ==
    /\ <<s, k>> \in env.writes
    /\ at[s][k] = 0
    /\ Parent[k] # k => at[s][Parent[k]] > 0
    /\ at' = [at EXCEPT ![s][k] = now]
    /\ before' = [before EXCEPT ![s] = @ \cup NewIds(s, {k})]
    /\ Disturb(s, {[key |-> k, date |-> now]})
    /\ UNCHANGED <<env, now, user, state, job, late, kept>>

\* A wallet call or a monitor task updates row k.
Update(s, k) ==
    /\ <<s, k>> \in env.writes
    /\ at[s][k] \in 1..(now - 1)
    /\ at' = [at EXCEPT ![s][k] = now]
    /\ Disturb(s, {[key |-> k, date |-> now]})
    /\ UNCHANGED <<env, now, before, user, state, job, late, kept>>

\* setActive writes the name of the active store into the user record.
UpdateUser(s) ==
    /\ s \in env.users
    /\ user[s] < now
    /\ user' = [user EXCEPT ![s] = now]
    /\ UNCHANGED <<env, now, at, before, state, job, late, kept, disturbed>>

Tick ==
    /\ now < MaxTime
    /\ now' = now + 1
    /\ UNCHANGED <<env, at, before, user, state, job, late, kept, disturbed>>

-----------------------------------------------------------------------------
(***************************************************************************)
(* Reading a page.                                                         *)
(***************************************************************************)

\* makeSyncCheckpoint: where the next page starts.
Checkpoint(st) == [since |-> st.when, offsets |-> st.count]

\* The sync takes the lock and loads the writer's checkpoint.
StartSync(l) ==
    /\ ~Running
    /\ job' = [phase |-> "ready", link |-> l, request |-> Checkpoint(state[l]),
               room |-> 0, user |-> 0, rows |-> NoRows, asked |-> 0]
    /\ UNCHANGED <<env, now, at, before, user, state, late, kept, disturbed>>

\* The reader starts a page: it reads the user record first.
GetSyncChunk(m) ==
    /\ Running /\ job.phase = "ready"
    /\ LET u == user[job.link[1]]
           since == job.request.since
       IN job' = [job EXCEPT !.phase = "reading", !.room = m,
                             !.user = IF since = 0 \/ u > since THEN u ELSE 0]
    /\ UNCHANGED <<env, now, at, before, user, state, late, kept, disturbed>>

\* The rows of table e in store s dated `since` or later.
FindItems(s, e, since) == {k \in RowsOf(s) : Kind[k] = e /\ at[s][k] >= since}

\* How many of them come before row k: where an offset finds it.
Rank(s, k, since) ==
    Cardinality({j \in FindItems(s, Kind[k], since) : <<j, k>> \in before[s]})

\* The next table is queried, until all have been or the page is full.
AddItems ==
    /\ Running /\ job.phase = "reading"
    /\ LET s == job.link[1]
           e == job.asked + 1
           since == job.request.since
           from == job.request.offsets[e]
           part == {k \in FindItems(s, e, since) :
                        Rank(s, k, since) >= from /\ Rank(s, k, since) < from + job.room}
           full == Cardinality(part) = job.room
       IN job' = [job EXCEPT !.rows = [k \in DOMAIN job.rows \cup part |->
                                          IF k \in part THEN at[s][k] ELSE job.rows[k]],
                             !.asked = e,
                             !.room = IF e = Entities THEN 0 ELSE @ - Cardinality(part),
                             !.phase = IF e = Entities \/ full THEN "uploading" ELSE "reading"]
    /\ UNCHANGED <<env, now, at, before, user, state, late, kept, disturbed>>

-----------------------------------------------------------------------------
(***************************************************************************)
(* Merging a page.                                                         *)
(***************************************************************************)
KeysOf(page) == DOMAIN page.rows

\* Every table was asked, and none had a row left.
LastPage(page) == page.asked = Entities /\ KeysOf(page) = {}

\* A row can be merged once the id of the row it refers to is known.
Mergeable(st, page) ==
    \A k \in KeysOf(page) : Parent[k] \in st.mapped \cup KeysOf(page)

\* As MergedDates, without the comparison of the dates.
MergedDatesBlindly(w, page) ==
    [k \in Keys |-> IF k \in KeysOf(page) THEN page.rows[k] ELSE at[w][k]]

\* The newer version of a row is kept, an unknown row is inserted as it is.
MergedDates(w, page) ==
    [k \in Keys |-> IF k \in KeysOf(page) /\ page.rows[k] > at[w][k]
                    THEN page.rows[k] ELSE at[w][k]]

\* As Inserted, without the search for the row by its txid.
InsertedAlways(w, page) == KeysOf(page)

Inserted(w, page) == KeysOf(page) \ RowsOf(w)

\* The rows inserted get ids in the order the reader had them in, which its
\* rows never leave.
MergedOrder(l, page) ==
    LET news == Inserted(l[2], page)
    IN before[l[2]] \cup NewIds(l[2], news) \cup (before[l[1]] \cap (news \X news))

\* The newest date of the page and of those before it in the cycle.
Newest(st, page) == Max({st.max} \cup {page.rows[k] : k \in KeysOf(page)})

\* The offsets after the page.
Counted(offsets, page) ==
    [e \in Tables |-> offsets[e] + Cardinality({k \in KeysOf(page) : Kind[k] = e})]

\* As NextState, with the offsets left as they were.
NextStateUncounted(w, st, page) ==
    IF LastPage(page)
    THEN [st EXCEPT !.when = st.max]
    ELSE [st EXCEPT !.mapped = @ \cup KeysOf(page), !.max = Newest(st, page)]

\* As NextState, with the map of ids not saved.
NextStateUnmapped(w, st, page) ==
    IF LastPage(page)
    THEN [st EXCEPT !.when = st.max, !.count = [e \in Tables |-> 0]]
    ELSE [st EXCEPT !.max = Newest(st, page), !.count = Counted(@, page)]

\* The sync state after the page; w's own user record decides on the user's.
NextState(w, st, page) ==
    IF LastPage(page)
    THEN [st EXCEPT !.when = IF page.user > user[w] /\ page.user > st.max
                             THEN page.user ELSE st.max,
                    !.count = [e \in Tables |-> 0]]
    ELSE [st EXCEPT !.max = Newest(st, page),
                    !.mapped = @ \cup KeysOf(page),
                    !.count = Counted(@, page)]

(***************************************************************************)
(* processSyncChunk: rows, user record and sync state change together.     *)
(***************************************************************************)
ProcessSyncChunk(l, page) ==
    LET w == l[2]
        dates == MergedDates(w, page)
    IN /\ Mergeable(state[l], page)
       /\ at' = [at EXCEPT ![w] = dates]
       /\ before' = [before EXCEPT ![w] = MergedOrder(l, page)]
       /\ user' = [user EXCEPT ![w] = Max({@, page.user})]
       /\ state' = [state EXCEPT ![l] = NextState(w, @, page)]
       /\ Disturb(w, {[key |-> k, date |-> dates[k]] :
                         k \in {x \in Keys : dates[x] # at[w][x]}})

Page == [user |-> job.user, rows |-> job.rows, asked |-> job.asked]
Upload(kind) == [link |-> job.link, request |-> job.request, page |-> Page, kind |-> kind]

\* A page without rows is never too large for one request.
Sendable(kind) == IF KeysOf(Page) = {} THEN kind = "inline" ELSE kind \in env.sends

(***************************************************************************)
(* The sync goes on from the checkpoint the writer returned, or ends: the  *)
(* page was the last one, or the checkpoint is behind the one sent.        *)
(***************************************************************************)
Continue(next) ==
    job' = IF LastPage(Page) \/ next.since < job.request.since
           THEN NoJob
           ELSE [job EXCEPT !.phase = "ready", !.request = next,
                            !.room = 0, !.user = 0, !.rows = NoRows, !.asked = 0]

Uploading == Running /\ job.phase = "uploading"

\* The page is sent in one request.
SendInline ==
    /\ Uploading /\ Sendable("inline")
    /\ ProcessSyncChunk(job.link, Page)
    /\ Continue(Checkpoint(state'[job.link]))
    /\ UNCHANGED <<env, now, late, kept>>

\* As Matches, without requireMatchingCheckpoint.
MatchesAny(u) == TRUE

\* The checkpoint is still the one the page was read for.
Matches(u) == Checkpoint(state[u.link]) = u.request

\* The transfers kept for upload u: the same bytes, committed before.
KeptFor(u) == {c \in kept : c.upload = u}

(***************************************************************************)
(* A page is staged in a free slot; commitSyncTransfer merges it and then  *)
(* records the result with it.                                             *)
(***************************************************************************)
Commit(u) ==
    /\ KeptFor(u) = {}
    /\ Cardinality(kept) < Slots
    /\ Matches(u)
    /\ ProcessSyncChunk(u.link, u.page)

Record(u) == kept' \in {kept, kept \cup
                 {[upload |-> u, next |-> Checkpoint(state'[u.link])]}}

\* The page is staged and committed; the release that follows may be lost.
SendStaged ==
    /\ Uploading /\ Sendable("staged")
    /\ Commit(Upload("staged"))
    /\ Record(Upload("staged"))
    /\ Continue(Checkpoint(state'[job.link]))
    /\ UNCHANGED <<env, now, late>>

\* The same bytes were committed before: their recorded result is returned.
SendAgain ==
    /\ Uploading /\ Sendable("staged")
    /\ \E c \in KeptFor(Upload("staged")) :
        /\ Continue(c.next)
        /\ kept' \in {kept, kept \ {c}}
    /\ UNCHANGED <<env, now, at, before, user, state, late, disturbed>>

\* The writer throws, and so does the sync: the page cannot be merged.
Refuse ==
    /\ Uploading
    /\ \/ ~Mergeable(state[job.link], Page)
       \/ /\ Sendable("staged")
          /\ KeptFor(Upload("staged")) = {}
          /\ ~Matches(Upload("staged")) \/ Cardinality(kept) = Slots
    /\ job' = NoJob
    /\ UNCHANGED <<env, now, at, before, user, state, late, kept, disturbed>>

(***************************************************************************)
(* Failures: the sync throws (a request is lost, the process dies).  An    *)
(* upload it had sent may still arrive, before or after the next sync has  *)
(* started.                                                                *)
(***************************************************************************)
Fail ==
    /\ Running
    /\ job' = NoJob
    /\ UNCHANGED <<env, now, at, before, user, state, late, kept, disturbed>>

FailAfterSending(kind) ==
    /\ Uploading /\ Sendable(kind)
    /\ kind \in env.late /\ late = {}
    /\ late' = late \cup {Upload(kind)}
    /\ job' = NoJob
    /\ UNCHANGED <<env, now, at, before, user, state, kept, disturbed>>

\* The reply to an inline upload is lost: its sender never knows of the merge.
FailAfterMerge ==
    /\ Uploading /\ Sendable("inline")
    /\ ProcessSyncChunk(job.link, Page)
    /\ job' = NoJob
    /\ UNCHANGED <<env, now, late, kept>>

Arrive(u) ==
    /\ late' = late \ {u}
    /\ \/ /\ u.kind = "inline"
          /\ ProcessSyncChunk(u.link, u.page)
          /\ UNCHANGED kept
       \/ /\ u.kind = "staged"
          /\ Commit(u)
          /\ Record(u)
    /\ UNCHANGED <<env, now, job>>

\* A late upload is refused or lost.
Drop(u) ==
    /\ late' = late \ {u}
    /\ UNCHANGED <<env, now, at, before, user, state, job, kept, disturbed>>

\* A transfer expires after its fifteen minutes.
ExpireTransfer(c) ==
    /\ kept' = kept \ {c}
    /\ UNCHANGED <<env, now, at, before, user, state, job, late, disturbed>>

-----------------------------------------------------------------------------
SyncStep ==
    \/ \E m \in env.sizes : GetSyncChunk(m)
    \/ AddItems
    \/ SendInline
    \/ SendStaged
    \/ SendAgain
    \/ Refuse

Next ==
    \/ \E s \in Stores : UpdateUser(s) \/ \E k \in Keys : Create(s, k) \/ Update(s, k)
    \/ Tick
    \/ \E l \in Links : StartSync(l)
    \/ SyncStep
    \/ Fail \/ FailAfterMerge
    \/ \E kind \in Uploads : FailAfterSending(kind)
    \/ \E u \in late : Arrive(u) \/ Drop(u)
    \/ \E c \in kept : ExpireTransfer(c)

Spec == Init /\ [][Next]_vars

\* A sync goes on as long as the stores answer or refuse.
FairSpec == Spec /\ WF_vars(SyncStep)

-----------------------------------------------------------------------------
(***************************************************************************)
(* The checkpoint passes no row the writer lacks: a row not received is    *)
(* dated `when` or later and beyond the offset of its table, so that the   *)
(* next page can have it, whichever syncs have failed, been repeated or    *)
(* arrived late.                                                           *)
(***************************************************************************)
Pending(l) ==
    {k \in RowsOf(l[1]) : at[l[1]][k] >= state[l].when
                            /\ Rank(l[1], k, state[l].when) >= state[l].count[Kind[k]]}

NothingSkipped ==
    \A l \in Links \ disturbed : \A k \in Keys :
        at[l[1]][k] > at[l[2]][k] => k \in Pending(l)

(***************************************************************************)
(* A page refused for an unknown parent can be had again: the parent is    *)
(* known to the writer or is still to be sent.                             *)
(***************************************************************************)
ParentsFirst ==
    \A l \in Links \ disturbed : \A k \in Keys :
        k \in RowsOf(l[1]) => Parent[k] \in state[l].mapped \cup Pending(l)

\* No row ever goes back to an older version, whatever arrives late.
RowsNeverRegress ==
    [][\A s \in Stores, k \in Keys : at'[s][k] >= at[s][k]]_vars

\* Every sync ends: the rows that are sent again do not keep it going.
SyncEnds == Running ~> ~Running

(***************************************************************************)
(* The interface's words taken literally: when a sync comes to its empty   *)
(* page, the writer has received all rows the reader has of the time the   *)
(* checkpoint then covers.                                                 *)
(***************************************************************************)
ReceivedAll ==
    [][SendInline /\ LastPage(Page)
         => LET l == job.link
            IN \A k \in Keys : at[l[1]][k] < state'[l].when
                                  => at'[l[2]][k] >= at[l[1]][k]]_vars
=============================================================================
