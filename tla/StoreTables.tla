---------------------------- MODULE StoreTables ----------------------------
(***************************************************************************)
(* The implementations of Store: the tables of RedbStore, InMemoryStore    *)
(* and IndexedDbStore, their transactions, opening with migration of older *)
(* schemas, closing, crashes, and those who wait for headers.  A header is *)
(* its height and the chain it belongs to, which is also its hash; headers *)
(* verify against each other when they are on the same chain.              *)
(***************************************************************************)
EXTENDS Integers, FiniteSets, FiniteSetsExt, Functions

CONSTANTS
    MaxHeight,      \* bound on heights
    Chains,         \* the chains headers may belong to
    Cids,           \* the CIDs recorded by a sampling
    Writers,        \* tasks that write
    Waiters,        \* tasks in wait_height or wait_new_head
    AwaitedHeights, \* the heights they wait for
    Operations,     \* what writers may call
    OldDatabases,   \* the databases found on disk: [backend, version, tables], with a bound on the
                    \* calls of writers and whether there are waiters: [.., calls, waits]
    MaxCrashes      \* bound on crashes and restarts

VARIABLES
    backend,        \* "redb", "memory" or "indexedDb"
    version,        \* the schema version; 0 when there is none
    tables,         \* the tables, as the last commit left them
    phase,          \* of the store instance: "down", "opening", "open", "closing", "closed"
    head,           \* IndexedDbStore.head, the cached head
    writer,         \* the writers: operation and how far it got
    waiter,         \* the waiters
    silent,         \* an insertion was committed and its caller dropped before notifying
    calls,          \* how many calls are left
    waits,          \* whether there are waiters
    crashes

storeVars == <<backend, version, tables, phase, head, writer, waiter, silent, calls, waits, crashes>>

Heights == 1..MaxHeight
None == "none"
CurrentVersion == [redb |-> 3, indexedDb |-> 5, memory |-> 0]

StoredIn(t) == {h \in Heights : t.headers[h] # None}
HeadOf(heights) == IF heights = {} THEN 0 ELSE Max(heights)

\* The names ranges are stored under; the last two are those of older schemas.
RangeKeys == {"header", "sampled", "pruned", "oldHeader", "oldSampled"}
EmptyTables ==
    [headers |-> [h \in Heights |-> None], hashes |-> {},
     ranges |-> [k \in RangeKeys |-> {}], metadata |-> [h \in Heights |-> {}], identity |-> 0]

Idle == [op |-> [kind |-> "none"], at |-> "idle"]
NotWaiting == [height |-> 0, newHead |-> FALSE, at |-> "idle", notified |-> FALSE]

Tables == [headers : [Heights -> Chains \cup {None}],
           hashes : SUBSET [height : Heights, chain : Chains],
           ranges : [RangeKeys -> SUBSET Heights],
           metadata : [Heights -> SUBSET Cids], identity : 0..(MaxCrashes + 1)]

TypeOK ==
    /\ version \in 0..5
    /\ tables \in Tables
    /\ phase \in {"down", "opening", "open", "closing", "closed"}
    /\ head \in 0..MaxHeight
    /\ waiter \in [Waiters -> [height : 0..MaxHeight, newHead : BOOLEAN,
                               at : {"idle", "check", "checked", "sleep"}, notified : BOOLEAN]]

\* The key of the sampled ranges, by the schema version.
SampledKey(v) == IF v \in {1, 2, 4} THEN "oldSampled" ELSE "sampled"

\* A header is found by height and by hash or not at all, and the other tables speak
\* of headers that are there.
Consistent(t, v) ==
    /\ t.hashes = {x \in [height : Heights, chain : Chains] : t.headers[x.height] = x.chain}
    /\ t.ranges[SampledKey(v)] \subseteq StoredIn(t)
    /\ t.ranges.pruned \cap StoredIn(t) = {}
    /\ \A h \in Heights \ StoredIn(t) : t.metadata[h] = {}

\* Neighbours belong to one chain.
Linked(t) ==
    \A h \in StoredIn(t) : h + 1 \in StoredIn(t) => t.headers[h] = t.headers[h + 1]

\* The header ranges, by backend and version.  IndexedDbStore did not record its
\* version before 4: version 2 had no ranges, and version 3 only those of headers.
HeaderRangesRecorded(b, v, t) ==
    IF b = "indexedDb" /\ v = 0
    THEN \/ t.ranges = [EmptyTables.ranges EXCEPT !.oldHeader = StoredIn(t)]
         \/ /\ t.ranges = EmptyTables.ranges
            /\ StoredIn(t) = 1..HeadOf(StoredIn(t))
    ELSE t.ranges[IF b = "redb" /\ v = 1 THEN "oldHeader" ELSE "header"] = StoredIn(t)

\* A database that some version of the code has written.
Database(b, v, t) ==
    /\ \/ b = "redb" /\ v \in 0..3
       \/ b = "memory" /\ v = 0
       \/ b = "indexedDb" /\ v \in {0, 4, 5}
    /\ t \in Tables /\ Consistent(t, v) /\ HeaderRangesRecorded(b, v, t) /\ Linked(t)

ASSUME StoreAssumption ==
    /\ MaxHeight \in Nat \ {0} /\ MaxCrashes \in Nat
    /\ None \notin Chains
    /\ AwaitedHeights \subseteq Heights
    /\ \A op \in Operations :
          \/ /\ op \in [kind : {"insert"}, lo : Heights, hi : Heights, chain : Chains]
             /\ op.lo <= op.hi
          \/ op \in [kind : {"remove", "mark"}, height : Heights]
          \/ op \in [kind : {"metadata"}, height : Heights, cids : SUBSET Cids]
    /\ \A db \in OldDatabases : Database(db.backend, db.version, db.tables)

Init ==
    /\ \E db \in OldDatabases :
          /\ backend = db.backend /\ version = db.version /\ tables = db.tables
          /\ calls = db.calls /\ waits = db.waits
    /\ phase = "down"
    /\ head = 0
    /\ writer = [w \in Writers |-> Idle]
    /\ waiter = [w \in Waiters |-> NotWaiting]
    /\ silent = FALSE
    /\ crashes = 0

-----------------------------------------------------------------------------
(* Opening                                                                 *)

\* migrate_v1_to_v2: the ranges move from a table of their own.
RedbV2(t) == [t EXCEPT !.ranges.header = t.ranges.oldHeader, !.ranges.oldHeader = {}]

\* Mutation: the key is renamed in the code, not in the database.
MigratedSampledNot(t) == t

\* migrate_v2_to_v3 and migrate_v4_to_v5: the sampled ranges get another key.
MigratedSampled(t) ==
    [t EXCEPT !.ranges.sampled = t.ranges.oldSampled, !.ranges.oldSampled = {}]

\* migrate_older_to_v4: version 2 has no ranges, version 3 another format of them.
IndexedDbV4(t, from) ==
    LET found == IF from <= 2 THEN 1..HeadOf(StoredIn(t)) ELSE t.ranges.oldHeader
    IN  [t EXCEPT !.ranges = [[k \in RangeKeys |-> {}] EXCEPT !.header = found]]

\* An identity is made once; the number stands for the keypair.
WithIdentity(t) == IF t.identity = 0 THEN [t EXCEPT !.identity = crashes + 1] ELSE t

\* RedbStore::new: everything happens in one transaction.
OpenRedb ==
    /\ backend = "redb" /\ phase = "down"
    /\ LET v2 == IF version = 1 THEN RedbV2(tables) ELSE tables
           v3 == IF version \in {1, 2} THEN MigratedSampled(v2) ELSE v2
       IN  tables' = WithIdentity(v3)
    /\ version' = CurrentVersion.redb
    /\ phase' = "open"
    /\ UNCHANGED <<backend, head, writer, waiter, silent, calls, waits, crashes>>

OpenMemory ==
    /\ backend = "memory" /\ phase = "down"
    /\ tables' = WithIdentity(tables)
    /\ phase' = "open"
    /\ UNCHANGED <<backend, version, head, writer, waiter, silent, calls, waits, crashes>>

\* detect_schema_version, for versions that were not recorded.
Detected ==
    CASE version >= 4 -> version
      [] version < 4 /\ tables.ranges # EmptyTables.ranges -> 3
      [] OTHER -> IF tables.headers[1] # None THEN 2 ELSE 0

\* IndexedDbStore::new: a step for every transaction.
OpenIndexedDb ==
    /\ backend = "indexedDb" /\ phase \in {"down", "opening"}
    /\ \/ /\ Detected = 0
          /\ version' = CurrentVersion.indexedDb
          /\ phase' = "opening" /\ UNCHANGED <<tables, head>>
       \/ /\ Detected \in {2, 3}
          /\ tables' = IndexedDbV4(tables, Detected) /\ version' = 4
          /\ phase' = "opening" /\ UNCHANGED head
       \/ /\ Detected = 4
          /\ tables' = MigratedSampled(tables) /\ version' = 5
          /\ phase' = "opening" /\ UNCHANGED head
       \/ /\ Detected = 5 /\ tables.identity = 0
          /\ tables' = WithIdentity(tables)
          /\ phase' = "opening" /\ UNCHANGED <<version, head>>
       \/ /\ Detected = 5 /\ tables.identity # 0
          /\ head' = HeadOf(tables.ranges.header)
          /\ phase' = "open" /\ UNCHANGED <<version, tables>>
    /\ UNCHANGED <<backend, writer, waiter, silent, calls, waits, crashes>>

-----------------------------------------------------------------------------
(* The operations, inside a transaction or under the write lock            *)

InsertionConstraintsMet(t, lo, hi) ==
    LET present == t.ranges.header
    IN  /\ (lo..hi) \cap present = {}
        /\ \/ \A h \in present : h < lo
           \/ lo - 1 \in present
           \/ hi + 1 \in present

\* Mutation: only the header below is looked at.
VerifiedBelow(t, lo, hi, chain) == lo - 1 \in t.ranges.header => t.headers[lo - 1] = chain

\* verify_against_neighbours
VerifiedAgainstNeighbours(t, lo, hi, chain) ==
    /\ lo - 1 \in t.ranges.header => t.headers[lo - 1] = chain
    /\ hi + 1 \in t.ranges.header => t.headers[hi + 1] = chain

\* insert: the tables after it, for headers that were accepted.
Inserted(t, lo, hi, chain) ==
    [t EXCEPT !.headers = [h \in Heights |-> IF h \in lo..hi THEN chain ELSE @[h]],
              !.hashes = @ \cup [height : lo..hi, chain : {chain}],
              !.ranges = [t.ranges EXCEPT !.header = t.ranges.header \cup (lo..hi),
                                          !.sampled = t.ranges.sampled \ (lo..hi),
                                          !.pruned = t.ranges.pruned \ (lo..hi)]]

\* Mutation: the metadata stays behind.
RemovedHeaderOnly(t, h) ==
    [t EXCEPT !.headers[h] = None,
              !.hashes = {x \in @ : x.height # h},
              !.ranges.header = @ \ {h},
              !.ranges.sampled = @ \ {h},
              !.ranges.pruned = @ \cup {h}]

\* remove_height
Removed(t, h) ==
    [t EXCEPT !.headers[h] = None,
              !.hashes = {x \in @ : x.height # h},
              !.metadata[h] = {},
              !.ranges = [t.ranges EXCEPT !.header = t.ranges.header \ {h},
                                          !.sampled = t.ranges.sampled \ {h},
                                          !.pruned = t.ranges.pruned \cup {h}]]

\* What an operation answers; the order is that of the checks in the code.
Outcome(t, op) ==
    CASE op.kind = "insert" ->
            IF ~InsertionConstraintsMet(t, op.lo, op.hi) THEN "ConstraintsNotMet"
            ELSE IF \E h \in {op.lo - 1, op.hi + 1} \cap t.ranges.header : t.headers[h] = None
            THEN "StoredDataError"
            ELSE IF ~VerifiedAgainstNeighbours(t, op.lo, op.hi, op.chain)
            THEN "NeighborsVerificationFailed"
            ELSE IF StoredIn(t) \cap (op.lo..op.hi) # {} THEN "StoredDataError"
            ELSE IF t.hashes \cap [height : op.lo..op.hi, chain : {op.chain}] # {}
            THEN "HashExists" ELSE "ok"
      [] op.kind = "remove" ->
            IF op.height \notin t.ranges.header THEN "NotFound"
            ELSE IF [height |-> op.height, chain |-> t.headers[op.height]] \notin t.hashes
            THEN "StoredDataError" ELSE "ok"
      [] OTHER -> IF op.height \notin t.ranges.header THEN "NotFound" ELSE "ok"

Applied(t, op) ==
    CASE op.kind = "insert" -> Inserted(t, op.lo, op.hi, op.chain)
      [] op.kind = "remove" -> Removed(t, op.height)
      [] op.kind = "mark" -> [t EXCEPT !.ranges.sampled = @ \cup {op.height}]
      [] op.kind = "metadata" -> [t EXCEPT !.metadata[op.height] = @ \cup op.cids]

-----------------------------------------------------------------------------
(* Writers                                                                 *)

Call(w) ==
    /\ phase = "open" /\ writer[w].at = "idle" /\ calls > 0
    /\ calls' = calls - 1
    /\ \E op \in Operations : writer' = [writer EXCEPT ![w] = [op |-> op, at |-> "queued"]]
    /\ UNCHANGED <<backend, version, tables, phase, head, waiter, silent, waits, crashes>>

\* The transaction commits when the operation succeeds and is aborted when not.
\* "detached" is a task of spawn_blocking whose caller has gone.
Transact(w) ==
    /\ writer[w].at \in {"queued", "detached"}
    /\ LET outcome == Outcome(tables, writer[w].op)
       IN  /\ tables' = IF outcome = "ok" THEN Applied(tables, writer[w].op) ELSE tables
           /\ writer' = [writer EXCEPT
                  ![w] = IF @.at = "queued" THEN [@ EXCEPT !.at = outcome] ELSE Idle]
    /\ silent' = \/ silent
                 \/ /\ writer[w].at = "detached" /\ writer[w].op.kind = "insert"
                    /\ tables' # tables
    /\ UNCHANGED <<backend, version, phase, head, waiter, calls, waits, crashes>>

\* Mutation: the headers inserted last become the head.
NewHeadAlways(op) == op.hi

\* IndexedDbStore::insert: only a higher header becomes the head.
NewHead(op) == IF op.hi > head THEN op.hi ELSE head

\* The caller goes on; after an insertion it notifies those who wait.
Return(w) ==
    LET inserted == writer[w].at = "ok" /\ writer[w].op.kind = "insert"
    IN  /\ writer[w].at \notin {"idle", "queued", "detached"}
        /\ head' = IF inserted /\ backend = "indexedDb" THEN NewHead(writer[w].op) ELSE head
        /\ waiter' = IF inserted THEN [u \in Waiters |-> [waiter[u] EXCEPT !.notified = @ \/ waiter[u].at # "idle"]]
                     ELSE waiter
        /\ writer' = [writer EXCEPT ![w] = Idle]
        /\ UNCHANGED <<backend, version, tables, phase, silent, calls, waits, crashes>>

\* A caller is dropped while it awaits: the blocking task of RedbStore goes on
\* without it, the transaction of IndexedDbStore has committed.
Drop(w) ==
    /\ \/ backend = "redb" /\ writer[w].at \notin {"idle", "detached"}
       \/ backend = "indexedDb" /\ writer[w].at \notin {"idle", "queued"}
    /\ writer' = [writer EXCEPT
           ![w] = IF @.at = "queued" THEN [@ EXCEPT !.at = "detached"] ELSE Idle]
    /\ silent' = (silent \/ (writer[w].at = "ok" /\ writer[w].op.kind = "insert"))
    /\ UNCHANGED <<backend, version, tables, phase, head, waiter, calls, waits, crashes>>

-----------------------------------------------------------------------------
(* wait_height and wait_new_head                                           *)

\* head_height: IndexedDbStore answers from memory, the others from the ranges.
HeadHeight == IF backend = "indexedDb" THEN head ELSE HeadOf(tables.ranges.header)

\* A Notified future is told of every notify_waiters after its creation.
Wait(w) ==
    /\ phase = "open" /\ waits /\ waiter[w].at = "idle"
    /\ \E a \in [height : AwaitedHeights, newHead : {FALSE}]
              \cup {[height |-> HeadHeight, newHead |-> TRUE]} :
          waiter' = [waiter EXCEPT ![w] =
              [height |-> a.height, newHead |-> a.newHead, at |-> "check", notified |-> FALSE]]
    /\ UNCHANGED <<backend, version, tables, phase, head, writer, silent, calls, waits, crashes>>

Arrived(w) ==
    IF waiter[w].newHead THEN HeadHeight # waiter[w].height
    ELSE waiter[w].height \in tables.ranges.header

\* The look-up, itself a transaction.
Check(w) ==
    /\ waiter[w].at = "check"
    /\ waiter' = [waiter EXCEPT ![w] = IF Arrived(w) THEN NotWaiting ELSE [@ EXCEPT !.at = "checked"]]
    /\ UNCHANGED <<backend, version, tables, phase, head, writer, silent, calls, waits, crashes>>

\* Mutation: the Notified future is made after the look-up.
AsleepAnew(u) == [u EXCEPT !.at = "sleep", !.notified = FALSE]

\* The future was made before the look-up.
Asleep(u) == [u EXCEPT !.at = "sleep"]

Await(w) ==
    /\ waiter[w].at = "checked"
    /\ waiter' = [waiter EXCEPT ![w] = Asleep(@)]
    /\ UNCHANGED <<backend, version, tables, phase, head, writer, silent, calls, waits, crashes>>

Wake(w) ==
    /\ waiter[w].at = "sleep" /\ waiter[w].notified
    /\ waiter' = [waiter EXCEPT ![w] = [@ EXCEPT !.at = "check", !.notified = FALSE]]
    /\ UNCHANGED <<backend, version, tables, phase, head, writer, silent, calls, waits, crashes>>

-----------------------------------------------------------------------------
(* Closing and crashing                                                    *)

\* The node has stopped its workers: callers are gone, blocking tasks are not.
Close ==
    /\ phase = "open" /\ crashes < MaxCrashes
    /\ phase' = "closing"
    /\ writer' = [w \in Writers |->
           IF backend = "redb" /\ writer[w].at \in {"queued", "detached"}
           THEN [writer[w] EXCEPT !.at = "detached"] ELSE Idle]
    /\ waiter' = [w \in Waiters |-> NotWaiting]
    /\ UNCHANGED <<backend, version, tables, head, silent, calls, waits, crashes>>

\* Mutation: the store does not wait.
NoGuards == TRUE

\* Counter::wait_guards: every blocking task has dropped its guard.
NoGuard == \A w \in Writers : writer[w].at # "detached"

Closed ==
    /\ phase = "closing"
    /\ NoGuard
    /\ phase' = "closed"
    /\ UNCHANGED <<backend, version, tables, head, writer, waiter, silent, calls, waits, crashes>>

\* The process ends, after closing the store or at any other time.  What a
\* transaction has not committed is lost.  An in-memory store ends with it.
Crash ==
    /\ phase # "down" /\ crashes < MaxCrashes
    /\ backend # "memory"
    /\ phase' = "down"
    /\ head' = 0
    /\ writer' = [w \in Writers |-> Idle]
    /\ waiter' = [w \in Waiters |-> NotWaiting]
    /\ crashes' = crashes + 1
    /\ silent' = FALSE
    /\ UNCHANGED <<backend, version, tables, calls, waits>>

-----------------------------------------------------------------------------

Open == OpenRedb \/ OpenMemory \/ OpenIndexedDb

Next ==
    \/ Open \/ Close \/ Closed \/ Crash
    \/ \E w \in Writers : Call(w) \/ Transact(w) \/ Return(w) \/ Drop(w)
    \/ \E w \in Waiters : Wait(w) \/ Check(w) \/ Await(w) \/ Wake(w)

Spec == Init /\ [][Next]_storeVars

\* A future that was polled is polled again, and the blocking pool runs its tasks.
Fairness ==
    /\ \A w \in Writers : WF_storeVars(Transact(w)) /\ WF_storeVars(Return(w))
    /\ \A w \in Waiters : WF_storeVars(Check(w) \/ Await(w)) /\ WF_storeVars(Wake(w))

-----------------------------------------------------------------------------

\* What every user of a store relies on: whatever the backend, its tables behave as
\* the four sets of HeaderStore.  Migrations, aborted transactions and crashes of a
\* database change none of them.
Abstract == INSTANCE HeaderStore WITH
    stored <- StoredIn(tables),
    sampled <- tables.ranges[SampledKey(version)],
    pruned <- tables.ranges.pruned,
    metadata <- tables.metadata

ImplementsHeaderStore == Abstract!StoreSpec

\* After each transaction of an open store its tables agree: a header is found by
\* height, by hash and in the ranges or in none of them, so that no operation ends
\* in the StoredDataError that is fatal for the node.
TablesAgree ==
    /\ TypeOK
    /\ phase = "open" =>
        /\ tables.ranges.header = StoredIn(tables) /\ Consistent(tables, version)
        /\ \A w \in Writers : writer[w].at \notin {"StoredDataError", "HashExists"}

\* Neighbouring headers in the store belong to one chain, in whatever order ranges
\* are inserted, removed and inserted again.
NeighboursVerify == Linked(tables)

\* The head IndexedDbStore keeps in memory is never behind an insertion that has
\* returned, although insertions return in another order than they commit.  Only the
\* drop of a caller between the two leaves it behind.
HeadNeverLags ==
    backend = "indexedDb" /\ phase = "open" /\ ~silent
    /\ (\A w \in Writers : writer[w].at = "idle")
    => head >= HeadOf(StoredIn(tables))

\* Once close has returned, nothing writes to the database until it is opened again.
QuietWhenClosed == [][phase = "closed" => UNCHANGED tables]_storeVars

\* No wake-up is lost: while callers are not dropped, no task sleeps for ever in
\* wait_height with its header in the store, or in wait_new_head below the head,
\* whether the insertion came before, during or after its look-up.
WaitersAreWoken ==
    \A w \in Waiters :
        <>[](waiter[w].at = "sleep" /\ ~silent) =>
            []<>(IF waiter[w].newHead THEN HeadHeight <= waiter[w].height
                 ELSE waiter[w].height \notin StoredIn(tables))
=============================================================================
