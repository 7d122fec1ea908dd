----------------------------- MODULE MCStores -----------------------------
(***************************************************************************)
(* The stores, with databases of every schema version and what two writers *)
(* may call, and the ranges they are made of, on more heights: a behaviour *)
(* is about one or the other.                                              *)
(***************************************************************************)
EXTENDS StoreTables

CONSTANTS
    main, fork, cid,
    RangeHeights,   \* MaxHeight of BlockRanges
    MaxRanges

VARIABLES ranges, heights, onlyRanges

Ranges == INSTANCE BlockRanges WITH MaxHeight <- RangeHeights

rangesVars == <<ranges, heights>>
allVars == <<storeVars, rangesVars, onlyRanges>>

MCOperations ==
    [kind : {"insert"}, lo : {1}, hi : {2}, chain : {main}]
    \cup [kind : {"insert"}, lo : {3}, hi : {3}, chain : {main, fork}]
    \cup [kind : {"insert"}, lo : {2}, hi : {2}, chain : {main}]
    \cup [kind : {"remove"}, height : {2, 3}]
    \cup [kind : {"mark"}, height : {2}]
    \cup [kind : {"metadata"}, height : {2}, cids : {{cid}}]

Filled(old, sampledKey, headerKey) ==
    [EmptyTables EXCEPT
        !.headers = [h \in Heights |-> IF h <= 2 THEN main ELSE None],
        !.hashes = [height : 1..2, chain : {main}],
        !.metadata[2] = {cid},
        !.ranges = [k \in RangeKeys |-> CASE k = headerKey -> {1, 2} [] k = sampledKey -> old [] OTHER -> {}]]

OldDatabase(kind, from, found) == [backend |-> kind, version |-> from, tables |-> found]
Empty(kind) == OldDatabase(kind, 0, EmptyTables)

\* Three calls, or two with a waiter; what was migrated need not be waited for.
With(db, n, waiting) ==
    [backend |-> db.backend, version |-> db.version, tables |-> db.tables, calls |-> n, waits |-> waiting]
MCOldDatabases ==
    {With(Empty(kind), 3, FALSE) : kind \in {"memory", "redb", "indexedDb"}}
    \cup {With(Empty(kind), 2, TRUE) : kind \in {"memory", "redb", "indexedDb"}}
    \cup {With(db, 2, FALSE) : db \in {
          OldDatabase("redb", 1, Filled({}, "oldSampled", "oldHeader")),
          OldDatabase("redb", 2, Filled({2}, "oldSampled", "header")),
          OldDatabase("indexedDb", 0, Filled({}, "oldSampled", "absent")),
          OldDatabase("indexedDb", 0, Filled({}, "oldSampled", "oldHeader")),
          OldDatabase("indexedDb", 4, Filled({2}, "oldSampled", "header"))}}

MCInit ==
    \/ onlyRanges = FALSE /\ Init /\ ranges = <<>> /\ heights = {}
    \/ /\ onlyRanges = TRUE /\ Ranges!Init
       /\ Init /\ backend = "memory" /\ waits

MCNext ==
    /\ UNCHANGED onlyRanges
    /\ \/ ~onlyRanges /\ Next /\ UNCHANGED rangesVars
       \/ onlyRanges /\ Ranges!Next /\ UNCHANGED storeVars

MCSpec == MCInit /\ [][MCNext]_allVars /\ Fairness

-----------------------------------------------------------------------------
(* The properties of BlockRanges, which explains them.                     *)

\* Insertions, removals and pops do to a BlockRanges what they do to the set of heights.
RangesMatchHeights == onlyRanges => Ranges!RangesMatchHeights

\* The operators and queries of a BlockRanges are those of the set of heights.
QueriesAreExact == onlyRanges => Ranges!QueriesAreExact
=============================================================================
