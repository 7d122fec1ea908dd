---------------------------- MODULE HeaderStore ----------------------------
(***************************************************************************)
(* The header store of the node (node/src/store.rs), as every component    *)
(* sees it: the three range tables and the sampling metadata table.  Each  *)
(* operation is one atomic step: the in-memory store runs it under its     *)
(* write lock, the redb store inside one write transaction.  Ranges are    *)
(* the sets of heights they cover; BlockRanges checks the range algorithms *)
(* against those sets.                                                     *)
(***************************************************************************)
EXTENDS Integers, FiniteSets, FiniteSetsExt

CONSTANTS
    MaxHeight,  \* bound on heights; the code has u64 heights
    Cids        \* the CIDs a sampling may ask for, relative to a height

ASSUME MaxHeightAssumption == MaxHeight \in Nat \ {0}

VARIABLES
    stored,     \* header_ranges: heights whose header is in the store
    sampled,    \* sampled_ranges
    pruned,     \* pruned_ranges
    metadata    \* sampling_data: the CIDs recorded for each height

storeVars == <<stored, sampled, pruned, metadata>>

Heights == 1..MaxHeight

StoreTypeOK ==
    /\ stored \in SUBSET Heights
    /\ sampled \in SUBSET Heights
    /\ pruned \in SUBSET Heights
    /\ metadata \in [Heights -> SUBSET Cids]

StoreInit ==
    /\ stored = {}
    /\ sampled = {}
    /\ pruned = {}
    /\ metadata = [h \in Heights |-> {}]

-----------------------------------------------------------------------------
(* Reading                                                                 *)

\* BlockRanges::head, with unwrap_or(0) where no height is stored.
HeadOf(heights) == IF heights = {} THEN 0 ELSE Max(heights)

\* BlockRanges::edges: the first and the last height of every range.
Edges(heights) == {h \in heights : h - 1 \notin heights \/ h + 1 \notin heights}

\* BlockRanges::check_insertion_constraints on lo..hi: no overlap, and either
\* the store is empty, or the range becomes the new head range, or it touches
\* a range that is there.
InsertionConstraintsMet(lo, hi) ==
    /\ lo <= hi
    /\ (lo..hi) \cap stored = {}
    /\ \/ \A h \in stored : h < lo
       \/ lo - 1 \in stored
       \/ hi + 1 \in stored

-----------------------------------------------------------------------------
(* Writing                                                                 *)

\* Store::insert of the verified headers lo..hi.
StoreInsert(lo, hi) ==
    /\ InsertionConstraintsMet(lo, hi)
    /\ stored' = stored \cup (lo..hi)
    /\ sampled' = sampled \ (lo..hi)
    /\ pruned' = pruned \ (lo..hi)
    /\ UNCHANGED metadata

\* Mutation: the CIDs of an earlier sampling are overwritten.
StoreOverwriteSamplingMetadata(h, cids) ==
    /\ h \in stored
    /\ metadata' = [metadata EXCEPT ![h] = cids]
    /\ UNCHANGED <<stored, sampled, pruned>>

\* Store::update_sampling_metadata: CIDs are only ever added.
StoreUpdateSamplingMetadata(h, cids) ==
    /\ h \in stored
    /\ metadata' = [metadata EXCEPT ![h] = @ \cup cids]
    /\ UNCHANGED <<stored, sampled, pruned>>

\* Store::mark_as_sampled.
StoreMarkAsSampled(h) ==
    /\ h \in stored
    /\ sampled' = sampled \cup {h}
    /\ UNCHANGED <<stored, pruned, metadata>>

\* Store::remove_height.
StoreRemoveHeight(h) ==
    /\ h \in stored
    /\ metadata' = [metadata EXCEPT ![h] = {}]
    /\ stored' = stored \ {h}
    /\ sampled' = sampled \ {h}
    /\ pruned' = pruned \cup {h}

-----------------------------------------------------------------------------
(* The promise of a store to its users                                     *)

StoreConsistent ==
    /\ StoreTypeOK
    /\ sampled \subseteq stored
    /\ pruned \cap stored = {}
    /\ \A h \in Heights \ stored : metadata[h] = {}

StoreNext ==
    \E h, hi \in Heights, cids \in SUBSET Cids :
        \/ StoreInsert(h, hi)
        \/ StoreUpdateSamplingMetadata(h, cids)
        \/ StoreMarkAsSampled(h)
        \/ StoreRemoveHeight(h)

StoreSpec == StoreConsistent /\ [][StoreNext]_storeVars

-----------------------------------------------------------------------------

\* What the Pruner promises to the other workers: the headers it may remove
\* at time t are outside the pruning window and, while inside the sampling
\* window, sampled and not at the edge of what was synced.
Disposable(h, t, samplingWindow, pruningWindow) ==
    /\ h + pruningWindow <= t
    /\ \/ h + samplingWindow <= t
       \/ h \in sampled /\ h \notin Edges(stored \cup pruned)
=============================================================================
