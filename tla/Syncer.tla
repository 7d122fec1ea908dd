------------------------------- MODULE Syncer -------------------------------
(***************************************************************************)
(* The header synchronizer (node/src/syncer.rs): one task, with a step for *)
(* every access to the store or the network it awaits; spc says which one  *)
(* is next.  The block at height h has time h, so the head of the network  *)
(* is the block made now.                                                  *)
(***************************************************************************)
EXTENDS BroadcastingStore

CONSTANTS
    SamplingWindow,     \* sampling_window, in block times
    PruningWindow,      \* pruning_window, in block times
    BatchSize,          \* batch_size
    SlowSyncThreshold,  \* the threshold of the slow sync
    HeadLag             \* how many blocks behind a trusted peer may be

ASSUME SyncerAssumption ==
    /\ SamplingWindow \in Nat
    /\ PruningWindow \in Nat
    /\ BatchSize \in Nat \ {0}
    /\ SlowSyncThreshold \in Nat
    /\ HeadLag \in Nat

VARIABLES
    now,            \* the clock, which is also the height of the network head
    connected,      \* num_connected_peers > 0
    spc,            \* where the worker is
    subj,           \* subjective_head_height, 0 for None
    slowSync,       \* highest_slow_sync_height, 0 for None
    ongoing,        \* ongoing_batch: the heights asked for, {} for None
    initHead,       \* the network head try_init got, the header of header-sub
    sStored,        \* stored ranges as fetch_next_batch read them
    nextBatch,      \* the batch it is about to ask for
    subRx,          \* the channel of header-sub
    subOpen,        \* is there a receiver?
    subHead         \* known_head of header-sub in the P2p worker, 0 for None

syncerLocal == <<subj, slowSync, ongoing, initHead, sStored, nextBatch>>
subVars == <<subRx, subOpen, subHead>>
syncerVars == <<spc, syncerLocal, subVars>>

SyncerTypeOK ==
    /\ now \in Heights
    /\ connected \in BOOLEAN
    /\ spc \in {"connecting", "readHead", "insertHead", "initialised", "fetch",
                "fetchPruned", "fetchSampled", "fetchWindow", "select", "insertSub"}
    /\ subj \in 0..MaxHeight
    /\ slowSync \in 0..MaxHeight
    /\ ongoing \in SUBSET Heights
    /\ initHead \in 0..MaxHeight
    /\ sStored \in SUBSET Heights
    /\ nextBatch \in SUBSET Heights
    /\ subRx \in Seq(Heights)
    /\ subOpen \in BOOLEAN
    /\ subHead \in 0..MaxHeight

SyncerInit ==
    /\ spc = "connecting"
    /\ subj = 0 /\ slowSync = 0 /\ ongoing = {}
    /\ initHead = 0 /\ sStored = {} /\ nextBatch = {}
    /\ subRx = <<>> /\ subOpen = FALSE /\ subHead = 0

-----------------------------------------------------------------------------
(* Operators                                                               *)

\* in_sampling_window of the Syncer: strictly after the end of the window.
InWindow(h) == h + SamplingWindow > now

\* set_subjective_head_height: never lowered.
SubjectiveHead(h) == IF h > subj THEN h ELSE subj

\* BlockRangeExt::tailn and headn of lo..hi
TailN(lo, hi) == lo..Min({hi, lo + BatchSize - 1})
HeadN(lo, hi) == Max({lo, hi - BatchSize + 1})..hi

\* The first height of the topmost range.
HeadRangeStart(synced) == Min({h \in synced : h..Max(synced) \subseteq synced})

\* Mutations of calculate_range_to_fetch: gaps are filled from below; the
\* network head is left out.
CalculateRangeFromBelow(head, synced) ==
    IF HeadOf(synced) < head THEN TailN(HeadOf(synced) + 1, head)
    ELSE LET start == HeadRangeStart(synced)
         IN  TailN(HeadOf({h \in synced : h < start}) + 1, start - 1)

CalculateRangeBelowHead(head, synced) ==
    IF HeadOf(synced) < head THEN TailN(HeadOf(synced) + 1, head - 1)
    ELSE LET start == HeadRangeStart(synced)
         IN  HeadN(HeadOf({h \in synced : h < start}) + 1, start - 1)

\* calculate_range_to_fetch: first up to the network head, from below; then
\* the topmost gap, from above.
CalculateRangeToFetch(head, synced) ==
    IF HeadOf(synced) < head THEN TailN(HeadOf(synced) + 1, head)
    ELSE LET start == HeadRangeStart(synced)
         IN  HeadN(HeadOf({h \in synced : h < start}) + 1, start - 1)

\* The ranges fetch_next_batch regards as synced.
SyncedStoredOnly == sStored     \* mutation: the gaps of the Pruner count as missing
Synced == pruned \cup sStored

\* The highest header of a batch outside the pruning window.
SlowSyncOf(batch) == HeadOf({h \in batch : h + PruningWindow <= now})

-----------------------------------------------------------------------------
(* connecting_event_loop                                                   *)

\* try_init: ask the trusted peers for the network head.  Some may lag.
TryInitGetHead ==
    /\ spc = "connecting"
    /\ connected
    /\ \E h \in Heights :
          /\ h <= now /\ h + HeadLag >= now
          /\ initHead' = h
    /\ spc' = "readHead"
    /\ UNCHANGED <<storeVars, broadcastVars, now, connected, subj, slowSync, ongoing,
                   sStored, nextBatch, subVars>>

\* Insert it, unless it is the head of the store.
TryInitReadHead ==
    /\ spc = "readHead"
    /\ spc' = IF HeadOf(stored) = initHead THEN "initialised" ELSE "insertHead"
    /\ UNCHANGED <<storeVars, broadcastVars, now, connected, syncerLocal, subVars>>

\* A rejected insertion is retried from the start after a backoff.
TryInitInsert ==
    /\ spc = "insertHead"
    /\ IF InsertionConstraintsMet(initHead, initHead)
       THEN StoreInsert(initHead, initHead) /\ spc' = "initialised" /\ UNCHANGED initHead
       ELSE spc' = "connecting" /\ initHead' = 0 /\ UNCHANGED storeVars
    /\ UNCHANGED <<broadcastVars, now, connected, subj, slowSync, ongoing, sStored,
                   nextBatch, subVars>>

\* Start the broadcast and header-sub, and enter connected_event_loop unless
\* the peers are gone already.
TryInitDone ==
    /\ spc = "initialised"
    /\ subj' = SubjectiveHead(initHead)
    /\ InitBroadcast(initHead)
    /\ subHead' = initHead /\ subRx' = <<>> /\ subOpen' = TRUE
    /\ initHead' = 0
    /\ spc' = IF connected THEN "fetch" ELSE "connecting"
    /\ UNCHANGED <<storeVars, now, connected, slowSync, ongoing, sStored, nextBatch>>

-----------------------------------------------------------------------------
(* fetch_next_batch                                                        *)

FetchReadStored ==
    /\ spc = "fetch"
    /\ IF ongoing # {} \/ ~connected
       THEN spc' = "select" /\ UNCHANGED sStored
       ELSE spc' = "fetchPruned" /\ sStored' = stored
    /\ UNCHANGED <<storeVars, broadcastVars, now, connected, subj, slowSync, ongoing,
                   initHead, nextBatch, subVars>>

FetchReadPruned ==
    /\ spc = "fetchPruned"
    /\ LET batch == CalculateRangeToFetch(subj, Synced)
           slow == slowSync # 0 /\ Max(batch) <= slowSync
       IN  /\ nextBatch' = batch
           /\ spc' = IF batch = {} THEN "select"
                     ELSE IF slow THEN "fetchSampled" ELSE "fetchWindow"
           /\ sStored' = IF batch # {} /\ slow THEN sStored ELSE {}
    /\ UNCHANGED <<storeVars, broadcastVars, now, connected, subj, slowSync, ongoing,
                   initHead, subVars>>

\* Slow sync: wait while enough headers are there to be sampled.
FetchReadSampled ==
    /\ spc = "fetchSampled"
    /\ IF Cardinality(sStored \ sampled) > SlowSyncThreshold
       THEN spc' = "select" /\ nextBatch' = {}
       ELSE spc' = "fetchWindow" /\ UNCHANGED nextBatch
    /\ sStored' = {}
    /\ UNCHANGED <<storeVars, broadcastVars, now, connected, subj, slowSync, ongoing,
                   initHead, subVars>>

\* The header above the batch, if it is stored, must be inside the window.
FetchStart ==
    /\ spc = "fetchWindow"
    /\ LET above == Max(nextBatch) + 1
       IN  ongoing' = IF above \in stored /\ ~InWindow(above) THEN {} ELSE nextBatch
    /\ nextBatch' = {}
    /\ spc' = "select"
    /\ UNCHANGED <<storeVars, broadcastVars, now, connected, subj, slowSync, initHead,
                   sStored, subVars>>

-----------------------------------------------------------------------------
(* The select! of connected_event_loop                                     *)

AllPeersGone ==
    /\ spc = "select"
    /\ ~connected
    /\ ongoing' = {}
    /\ subOpen' = FALSE /\ subRx' = <<>>
    /\ spc' = "connecting"
    /\ UNCHANGED <<storeVars, broadcastVars, now, connected, subj, slowSync, initHead,
                   sStored, nextBatch, subHead>>

\* on_header_sub_message: a header next to the head of the store is inserted.
OnHeaderSub ==
    /\ spc = "select"
    /\ subRx # <<>>
    /\ subj' = SubjectiveHead(Head(subRx))
    /\ subRx' = Tail(subRx)
    /\ IF stored # {} /\ HeadOf(stored) + 1 = Head(subRx)
       THEN spc' = "insertSub" /\ initHead' = Head(subRx)
       ELSE spc' = "fetch" /\ UNCHANGED initHead
    /\ UNCHANGED <<storeVars, broadcastVars, now, connected, slowSync, ongoing, sStored,
                   nextBatch, subOpen, subHead>>

InsertFromHeaderSub ==
    /\ spc = "insertSub"
    /\ AnnounceInsert(initHead, initHead)
    /\ initHead' = 0
    /\ spc' = "fetch"
    /\ UNCHANGED <<now, connected, subj, slowSync, ongoing, sStored, nextBatch, subVars>>

\* on_fetch_next_batch_result with the headers asked for
OnFetchResult ==
    /\ spc = "select"
    /\ ongoing # {}
    /\ slowSync' = Max({slowSync, SlowSyncOf(ongoing)})
    /\ AnnounceInsert(Min(ongoing), Max(ongoing))
    /\ ongoing' = {}
    /\ spc' = "fetch"
    /\ UNCHANGED <<now, connected, subj, initHead, sStored, nextBatch, subVars>>

\* ... or with an error
OnFetchError ==
    /\ spc = "select"
    /\ ongoing # {}
    /\ ongoing' = {}
    /\ spc' = "fetch"
    /\ UNCHANGED <<storeVars, broadcastVars, now, connected, subj, slowSync, initHead,
                   sStored, nextBatch, subVars>>

SyncerStep ==
    \/ TryInitGetHead \/ TryInitReadHead \/ TryInitInsert \/ TryInitDone
    \/ FetchReadStored \/ FetchReadPruned \/ FetchReadSampled \/ FetchStart
    \/ AllPeersGone \/ OnHeaderSub \/ InsertFromHeaderSub
    \/ OnFetchResult \/ OnFetchError
=============================================================================
