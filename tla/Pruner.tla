------------------------------- MODULE Pruner ------------------------------
(***************************************************************************)
(* The pruner (node/src/pruner.rs) next to the sampler it talks to.  One   *)
(* round: read the three range tables, refresh the cached window borders,  *)
(* report to the Daser, collect a batch, remove it height by height.  The  *)
(* variable ppc says which await is next.                                  *)
(***************************************************************************)
EXTENDS Daser

CONSTANTS
    PruningWindow,      \* pruning_window, in block times
    MaxBatchSize,       \* MAX_PRUNABLE_BATCH_SIZE
    CmdCapacity         \* capacity of the DaserCmd channel

ASSUME PrunerAssumption ==
    /\ PruningWindow \in Nat
    /\ MaxBatchSize \in Nat \ {0}
    /\ CmdCapacity \in Nat \ {0}

VARIABLES
    ppc,            \* where the worker is
    roundNow,       \* `now` of this round
    pStored, pPruned, pSampled,     \* the range tables as this round read them
    afterSampling,  \* cache.after_sampling_window, 0 for None
    afterPruning,   \* cache.after_pruning_window, 0 for None
    cacheUpdated,   \* cache.updated_at.is_some()
    prevNum,        \* prev_num_of_prunable_blocks
    toAsk,          \* what is left of after_sampling_window in the ask loop
    batch,          \* prunable_batch
    pCids           \* the CIDs read for the height being removed

prunerVars == <<ppc, roundNow, pStored, pPruned, pSampled, afterSampling,
                afterPruning, cacheUpdated, prevNum, toAsk, batch, pCids>>

PrunerTypeOK ==
    /\ ppc \in {"begin", "readPruned", "readSampled", "updateCache",
                "sendHighest", "sendNumber", "ask", "awaitReply", "nextHeight",
                "removeBlocks", "removeHeight", "dead"}
    /\ roundNow \in Nat
    /\ pStored \in SUBSET Heights
    /\ pPruned \in SUBSET Heights
    /\ pSampled \in SUBSET Heights
    /\ afterSampling \in 0..MaxHeight
    /\ afterPruning \in 0..MaxHeight
    /\ cacheUpdated \in BOOLEAN
    /\ prevNum \in Nat
    /\ toAsk \in SUBSET Heights
    /\ ppc = "awaitReply" => toAsk # {}
    /\ batch \in SUBSET Heights
    /\ pCids \in SUBSET Cids

\* Worker::new.
PrunerInit ==
    /\ ppc = "begin"
    /\ roundNow = 0
    /\ pStored = {} /\ pPruned = {} /\ pSampled = {}
    /\ afterSampling = 0 /\ afterPruning = 0 /\ cacheUpdated = FALSE
    /\ prevNum = 0
    /\ toAsk = {} /\ batch = {} /\ pCids = {}

-----------------------------------------------------------------------------
(* Operators                                                               *)

\* now.saturating_sub(window)
Cutoff(window) == IF roundNow >= window THEN roundNow - window ELSE 0

LeftOf(heights, h) == HeadOf({s \in heights : s < h})

\* BlockRanges::right_of, 0 for None.
RightOf(heights, h) ==
    LET right == {s \in heights : s > h} IN IF right = {} THEN 0 ELSE Min(right)

\* find_height_after_window_slow: the binary search.
FindSlow(heights, cutoff) == HeadOf({s \in heights : s < cutoff})

\* find_height_after_window: first what the cached border `prev` tells, then
\* the binary search.  A block at the cutoff is outside for the former and
\* inside for the latter.
FindHeightAfterWindow(heights, cutoff, prev) ==
    LET right == RightOf(heights, prev)
        rightOfRight == RightOf(heights, right)
        known == IF prev \in heights THEN prev ELSE LeftOf(heights, prev)
    IN  CASE prev = 0 /\ (heights = {} \/ cutoff < Min(heights))    -> 0
          [] prev # 0 /\ (right = 0 \/ cutoff < right)              -> known
          [] /\ prev # 0 /\ right # 0 /\ cutoff >= right
             /\ rightOfRight = 0 \/ cutoff < rightOfRight           -> right
          [] OTHER                                                  -> FindSlow(heights, cutoff)

\* The prunable heights of get_next_prunable_batch.
PruneCandidates == pStored \cap (1..afterPruning)
AfterSamplingWindow == PruneCandidates \cap (1..afterSampling)

\* Mutation: the edges of the synced ranges are not spared.
PrunableAndSampledWithEdges ==
    (PruneCandidates \ AfterSamplingWindow) \cap pSampled

PrunableAndSampled ==
    ((PruneCandidates \ AfterSamplingWindow) \ Edges(pPruned \cup pStored)) \cap pSampled

\* BlockRanges::headn: the `limit` highest heights.
HeadN(heights, limit) ==
    {h \in heights : Cardinality({k \in heights : k > h}) < limit}

\* Is the number of prunable blocks sent to the Daser?
MustReportGrowth(num) == num > prevNum  \* mutation: only a growing backlog
MustReport(num) == num # prevNum

-----------------------------------------------------------------------------
(* get_next_prunable_batch                                                 *)

\* run reads the clock and calls get_next_prunable_batch.
PrunerReadStored ==
    /\ ppc = "begin"
    /\ roundNow' = now
    /\ pStored' = stored
    /\ ppc' = "readPruned"
    /\ UNCHANGED <<storeVars, sharedVars, daserVars, pPruned, pSampled, afterSampling,
                   afterPruning, cacheUpdated, prevNum, toAsk, batch, pCids>>

PrunerReadPruned ==
    /\ ppc = "readPruned"
    /\ pPruned' = pruned
    /\ ppc' = "readSampled"
    /\ UNCHANGED <<storeVars, sharedVars, daserVars, roundNow, pStored, pSampled,
                   afterSampling, afterPruning, cacheUpdated, prevNum, toAsk, batch,
                   pCids>>

PrunerReadSampled ==
    /\ ppc = "readSampled"
    /\ pSampled' = sampled
    /\ ppc' = "updateCache"
    /\ UNCHANGED <<storeVars, sharedVars, daserVars, roundNow, pStored, pPruned,
                   afterSampling, afterPruning, cacheUpdated, prevNum, toAsk, batch,
                   pCids>>

\* update_cached_data: the cached borders only grow.  A header of the snapshot
\* that is gone is fatal.
UpdateCachedData ==
    /\ ppc = "updateCache"
    /\ LET newSampling == FindHeightAfterWindow(pStored, Cutoff(SamplingWindow), afterSampling)
           newPruning == FindHeightAfterWindow(pStored, Cutoff(PruningWindow), afterPruning)
       IN  /\ afterSampling' = Max({afterSampling, newSampling})
           /\ afterPruning' = Max({afterPruning, newPruning})
           /\ ppc' = IF ~(pStored \subseteq stored) THEN "dead"
                     ELSE IF afterPruning < newPruning THEN "sendHighest"
                     ELSE "sendNumber"
    /\ cacheUpdated' = TRUE
    /\ roundNow' = 0
    /\ UNCHANGED <<storeVars, sharedVars, daserVars, pStored, pPruned,
                   pSampled, prevNum, toAsk, batch, pCids>>

\* ... unless it was updated less than a second ago.
SkipCacheUpdate ==
    /\ ppc = "updateCache"
    /\ cacheUpdated
    /\ roundNow' = 0
    /\ ppc' = "sendNumber"
    /\ UNCHANGED <<storeVars, sharedVars, daserVars, pStored, pPruned,
                   pSampled, afterSampling, afterPruning, cacheUpdated, prevNum,
                   toAsk, batch, pCids>>

\* Daser::send_command waits for room in the channel, and fails once the
\* worker is gone.
SendCommand(op, value) ==
    /\ Len(cmds) < CmdCapacity
    /\ cmds' = Append(cmds, [op |-> op, value |-> value])
    /\ UNCHANGED <<now, connected, notified, blocks, reply>>

SendHighestPrunable ==
    /\ ppc = "sendHighest"
    /\ SendCommand("highest", afterPruning)
    /\ ppc' = "sendNumber"
    /\ UNCHANGED <<storeVars, daserVars, roundNow, pStored, pPruned, pSampled,
                   afterSampling, afterPruning, cacheUpdated, prevNum, toAsk, batch,
                   pCids>>

\* Report how much there is to prune when that changed, and start the batch
\* with the highest sampled heights.
SendNumberOfPrunable ==
    /\ ppc = "sendNumber"
    /\ LET num == Cardinality(AfterSamplingWindow) + Cardinality(PrunableAndSampled)
       IN  /\ IF MustReport(num) THEN SendCommand("number", num) ELSE UNCHANGED sharedVars
           /\ prevNum' = num
    /\ batch' = HeadN(PrunableAndSampled, MaxBatchSize)
    /\ toAsk' = AfterSamplingWindow
    /\ ppc' = "ask"
    /\ UNCHANGED <<storeVars, daserVars, roundNow, pStored, pPruned, pSampled,
                   afterSampling, afterPruning, cacheUpdated, pCids>>

\* The ask loop: highest height first; sampled ones need no permission.
AskTakeSampled ==
    /\ ppc = "ask"
    /\ toAsk # {}
    /\ Cardinality(batch) < MaxBatchSize
    /\ Max(toAsk) \in pSampled
    /\ batch' = batch \cup {Max(toAsk)}
    /\ toAsk' = toAsk \ {Max(toAsk)}
    /\ UNCHANGED <<storeVars, sharedVars, daserVars, ppc, roundNow, pStored, pPruned,
                   pSampled, afterSampling, afterPruning, cacheUpdated, prevNum,
                   pCids>>

AskWantToPrune ==
    /\ ppc = "ask"
    /\ toAsk # {}
    /\ Cardinality(batch) < MaxBatchSize
    /\ Max(toAsk) \notin pSampled
    /\ SendCommand("want", Max(toAsk))
    /\ ppc' = "awaitReply"
    /\ UNCHANGED <<storeVars, daserVars, roundNow, pStored, pPruned, pSampled,
                   afterSampling, afterPruning, cacheUpdated, prevNum, toAsk, batch,
                   pCids>>

AskReply ==
    /\ ppc = "awaitReply"
    /\ reply # "none"
    /\ batch' = IF reply = "yes" THEN batch \cup {Max(toAsk)} ELSE batch
    /\ toAsk' = toAsk \ {Max(toAsk)}
    /\ reply' = "none"
    /\ ppc' = "ask"
    /\ UNCHANGED <<storeVars, daserVars, now, connected, cmds, notified, blocks,
                   roundNow, pStored, pPruned, pSampled, afterSampling, afterPruning,
                   cacheUpdated, prevNum, pCids>>

AskDone ==
    /\ ppc = "ask"
    /\ toAsk = {} \/ Cardinality(batch) = MaxBatchSize
    /\ toAsk' = {}
    /\ pStored' = {} /\ pPruned' = {} /\ pSampled' = {}
    /\ ppc' = "nextHeight"
    /\ UNCHANGED <<storeVars, sharedVars, daserVars, roundNow, afterSampling,
                   afterPruning, cacheUpdated, prevNum, batch, pCids>>

-----------------------------------------------------------------------------
(* run: remove the batch, lowest height first                              *)

\* Read the CIDs of the next height (NotFound is fatal), or sleep a block
\* time when the batch is empty and start over.
NextHeight ==
    /\ ppc = "nextHeight"
    /\ IF batch = {} THEN ppc' = "begin" /\ UNCHANGED pCids
       ELSE IF Min(batch) \in stored THEN ppc' = "removeBlocks" /\ pCids' = metadata[Min(batch)]
       ELSE ppc' = "dead" /\ UNCHANGED pCids
    /\ UNCHANGED <<storeVars, sharedVars, daserVars, roundNow, pStored, pPruned,
                   pSampled, afterSampling, afterPruning, cacheUpdated, prevNum,
                   toAsk, batch>>

\* blockstore.remove of each of them
RemoveBlocks ==
    /\ ppc = "removeBlocks"
    /\ blocks' = blocks \ ({Min(batch)} \X pCids)
    /\ pCids' = {}
    /\ ppc' = "removeHeight"
    /\ UNCHANGED <<storeVars, daserVars, now, connected, cmds, reply, notified,
                   roundNow, pStored, pPruned, pSampled, afterSampling, afterPruning,
                   cacheUpdated, prevNum, toAsk, batch>>

RemoveHeight ==
    /\ ppc = "removeHeight"
    /\ IF Min(batch) \in stored
       THEN /\ StoreRemoveHeight(Min(batch))
            /\ batch' = batch \ {Min(batch)}
            /\ ppc' = "nextHeight"
       ELSE ppc' = "dead" /\ UNCHANGED <<storeVars, batch>>
    /\ UNCHANGED <<sharedVars, daserVars, roundNow, pStored, pPruned, pSampled,
                   afterSampling, afterPruning, cacheUpdated, prevNum, toAsk, pCids>>

PrunerStep ==
    \/ PrunerReadStored \/ PrunerReadPruned \/ PrunerReadSampled
    \/ UpdateCachedData \/ SkipCacheUpdate
    \/ SendHighestPrunable \/ SendNumberOfPrunable
    \/ AskTakeSampled \/ AskWantToPrune \/ AskReply \/ AskDone
    \/ NextHeight \/ RemoveBlocks \/ RemoveHeight
=============================================================================
