------------------------------- MODULE Daser -------------------------------
(***************************************************************************)
(* The data availability sampler (node/src/daser.rs).  The worker is one   *)
(* task: an await inside a handler is where the other tasks may run, so    *)
(* every store access is a step of its own and dpc says which one is next. *)
(* The block at height h has time h.                                       *)
(***************************************************************************)
EXTENDS HeaderStore, Sequences

CONSTANTS
    SamplingWindow,         \* sampling_window, in block times
    ConcurrencyLimit,       \* concurrency_limit
    AdditionalConcurrency,  \* additional_headersub_concurency
    MaxSamplesNeeded,       \* max_samples_needed
    PrunerThreshold,        \* PRUNER_THRESHOLD
    LazyCancel              \* may the P2p worker lag in cancelling Bitswap queries?

ASSUME DaserAssumption ==
    /\ SamplingWindow \in Nat
    /\ ConcurrencyLimit \in Nat
    /\ AdditionalConcurrency \in Nat
    /\ MaxSamplesNeeded \in Nat \ {0}
    /\ PrunerThreshold \in Nat
    /\ LazyCancel \in BOOLEAN

VARIABLES
    now,              \* the wall clock, in block times
    connected,        \* num_connected_peers > 0
    cmds,             \* the mpsc channel of DaserCmd
    reply,            \* the oneshot of WantToPrune: "none", "yes" or "no"
    dpc,              \* where the worker is
    queue, timedOut, ongoing, willBePruned,   \* the worker's ranges
    futs,             \* sampling_futs: heights with a live sampling future
    shares,           \* the share requests those futures still await
    cancelled,        \* Bitswap queries whose receiver is gone
    headHeight,       \* head_height, 0 for None
    highestPrunable,  \* highest_prunable_height, 0 for None
    numPrunable,      \* num_of_prunable_blocks
    current,          \* the height in hand between two awaits
    seen,             \* get_stored_header_ranges result in update_queue
    baseline,         \* the head wait_new_head compares with, -1 before its first poll
    notified,         \* header_added_notifier fired since then
    blocks            \* the blockstore: <<height, cid>> of sampled blocks

daserLocal == <<queue, timedOut, ongoing, willBePruned, futs, shares, cancelled,
                headHeight, highestPrunable, numPrunable, current, seen, baseline>>

daserVars == <<dpc, daserLocal>>

sharedVars == <<now, connected, cmds, reply, notified, blocks>>

Commands == [op : {"want"}, value : Heights] \cup [op : {"highest", "number"}, value : Nat]

DaserTypeOK ==
    /\ now \in Nat
    /\ connected \in BOOLEAN
    /\ cmds \in Seq(Commands)
    /\ reply \in {"none", "yes", "no"}
    /\ dpc \in {"connecting", "readStored", "readSampled", "schedule", "getHeader",
                "updateMetadata", "select", "markSampled", "dead"}
    /\ queue \in SUBSET Heights
    /\ timedOut \in SUBSET Heights
    /\ ongoing \in SUBSET Heights
    /\ willBePruned \in SUBSET Heights
    /\ futs \in SUBSET Heights
    /\ shares \in SUBSET (Heights \X Cids)
    /\ cancelled \in SUBSET (Heights \X Cids)
    /\ headHeight \in 0..MaxHeight
    /\ highestPrunable \in Nat
    /\ numPrunable \in Nat
    /\ current \in 0..MaxHeight
    /\ seen \in SUBSET Heights
    /\ baseline \in -1..MaxHeight
    /\ notified \in BOOLEAN
    /\ blocks \in SUBSET (Heights \X Cids)

\* Worker::new.
DaserInit ==
    /\ dpc = "connecting"
    /\ queue = {} /\ timedOut = {} /\ ongoing = {} /\ willBePruned = {}
    /\ futs = {} /\ shares = {} /\ cancelled = {}
    /\ headHeight = 0 /\ highestPrunable = 0 /\ numPrunable = 0
    /\ current = 0 /\ seen = {} /\ baseline = -1

-----------------------------------------------------------------------------
(* Operators                                                               *)

\* in_sampling_window: a header from the future is inside.
InSamplingWindow(h) == now < h \/ now - h <= SamplingWindow

\* The limit schedule_next_sample_block applies to the popped height.
LimitFor(h) ==
    IF h <= highestPrunable /\ numPrunable >= PrunerThreshold
    THEN 0
    ELSE IF h = headHeight
         THEN ConcurrencyLimit + AdditionalConcurrency
         ELSE ConcurrencyLimit

\* random_indexes: so many of the shares of the square, all of a small one.
RandomIndexes ==
    {cids \in SUBSET Cids : Cardinality(cids) = Min({MaxSamplesNeeded, Cardinality(Cids)})}

SharesOf(h) == {s \in shares : s[1] = h}

\* A dropped share request: the P2p worker learns of it only when it next
\* polls for closed channels.
Cancel(dropped) == IF LazyCancel THEN cancelled \cup dropped ELSE cancelled

\* sampling_futs.clear()
ClearFutures == futs' = {} /\ shares' = {} /\ cancelled' = Cancel(shares)

\* The heights given up once a block outside the sampling window is met.
FromZeroTo(h) == 0..h   \* mutation: off by one
UpTo(h) == 1..h

\* The queue update_queue computes.
NeedSamplingForgetful == ((seen \ sampled) \ timedOut) \ ongoing
    \* mutation: what was promised to the Pruner is queued again
NeedSampling == (((seen \ sampled) \ timedOut) \ ongoing) \ willBePruned

\* ongoing.remove_relaxed(h..=h)
StillOngoing(h) == ongoing  \* mutation: not removed
NoLongerOngoing(h) == ongoing \ {h}

-----------------------------------------------------------------------------
(* connecting_event_loop and the end of connected_event_loop               *)

\* A peer is there: enter connected_event_loop, create the wait_new_head
\* future (not polled yet) and start update_queue.
DaserConnected ==
    /\ dpc = "connecting"
    /\ connected
    /\ dpc' = "readStored"
    /\ UNCHANGED <<storeVars, sharedVars, daserLocal>>

\* All peers disconnected: leave the select loop and drop what was going on.
DaserDisconnected ==
    /\ dpc = "select"
    /\ ~connected
    /\ dpc' = "connecting"
    /\ ClearFutures
    /\ queue' = {} /\ ongoing' = {} /\ timedOut' = {}
    /\ headHeight' = 0 /\ baseline' = -1
    /\ UNCHANGED <<storeVars, sharedVars, willBePruned, highestPrunable,
                   numPrunable, current, seen>>

-----------------------------------------------------------------------------
(* update_queue: two reads of the store, then the new queue                *)

UpdateQueueReadStored ==
    /\ dpc = "readStored"
    /\ seen' = stored
    /\ dpc' = "readSampled"
    /\ UNCHANGED <<storeVars, sharedVars, queue, timedOut, ongoing, willBePruned,
                   futs, shares, cancelled, headHeight, highestPrunable,
                   numPrunable, current, baseline>>

UpdateQueueReadSampled ==
    /\ dpc = "readSampled"
    /\ headHeight' = HeadOf(seen)
    /\ queue' = NeedSampling
    /\ seen' = {}
    /\ dpc' = "schedule"
    /\ UNCHANGED <<storeVars, sharedVars, timedOut, ongoing, willBePruned, futs,
                   shares, cancelled, highestPrunable, numPrunable, current,
                   baseline>>

-----------------------------------------------------------------------------
(* schedule_next_sample_block, called until it returns false               *)

\* Pop the most recent unsampled height; put it back at the limit.
PopHead ==
    /\ dpc = "schedule"
    /\ LET h == HeadOf(queue)
       IN  IF queue = {} \/ Cardinality(futs) >= LimitFor(h)
           THEN dpc' = "select" /\ UNCHANGED <<queue, current>>
           ELSE dpc' = "getHeader" /\ current' = h /\ queue' = queue \ {h}
    /\ UNCHANGED <<storeVars, sharedVars, timedOut, ongoing, willBePruned, futs,
                   shares, cancelled, headHeight, highestPrunable, numPrunable,
                   seen, baseline>>

\* The height was pruned meanwhile: update_queue and try again.
GetHeaderNotFound ==
    /\ dpc = "getHeader"
    /\ current \notin stored
    /\ dpc' = "readStored"
    /\ current' = 0
    /\ UNCHANGED <<storeVars, sharedVars, queue, timedOut, ongoing, willBePruned,
                   futs, shares, cancelled, headHeight, highestPrunable,
                   numPrunable, seen, baseline>>

\* Out of the sampling window: so is everything below.
GetHeaderOutsideWindow ==
    /\ dpc = "getHeader"
    /\ current \in stored
    /\ ~InSamplingWindow(current)
    /\ queue' = queue \ UpTo(current)
    /\ timedOut' = timedOut \cup UpTo(current)
    /\ dpc' = "select"
    /\ current' = 0
    /\ UNCHANGED <<storeVars, sharedVars, ongoing, willBePruned, futs, shares,
                   cancelled, headHeight, highestPrunable, numPrunable, seen,
                   baseline>>

GetHeaderInWindow ==
    /\ dpc = "getHeader"
    /\ current \in stored
    /\ InSamplingWindow(current)
    /\ dpc' = "updateMetadata"
    /\ UNCHANGED <<storeVars, sharedVars, daserLocal>>

\* Record the CIDs of the randomly chosen shares, then start the sampling
\* future.  NotFound is fatal here.
StartSampling ==
    /\ dpc = "updateMetadata"
    /\ \E cids \in RandomIndexes :
         IF current \in stored
         THEN /\ StoreUpdateSamplingMetadata(current, cids)
              /\ futs' = futs \cup {current}
              /\ shares' = shares \cup ({current} \X cids)
              /\ ongoing' = ongoing \cup {current}
              /\ dpc' = "schedule"
         ELSE dpc' = "dead" /\ UNCHANGED <<storeVars, futs, shares, ongoing>>
    /\ current' = 0
    /\ UNCHANGED <<sharedVars, queue, timedOut, willBePruned, cancelled, headHeight,
                   highestPrunable, numPrunable, seen, baseline>>

-----------------------------------------------------------------------------
(* The select! of the two event loops                                      *)

\* Mutation: the ongoing samplings are not consulted.
OnWantToPruneAlways(h) ==
    /\ reply' = "yes"
    /\ queue' = queue \ {h}
    /\ willBePruned' = willBePruned \cup {h}

\* on_want_to_prune: refuse what is being sampled, promise not to sample the
\* rest.
OnWantToPrune(h) ==
    IF h \in ongoing
    THEN reply' = "no" /\ UNCHANGED <<queue, willBePruned>>
    ELSE /\ reply' = "yes"
         /\ queue' = queue \ {h}
         /\ willBePruned' = willBePruned \cup {h}

\* on_cmd, in either loop; the connected loop then tries to schedule again.
OnCmd ==
    /\ dpc \in {"connecting", "select"}
    /\ cmds # <<>>
    /\ LET cmd == Head(cmds)
       IN  /\ IF cmd.op = "want" THEN OnWantToPrune(cmd.value)
              ELSE UNCHANGED <<reply, queue, willBePruned>>
           /\ highestPrunable' = IF cmd.op = "highest" THEN cmd.value ELSE highestPrunable
           /\ numPrunable' = IF cmd.op = "number" THEN cmd.value ELSE numPrunable
    /\ cmds' = Tail(cmds)
    /\ dpc' = IF dpc = "select" THEN "schedule" ELSE dpc
    /\ UNCHANGED <<storeVars, now, connected, notified, blocks, timedOut, ongoing,
                   futs, shares, cancelled, headHeight, current, seen, baseline>>

\* A sampling future resolved with all its shares.
SamplingDone(h) ==
    /\ dpc = "select"
    /\ h \in futs
    /\ SharesOf(h) = {}
    /\ futs' = futs \ {h}
    /\ current' = h
    /\ dpc' = "markSampled"
    /\ UNCHANGED <<storeVars, sharedVars, queue, timedOut, ongoing, willBePruned,
                   shares, cancelled, headHeight, highestPrunable, numPrunable,
                   seen, baseline>>

\* ... or timed out waiting for some of them.
SamplingTimedOut(h) ==
    /\ dpc = "select"
    /\ h \in futs
    /\ SharesOf(h) # {}
    /\ futs' = futs \ {h}
    /\ shares' = shares \ SharesOf(h)
    /\ cancelled' = Cancel(SharesOf(h))
    /\ timedOut' = timedOut \cup {h}
    /\ ongoing' = NoLongerOngoing(h)
    /\ dpc' = "schedule"
    /\ UNCHANGED <<storeVars, sharedVars, queue, willBePruned, headHeight,
                   highestPrunable, numPrunable, current, seen, baseline>>

\* mark_as_sampled, after which the height is no longer ongoing.  NotFound is
\* fatal here.
MarkSampled ==
    /\ dpc = "markSampled"
    /\ IF current \in stored
       THEN /\ StoreMarkAsSampled(current)
            /\ ongoing' = NoLongerOngoing(current)
            /\ dpc' = "schedule"
       ELSE dpc' = "dead" /\ UNCHANGED <<storeVars, ongoing>>
    /\ current' = 0
    /\ UNCHANGED <<sharedVars, queue, timedOut, willBePruned, futs, shares,
                   cancelled, headHeight, highestPrunable, numPrunable, seen,
                   baseline>>

\* wait_new_head is an async fn: it reads the head it compares with when it
\* is first polled, which is inside the select!.
PollWaitNewHead ==
    /\ dpc = "select"
    /\ baseline = -1
    /\ baseline' = HeadOf(stored)
    /\ notified' = FALSE
    /\ UNCHANGED <<storeVars, now, connected, cmds, reply, blocks, dpc, queue,
                   timedOut, ongoing, willBePruned, futs, shares, cancelled,
                   headHeight, highestPrunable, numPrunable, current, seen>>

\* An insertion woke wait_new_head: a changed head completes it, and a new
\* future is created before update_queue runs.
WakeWaitNewHead ==
    /\ dpc = "select"
    /\ baseline # -1
    /\ notified
    /\ notified' = FALSE
    /\ IF HeadOf(stored) # baseline
       THEN dpc' = "readStored" /\ baseline' = -1
       ELSE UNCHANGED <<dpc, baseline>>
    /\ UNCHANGED <<storeVars, now, connected, cmds, reply, blocks, queue, timedOut,
                   ongoing, willBePruned, futs, shares, cancelled, headHeight,
                   highestPrunable, numPrunable, current, seen>>

DaserStep ==
    \/ DaserConnected \/ DaserDisconnected
    \/ UpdateQueueReadStored \/ UpdateQueueReadSampled
    \/ PopHead \/ GetHeaderNotFound \/ GetHeaderOutsideWindow \/ GetHeaderInWindow
    \/ StartSampling \/ OnCmd \/ MarkSampled
    \/ \E h \in Heights : SamplingDone(h) \/ SamplingTimedOut(h)
    \/ PollWaitNewHead \/ WakeWaitNewHead
=============================================================================
