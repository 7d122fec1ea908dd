------------------------- MODULE SamplingAndPruning -------------------------
(***************************************************************************)
(* The Daser and the Pruner running side by side over one store and one    *)
(* blockstore, with the rest of the node and the network around them: the  *)
(* Syncer inserting headers, peers coming and going, Bitswap delivering    *)
(* blocks, the clock, and the process being stopped and started again.     *)
(***************************************************************************)
EXTENDS Pruner

CONSTANTS
    StartTime,      \* the clock when the node starts
    MaxTime,        \* bound on the clock
    ClockDrift,     \* how far ahead of the local clock a block's time may be
    MaxRestarts,    \* bound on the number of restarts
    MaxDisconnects, \* bound on how often all peers are lost
    MaxReinserts    \* bound on how often a pruned height is inserted again

ASSUME SamplingAndPruningAssumption ==
    /\ StartTime \in Nat
    /\ MaxTime \in Nat
    /\ ClockDrift \in Nat
    /\ MaxRestarts \in Nat
    /\ MaxDisconnects \in Nat
    /\ MaxReinserts \in Nat

VARIABLES restarts, disconnects, reinserts

boundVars == <<restarts, disconnects, reinserts>>

vars == <<storeVars, sharedVars, daserVars, prunerVars, boundVars>>

TypeOK ==
    /\ StoreTypeOK
    /\ DaserTypeOK
    /\ PrunerTypeOK
    /\ restarts \in 0..MaxRestarts
    /\ disconnects \in 0..MaxDisconnects
    /\ reinserts \in 0..MaxReinserts

Init ==
    /\ StoreInit
    /\ DaserInit
    /\ PrunerInit
    /\ now = StartTime
    /\ connected = FALSE
    /\ cmds = <<>> /\ reply = "none" /\ notified = FALSE
    /\ blocks = {}
    /\ restarts = 0 /\ disconnects = 0 /\ reinserts = 0

-----------------------------------------------------------------------------
(* The environment                                                         *)

\* Store::insert called by the Syncer, and its notify_waiters: only a
\* wait_new_head that was polled already is waiting.
InsertHeaders(lo, hi) ==
    /\ hi <= now + ClockDrift
    /\ StoreInsert(lo, hi)
    /\ notified' = (baseline # -1)
    /\ UNCHANGED <<now, connected, cmds, reply, blocks, daserVars, prunerVars, restarts,
                   disconnects>>

\* A batch of missing headers: the Syncer asks only for heights it has not
\* synced yet.
SyncBatch ==
    \E lo, hi \in Heights :
        /\ (lo..hi) \cap pruned = {}
        /\ InsertHeaders(lo, hi)
        /\ UNCHANGED reinserts

\* The network head, inserted by try_init whatever was synced before.
SyncNetworkHead ==
    /\ reinserts < MaxReinserts
    /\ reinserts' = reinserts + 1
    /\ \E h \in pruned : InsertHeaders(h, h)

\* ShwapMultihasher verifies a block against the header of its height, which
\* it looks up in the store.
MultihasherAccepts(s) == s[1] \in stored

\* A wanted block arrives.  Bitswap stores it and resolves the share request.
DeliverBlock ==
    \E s \in shares :
        /\ MultihasherAccepts(s)
        /\ blocks' = blocks \cup {s}
        /\ shares' = shares \ {s}
        /\ UNCHANGED <<storeVars, prunerVars, boundVars, now, connected, cmds, reply,
                       notified, dpc, queue, timedOut, ongoing, willBePruned, futs,
                       cancelled, headHeight, highestPrunable, numPrunable, current,
                       seen, baseline>>

\* A block arrives for a query whose receiver is gone already.
DeliverLateBlock ==
    \E s \in cancelled :
        /\ MultihasherAccepts(s)
        /\ blocks' = blocks \cup {s}
        /\ cancelled' = cancelled \ {s}
        /\ UNCHANGED <<storeVars, prunerVars, boundVars, now, connected, cmds, reply,
                       notified, dpc, queue, timedOut, ongoing, willBePruned, futs,
                       shares, headHeight, highestPrunable, numPrunable, current,
                       seen, baseline>>

\* prune_canceled_bitswap_queries of the P2p worker.
PruneCanceledQueries ==
    /\ cancelled # {}
    /\ cancelled' = {}
    /\ UNCHANGED <<storeVars, sharedVars, prunerVars, boundVars, dpc, queue, timedOut,
                   ongoing, willBePruned, futs, shares, headHeight, highestPrunable,
                   numPrunable, current, seen, baseline>>

PeerConnects ==
    /\ ~connected
    /\ connected' = TRUE
    /\ UNCHANGED <<storeVars, daserVars, prunerVars, boundVars, now, cmds, reply,
                   notified, blocks>>

AllPeersDisconnect ==
    /\ connected
    /\ disconnects < MaxDisconnects
    /\ disconnects' = disconnects + 1
    /\ connected' = FALSE
    /\ UNCHANGED <<storeVars, daserVars, prunerVars, restarts, reinserts, now, cmds,
                   reply, notified, blocks>>

Tick ==
    /\ now < MaxTime
    /\ now' = now + 1
    /\ UNCHANGED <<storeVars, daserVars, prunerVars, boundVars, connected, cmds, reply,
                   notified, blocks>>

\* The process stops between any two steps and starts again: the store and
\* the blockstore are persistent, the workers are created anew.
Restart ==
    /\ restarts < MaxRestarts
    /\ restarts' = restarts + 1
    /\ dpc' = "connecting"
    /\ queue' = {} /\ timedOut' = {} /\ ongoing' = {} /\ willBePruned' = {}
    /\ futs' = {} /\ shares' = {} /\ cancelled' = {}
    /\ headHeight' = 0 /\ highestPrunable' = 0 /\ numPrunable' = 0
    /\ current' = 0 /\ seen' = {} /\ baseline' = -1
    /\ ppc' = "begin" /\ roundNow' = 0
    /\ pStored' = {} /\ pPruned' = {} /\ pSampled' = {}
    /\ afterSampling' = 0 /\ afterPruning' = 0 /\ cacheUpdated' = FALSE
    /\ prevNum' = 0 /\ toAsk' = {} /\ batch' = {} /\ pCids' = {}
    /\ cmds' = <<>> /\ reply' = "none" /\ notified' = FALSE /\ connected' = FALSE
    /\ UNCHANGED <<storeVars, now, blocks, disconnects, reinserts>>

Environment ==
    \/ SyncBatch \/ SyncNetworkHead \/ DeliverBlock \/ DeliverLateBlock
    \/ PruneCanceledQueries \/ PeerConnects \/ AllPeersDisconnect \/ Tick \/ Restart

Next ==
    \/ DaserStep /\ UNCHANGED <<prunerVars, boundVars>>
    \/ PrunerStep /\ UNCHANGED boundVars
    \/ Environment

Spec == Init /\ [][Next]_vars

\* Each task is polled as long as it can run, the select! of the Daser picks
\* among the ready branches at random, every sampling has a timeout, and the
\* throttle of update_cached_data holds for a second at most.
Fairness ==
    /\ WF_vars(DaserStep /\ UNCHANGED <<prunerVars, boundVars>>)
    /\ WF_vars(PrunerStep /\ UNCHANGED boundVars)
    /\ SF_vars(UpdateCachedData /\ UNCHANGED boundVars)
    /\ SF_vars((\E h \in Heights : SamplingDone(h) \/ SamplingTimedOut(h))
                 /\ UNCHANGED <<prunerVars, boundVars>>)

FairSpec == Spec /\ Fairness
-----------------------------------------------------------------------------
(* Properties                                                              *)

\* The heights whose header the Daser relies on: those with a live sampling,
\* and the one it holds while it records CIDs or the result of a sampling.
HeldByDaser ==
    futs \cup (IF dpc \in {"updateMetadata", "markSampled"} THEN {current} ELSE {})

\* "If we want to prune a header, we need to make sure that there isn't an
\* ongoing sampling for it": the Pruner never removes the header of a block
\* between the Daser's decision to sample it and the recording of the result.
SamplingKeepsHeader == HeldByDaser \subseteq stored

\* Neither worker ever stops on a NotFound of the store: the `?` after
\* update_sampling_metadata, mark_as_sampled, get_by_height of a cached border,
\* get_sampling_metadata and remove_height never fires on a race.
NoFatalError == dpc # "dead" /\ ppc # "dead"

\* Every block in the blockstore is one the store knows of: its header is
\* stored and lists its CID, so that pruning the header will remove it.  This
\* is why CIDs are recorded before the sampling starts.
NoLeakedBlocks ==
    \A b \in blocks : b[1] \in stored /\ b[2] \in metadata[b[1]]

\* The Pruner removes a header only after the pruning window and, while it is
\* inside the sampling window, only once it was sampled and no missing header
\* can need it as a neighbour, whatever happened since the Pruner looked.
OnlyDisposableHeadersPruned ==
    [][\A h \in stored \ stored' :
          Disposable(h, now, SamplingWindow, PruningWindow)]_vars

\* While the Daser waits for a new head, the head it compares with is one it
\* has dealt with: wait_new_head "returns when new head is available", so no
\* head can be inserted without the Daser getting to know of it.
WaitedHeadIsKnown ==
    dpc = "select" /\ baseline \in stored /\ ~notified
        => baseline \in queue \cup ongoing \cup sampled \cup timedOut \cup willBePruned

\* A header that left both windows is eventually pruned, even if the Daser
\* was sampling it, paused, or without peers when the Pruner asked.
ExpiredHeadersArePruned ==
    \A h \in Heights :
        (h \in stored /\ h + SamplingWindow < now /\ h + PruningWindow < now)
            ~> h \notin stored

\* A queued block does not stay queued: the pause that the Pruner's backlog
\* imposes on the Daser, and the concurrency limit, are always lifted again.
QueueDrains == \A h \in Heights : (h \in queue) ~> (h \notin queue)

-----------------------------------------------------------------------------
(* The inductive invariant behind SamplingKeepsHeader and NoFatalError.    *)

\* The height popped from the queue whose sampling has not started yet.
Popped == IF dpc \in {"getHeader", "updateMetadata"} THEN {current} ELSE {}

\* What the Daser samples, or may go on to sample, is neither sampled already
\* nor promised to the Pruner.
DaserInv ==
    /\ dpc # "dead"
    /\ futs \subseteq ongoing
    /\ ongoing \subseteq stored
    /\ dpc = "updateMetadata" => current \in stored
    /\ dpc = "markSampled" => current \in ongoing \ futs
    /\ queue \cap (ongoing \cup sampled \cup willBePruned) = {}
    /\ ongoing \cap (sampled \cup willBePruned) = {}
    /\ Popped \cap (queue \cup ongoing \cup sampled \cup willBePruned) = {}

\* What the Pruner read is still there, and what it is about to remove is
\* sampled or was promised to it.
PrunerInv ==
    /\ ppc # "dead"
    /\ pStored \subseteq stored
    /\ pSampled \subseteq sampled
    /\ toAsk \subseteq pStored
    /\ batch \subseteq stored
    /\ batch \subseteq sampled \cup willBePruned
    /\ ppc \in {"removeBlocks", "removeHeight"} => batch # {}
    /\ ppc \in {"begin", "nextHeight", "removeBlocks", "removeHeight"}
          => pStored = {} /\ pSampled = {} /\ toAsk = {}

\* At most one WantToPrune is under way, for the height the Pruner asks about,
\* and a positive answer is backed by a promise.
IsWant(i) == cmds[i].op = "want"

ChannelInv ==
    /\ \A i \in 1..Len(cmds) :
          IsWant(i) => ppc = "awaitReply" /\ reply = "none" /\ cmds[i].value = Max(toAsk)
    /\ \A i, j \in 1..Len(cmds) : IsWant(i) /\ IsWant(j) => i = j
    /\ reply # "none" => ppc = "awaitReply"
    /\ reply = "yes" => Max(toAsk) \in willBePruned

IInv ==
    /\ sampled \subseteq stored
    /\ stored \cap pruned = {}
    /\ DaserInv
    /\ PrunerInv
    /\ ChannelInv

\* What NoLeakedBlocks needs besides: every share a live sampling awaits is of
\* a CID recorded for its height, and between the removal of a height's blocks
\* and of its header no block of it comes back.
BlockInv ==
    /\ NoLeakedBlocks
    /\ cancelled = {}
    /\ \A s \in shares : s[1] \in futs /\ s[2] \in metadata[s[1]]
    /\ ppc = "removeBlocks" => pCids = metadata[Min(batch)]
    /\ ppc = "removeHeight" => \A b \in blocks : b[1] # Min(batch)

\* What OnlyDisposableHeadersPruned needs: the cached borders are outside the
\* windows, what was synced when the Pruner looked is synced now, and what it
\* is about to ask for or to remove is disposable already.
DisposableInv ==
    /\ roundNow <= now
    /\ afterSampling # 0 => afterSampling + SamplingWindow <= now
    /\ afterPruning # 0 => afterPruning + PruningWindow <= now
    /\ pStored \cup pPruned \subseteq stored \cup pruned
    /\ \A h \in toAsk : h + SamplingWindow <= now /\ h + PruningWindow <= now
    /\ \A h \in batch : Disposable(h, now, SamplingWindow, PruningWindow)
=============================================================================
