------------------------------ MODULE Syncing ------------------------------
(***************************************************************************)
(* The Syncer with what it meets: the network and its head, peers coming   *)
(* and going, header-sub announcements, the process being restarted, and   *)
(* the Daser and the Pruner, reduced to what they promise about the store  *)
(* (SamplingAndPruning shows that they keep the promise).                  *)
(***************************************************************************)
EXTENDS Syncer

CONSTANTS
    StartTime,      \* the clock when the node starts
    SubCapacity,    \* capacity of the header-sub channel
    MaxDisconnects, \* bound on how often all peers are lost
    MaxRestarts     \* bound on the number of restarts

ASSUME SyncingAssumption ==
    /\ StartTime \in 1..MaxHeight
    /\ SubCapacity \in Nat \ {0}
    /\ MaxDisconnects \in Nat
    /\ MaxRestarts \in Nat

VARIABLES
    disconnects,
    restarts,
    lagged      \* history: did this process start from a network head below
                \* a header it had or had heard of?

boundVars == <<disconnects, restarts, lagged>>

vars == <<storeVars, broadcastVars, now, connected, syncerVars, boundVars>>

\* The headers the node has, or had until the Pruner removed them.
Had == stored \cup pruned

TypeOK ==
    /\ StoreTypeOK
    /\ BroadcastTypeOK
    /\ SyncerTypeOK
    /\ disconnects \in 0..MaxDisconnects
    /\ restarts \in 0..MaxRestarts
    /\ lagged \in BOOLEAN

Init ==
    /\ StoreInit
    /\ BroadcastInit
    /\ SyncerInit
    /\ now = StartTime
    /\ connected = FALSE
    /\ disconnects = 0 /\ restarts = 0 /\ lagged = FALSE

-----------------------------------------------------------------------------
(* The environment                                                         *)

\* A block time passes and the network makes a block.
Tick ==
    /\ now < MaxHeight
    /\ now' = now + 1
    /\ UNCHANGED <<storeVars, broadcastVars, connected, syncerVars, boundVars>>

PeerConnects ==
    /\ ~connected
    /\ connected' = TRUE
    /\ UNCHANGED <<storeVars, broadcastVars, now, syncerVars, boundVars>>

AllPeersDisconnect ==
    /\ connected
    /\ disconnects < MaxDisconnects
    /\ disconnects' = disconnects + 1
    /\ connected' = FALSE
    /\ UNCHANGED <<storeVars, broadcastVars, now, syncerVars, restarts, lagged>>

\* known_head.verify of on_header_sub_message
AcceptsHeader(h) == h > subHead

\* on_header_sub_message of the P2p worker: a header verified against the
\* known head is passed on, or dropped when the channel is full or closed.
GossipHeader ==
    /\ connected
    /\ subHead # 0
    /\ \E h \in 1..now :
          /\ AcceptsHeader(h)
          /\ subHead' = h
          /\ subRx' = IF subOpen /\ Len(subRx) < SubCapacity THEN Append(subRx, h)
                      ELSE subRx
    /\ UNCHANGED <<storeVars, broadcastVars, now, connected, spc, syncerLocal, subOpen,
                   boundVars>>

\* The Daser sampled a block.
DaserSamples ==
    /\ \E h \in stored \ sampled : StoreMarkAsSampled(h)
    /\ UNCHANGED <<broadcastVars, now, connected, syncerVars, boundVars>>

\* The Pruner removes a header it may remove.
PrunerRemoves ==
    /\ \E h \in stored :
          /\ Disposable(h, now, SamplingWindow, PruningWindow)
          /\ StoreRemoveHeight(h)
    /\ UNCHANGED <<broadcastVars, now, connected, syncerVars, boundVars>>

\* The process stops and starts again on the same store.
Restart ==
    /\ restarts < MaxRestarts
    /\ restarts' = restarts + 1
    /\ spc' = "connecting"
    /\ subj' = 0 /\ slowSync' = 0 /\ ongoing' = {}
    /\ initHead' = 0 /\ sStored' = {} /\ nextBatch' = {}
    /\ subRx' = <<>> /\ subOpen' = FALSE /\ subHead' = 0
    /\ lastSent' = 0 /\ pending' = <<>> /\ stream' = <<>>
    /\ connected' = FALSE /\ lagged' = FALSE
    /\ UNCHANGED <<storeVars, now, disconnects>>

Environment ==
    \/ Tick \/ PeerConnects \/ AllPeersDisconnect \/ GossipHeader
    \/ DaserSamples \/ PrunerRemoves \/ Restart

\* A step of the Syncer; TryInitDone is the one that follows "initialised".
SyncerMoves ==
    /\ SyncerStep
    /\ lagged' = (lagged \/ (spc = "initialised" /\ \E h \in Had \cup {subj} : initHead < h))
    /\ UNCHANGED <<disconnects, restarts>>

Next == SyncerMoves \/ Environment

Spec == Init /\ [][Next]_vars

\* The worker is polled as long as it can run, its select! serves every ready
\* branch, requests to a connected network are answered, not always with an
\* error, and peers are found again.
Fairness ==
    /\ WF_vars(SyncerMoves)
    /\ SF_vars(OnFetchResult /\ UNCHANGED boundVars)
    /\ SF_vars(OnHeaderSub /\ UNCHANGED boundVars)
    /\ WF_vars(PeerConnects)

FairSpec == Spec /\ Fairness

-----------------------------------------------------------------------------
(* Properties                                                              *)

\* "Syncer must ignore those gaps": a batch is never asked for that holds a
\* header the node has, or had until the Pruner removed it.
NoRefetch ==
    [][ongoing' # {} /\ ongoing = {} => ongoing' \cap Had = {}]_vars

\* Each height is followed by the next one.
Contiguous(heights) == \A i \in 1..(Len(heights) - 1) : heights[i + 1] = heights[i] + 1

\* A subscriber sees every height from the first on, once and in order.
ContiguousStream == TypeOK /\ Contiguous(stream)

\* "a contiguous stream of Headers as they are synchronised by the node": the
\* stream never gets stuck.  If the header after the last announced one was
\* inserted without being announced, as try_init does on reconnecting, it waits
\* in `pending` for the next insertion.
StreamContinues ==
    spc = "select" /\ lastSent # 0 /\ lastSent + 1 \in Had
        => \E i \in 1..Len(pending) : pending[i].lo = lastSent + 1

\* That is so while no trusted peer reports a head below what the node has.
NothingIsSkipped == ~lagged => StreamContinues

\* The Pruner never makes a batch under way useless: while the header above it
\* is in the sampling window, the batch keeps a stored neighbour or becomes the
\* head, unless header-sub overtook it.
BatchIsNotOrphaned ==
    ongoing # {} =>
        \/ InsertionConstraintsMet(Min(ongoing), Max(ongoing))
        \/ ongoing \cap Had # {}
        \/ ~InWindow(Max(ongoing) + 1)

\* The Syncer catches up with the network head it knows of, again and again.
HeadIsSynced == []<>(subj = 0 \/ subj \in Had)

\* In the end no header of the sampling window is missing.
WindowIsSynced ==
    <>[](\A h \in Heights : InWindow(h) /\ h <= subj => h \in Had)

\* "make sure we're inside the sampling window before we start": a batch below
\* synced headers is asked for only if the header above it is in the window.
SyncsInsideWindow ==
    [][ongoing' # {} /\ ongoing = {} /\ Max(ongoing') + 1 \in Had
          => InWindow(Max(ongoing') + 1)]_vars
-----------------------------------------------------------------------------
(* What the Syncer relies on between its steps: the inductive invariants   *)
(* of the proofs.                                                          *)

InConnectedLoop ==
    spc \in {"fetch", "fetchPruned", "fetchSampled", "fetchWindow", "select", "insertSub"}

\* A range the Syncer may ask for: none of it was synced, and it continues
\* what was, upwards or downwards.
Fetchable(b, synced) ==
    \E lo, hi \in Heights :
        /\ lo <= hi
        /\ b = lo..hi
        /\ b \cap synced = {}
        /\ (\A h \in synced : h < lo) \/ hi + 1 \in synced

\* A range it has asked for, which header-sub may have overtaken since.
UnderWay(b, synced) ==
    \E lo, hi \in Heights :
        /\ lo <= hi
        /\ b = lo..hi
        /\ b \cap synced # {} \/ (\A h \in synced : h < lo) \/ hi + 1 \in synced

\* What was read is still true when it is used, whatever the Pruner moved in
\* between, and what the Pruner removed inside the window has its neighbours.
SyncInv ==
    /\ spc \in {"readHead", "insertHead", "initialised", "insertSub"} => initHead \in Heights
    /\ spc = "initialised" => initHead \in Had
    /\ spc = "insertSub" => initHead - 1 \in Had
    /\ InConnectedLoop => subj # 0
    /\ spc \notin {"fetch", "select", "insertSub"} => ongoing = {}
    /\ IF spc \in {"fetchSampled", "fetchWindow"} THEN Fetchable(nextBatch, Had)
       ELSE nextBatch = {}
    /\ spc = "fetchPruned" => sStored \cup pruned = Had
    /\ ongoing # {} => UnderWay(ongoing, Had)
    /\ \A h \in pruned : h + SamplingWindow <= now \/ {h - 1, h + 1} \subseteq Had

\* The announced heights are contiguous up to lastSent.
StreamInv ==
    /\ BroadcastTypeOK
    /\ InConnectedLoop => lastSent # 0
    /\ \A i \in 1..Len(pending) : pending[i].lo <= pending[i].hi
    /\ Contiguous(stream)
    /\ lastSent = IF stream = <<>> THEN 0 ELSE stream[Len(stream)]

\* While no trusted peer lagged, header-sub brings headers above all the node
\* has or has asked for.
KnownInv ==
    /\ InConnectedLoop =>
          /\ \A h \in Had \cup ongoing \cup nextBatch : h <= subj
          /\ subj <= subHead
          /\ \A i \in 1..Len(subRx) : subj < subRx[i] /\ subRx[i] <= subHead
          /\ \A i, j \in 1..Len(subRx) : i < j => subRx[i] < subRx[j]
          /\ ongoing \cap Had = {}
    /\ spc = "insertSub" => initHead = subj /\ \A h \in Had \cup ongoing : h < initHead

\* While no trusted peer lagged, what is above lastSent is pending, in ranges
\* that do not overlap, except for the head found on reconnecting.
PendingInv ==
    /\ lastSent # 0 =>
          /\ lastSent \in Had
          /\ \A h \in Had : h > lastSent =>
                \/ \E i \in 1..Len(pending) :
                      lastSent < pending[i].lo /\ h \in pending[i].lo..pending[i].hi
                \/ spc = "initialised" /\ h = initHead
    /\ \A i \in 1..Len(pending) : pending[i].lo..pending[i].hi \subseteq Had
    /\ \A i, j \in 1..Len(pending) :
          pending[i].hi < pending[j].hi => pending[i].hi < pending[j].lo

FreshInv == ~lagged => KnownInv /\ PendingInv

\* "We know range cannot cross last_sent_height": so it is when announce_insert
\* is called, while no trusted peer lagged.
NeverCrossesLastSent ==
    ~lagged =>
        /\ spc = "insertSub" => initHead > lastSent
        /\ spc = "select" /\ ongoing # {} => Max(ongoing) < lastSent \/ Min(ongoing) > lastSent
=============================================================================
