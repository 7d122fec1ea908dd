---------------------- MODULE SamplingAndPruningProofs ----------------------
(***************************************************************************)
(* Proofs about SamplingAndPruning, for all constants: its types, its      *)
(* inductive invariant, and what follows: the Pruner never removes a       *)
(* header the Daser still needs, neither worker stops on a missing header, *)
(* no block outlives its record, and what is pruned was disposable.        *)
(***************************************************************************)
EXTENDS SamplingAndPruning, IntervalLemmas, FiniteSetTheorems

-----------------------------------------------------------------------------
(* Minimum and maximum of a set of heights                                 *)

\* A non-empty set of heights has a least element, which Min returns: what
\* the Pruner's ascending iteration over a batch relies on.
LEMMA MinHeight ==
    ASSUME NEW S \in SUBSET Heights, S # {}
    PROVE  Min(S) \in S /\ \A y \in S : Min(S) <= y
  BY MinOfInterval, MaxHeightAssumption, Zenon DEF Heights

\* A non-empty set of heights has a greatest element, which Max returns: what
\* BlockRanges::head and pop_head rely on.
LEMMA MaxOfHeights ==
    ASSUME NEW S \in SUBSET Heights, S # {}
    PROVE  Max(S) \in S /\ \A y \in S : y <= Max(S)
  BY MaxOfInterval, MaxHeightAssumption DEF Heights

\* 0 is None, every height is a value of an optional height.
LEMMA OptionalHeights == Heights \subseteq 0..MaxHeight /\ 0 \in 0..MaxHeight
  BY MaxHeightAssumption DEF Heights

\* BlockRanges::head of a set of heights is one of them, or 0 for None.
LEMMA HeadOfHeights ==
    ASSUME NEW S \in SUBSET Heights
    PROVE  /\ HeadOf(S) \in 0..MaxHeight
           /\ S # {} => HeadOf(S) \in S
<1>1. CASE S = {}
  BY <1>1, OptionalHeights DEF HeadOf
<1>2. CASE S # {}
  <2>1. HeadOf(S) \in S
    BY <1>2, MaxOfHeights DEF HeadOf
  <2> QED
    BY <2>1, OptionalHeights, Zenon
<1> QED
  BY <1>1, <1>2

\* A set of heights is finite, so that its Cardinality is a number.
LEMMA HeightsFinite ==
    ASSUME NEW S \in SUBSET Heights
    PROVE  IsFiniteSet(S) /\ Cardinality(S) \in Nat
<1>1. 1 \in Int /\ MaxHeight \in Int
  BY MaxHeightAssumption
<1>2. IsFiniteSet(Heights)
  BY <1>1, FS_Interval DEF Heights
<1>3. IsFiniteSet(S)
  BY <1>2, FS_Subset
<1> QED
  BY <1>3, FS_CardinalityType

-----------------------------------------------------------------------------
(* Type correctness                                                        *)

\* right_of and left_of return a stored height or None.
LEMMA NeighbourTypes ==
    ASSUME NEW S \in SUBSET Heights, NEW h
    PROVE  /\ RightOf(S, h) \in 0..MaxHeight
           /\ LeftOf(S, h) \in 0..MaxHeight
<1> DEFINE right == {s \in S : s > h}
<1>1. right \in SUBSET Heights
  OBVIOUS
<1>2. right # {} => Min(right) \in right
  BY <1>1, MinHeight
<1>3. RightOf(S, h) \in 0..MaxHeight
  BY <1>1, <1>2, MaxHeightAssumption DEF RightOf, Heights
<1>4. {s \in S : s < h} \in SUBSET Heights
  OBVIOUS
<1> QED
  BY <1>3, <1>4, HeadOfHeights DEF LeftOf

\* The border find_height_after_window returns is a height or None.
LEMMA FindHeightType ==
    ASSUME NEW S \in SUBSET Heights, NEW cutoff \in Nat, NEW prev \in 0..MaxHeight
    PROVE  FindHeightAfterWindow(S, cutoff, prev) \in 0..MaxHeight
<1>1. RightOf(S, prev) \in 0..MaxHeight /\ LeftOf(S, prev) \in 0..MaxHeight
  BY NeighbourTypes
<1>2. {s \in S : s < cutoff} \in SUBSET Heights
  OBVIOUS
<1>3. FindSlow(S, cutoff) \in 0..MaxHeight
  BY <1>2, HeadOfHeights DEF FindSlow
<1>4. 0 \in 0..MaxHeight
  BY MaxHeightAssumption
<1> QED
  BY <1>1, <1>3, <1>4 DEF FindHeightAfterWindow

\* The initial state is well typed.
LEMMA InitType == Init => TypeOK
<1>1. <<>> \in Seq(Commands) /\ 0 \in 0..MaxHeight /\ -1 \in -1..MaxHeight /\ 0 \in Nat
  BY MaxHeightAssumption
<1>2. [h \in Heights |-> {}] \in [Heights -> SUBSET Cids]
  OBVIOUS
<1>3. Init => StoreTypeOK
  BY <1>2 DEF Init, StoreInit, StoreTypeOK
<1>4. Init => DaserTypeOK
  BY <1>1, SamplingAndPruningAssumption, Zenon DEF Init, DaserInit, DaserTypeOK
<1>5. Init => PrunerTypeOK
  BY <1>1, Zenon DEF Init, PrunerInit, PrunerTypeOK
<1>6. Init => restarts \in 0..MaxRestarts /\ disconnects \in 0..MaxDisconnects
               /\ reinserts \in 0..MaxReinserts
  BY SamplingAndPruningAssumption DEF Init
<1> QED
  BY <1>3, <1>4, <1>5, <1>6 DEF TypeOK

\* What a step leaves alone keeps its type.
LEMMA StoreTypeStays == StoreTypeOK /\ UNCHANGED storeVars => StoreTypeOK'
  BY Zenon DEF StoreTypeOK, storeVars

LEMMA DaserTypeStays == DaserTypeOK /\ UNCHANGED <<sharedVars, daserVars>> => DaserTypeOK'
  BY Zenon DEF DaserTypeOK, sharedVars, daserVars, daserLocal

LEMMA PrunerTypeStays == PrunerTypeOK /\ UNCHANGED prunerVars => PrunerTypeOK'
  BY Zenon DEF PrunerTypeOK, prunerVars

\* No step of the Daser leaves the types of the store and of the Daser.
LEMMA DaserStepType ==
    StoreTypeOK /\ DaserTypeOK /\ DaserStep => StoreTypeOK' /\ DaserTypeOK'
<1> DEFINE Goal == StoreTypeOK' /\ DaserTypeOK'
<1> SUFFICES ASSUME StoreTypeOK, DaserTypeOK, DaserStep
             PROVE  Goal
  OBVIOUS
<1> USE DEF StoreTypeOK, DaserTypeOK, storeVars, sharedVars, daserLocal
<1>1. CASE DaserConnected
  BY <1>1 DEF DaserConnected
<1>2. CASE DaserDisconnected
  BY <1>2, MaxHeightAssumption DEF DaserDisconnected, ClearFutures, Cancel
<1>3. CASE UpdateQueueReadStored
  BY <1>3 DEF UpdateQueueReadStored
<1>4. CASE UpdateQueueReadSampled
  BY <1>4, HeadOfHeights DEF UpdateQueueReadSampled, NeedSampling
<1>5. CASE PopHead
  <2>1. HeadOf(queue) \in 0..MaxHeight
    BY HeadOfHeights
  <2> QED
    BY <1>5, <2>1 DEF PopHead
<1>6. CASE GetHeaderNotFound
  BY <1>6, MaxHeightAssumption DEF GetHeaderNotFound
<1>7. CASE GetHeaderOutsideWindow
  BY <1>7, MaxHeightAssumption DEF GetHeaderOutsideWindow, UpTo, Heights
<1>8. CASE GetHeaderInWindow
  BY <1>8 DEF GetHeaderInWindow
<1>9. CASE StartSampling
  BY <1>9, MaxHeightAssumption DEF StartSampling, StoreUpdateSamplingMetadata, RandomIndexes
<1>10. CASE OnCmd
  <2>1. Head(cmds) \in Commands /\ Tail(cmds) \in Seq(Commands)
    BY <1>10 DEF OnCmd
  <2>2. CASE Head(cmds).op = "want"
    <3>1. Head(cmds).value \in Heights
      BY <2>1, <2>2 DEF Commands
    <3> QED
      BY <1>10, <2>1, <2>2, <3>1 DEF OnCmd, OnWantToPrune
  <2>3. CASE Head(cmds).op # "want"
    <3>1. Head(cmds).value \in Nat
      BY <2>1, <2>3 DEF Commands
    <3> QED
      BY <1>10, <2>1, <2>3, <3>1 DEF OnCmd
  <2> QED
    BY <2>2, <2>3, Zenon
<1>11. CASE MarkSampled
  BY <1>11, MaxHeightAssumption DEF MarkSampled, StoreMarkAsSampled, NoLongerOngoing
<1>12. ASSUME NEW h \in Heights, SamplingDone(h) PROVE Goal
  BY <1>12, OptionalHeights, Zenon DEF SamplingDone
<1>13. ASSUME NEW h \in Heights, SamplingTimedOut(h) PROVE Goal
  BY <1>13 DEF SamplingTimedOut, Cancel, NoLongerOngoing, SharesOf
<1>14. CASE PollWaitNewHead
  <2>1. HeadOf(stored) \in -1..MaxHeight
    BY HeadOfHeights, MaxHeightAssumption
  <2> QED
    BY <1>14, <2>1, Zenon DEF PollWaitNewHead
<1>15. CASE WakeWaitNewHead
  <2>1. -1 \in -1..MaxHeight
    BY MaxHeightAssumption
  <2> QED
    BY <1>15, <2>1, Zenon DEF WakeWaitNewHead
<1> QED
  BY <1>1, <1>2, <1>3, <1>4, <1>5, <1>6, <1>7, <1>8, <1>9, <1>10, <1>11, <1>12,
     <1>13, <1>14, <1>15, Zenon DEF DaserStep

\* No step of the Pruner leaves the types.
LEMMA PrunerStepType == TypeOK /\ PrunerStep /\ UNCHANGED boundVars => TypeOK'
<1> SUFFICES ASSUME TypeOK, PrunerStep, UNCHANGED boundVars
             PROVE  TypeOK'
  OBVIOUS
<1> USE DEF TypeOK, StoreTypeOK, DaserTypeOK, PrunerTypeOK, boundVars, storeVars,
            sharedVars, daserVars, daserLocal
<1>0. AfterSamplingWindow \in SUBSET Heights /\ PrunableAndSampled \in SUBSET Heights
  BY DEF AfterSamplingWindow, PrunableAndSampled, PruneCandidates
<1>1. CASE PrunerReadStored
  BY <1>1 DEF PrunerReadStored
<1>2. CASE PrunerReadPruned
  BY <1>2 DEF PrunerReadPruned
<1>3. CASE PrunerReadSampled
  BY <1>3 DEF PrunerReadSampled
<1>4. CASE UpdateCachedData
  <2> DEFINE newSampling == FindHeightAfterWindow(pStored, Cutoff(SamplingWindow), afterSampling)
             newPruning == FindHeightAfterWindow(pStored, Cutoff(PruningWindow), afterPruning)
  <2>1. Cutoff(SamplingWindow) \in Nat /\ Cutoff(PruningWindow) \in Nat
    BY DaserAssumption, PrunerAssumption DEF Cutoff
  <2>2. newSampling \in 0..MaxHeight /\ newPruning \in 0..MaxHeight
    BY <2>1, FindHeightType
  <2>3. \A a, b \in 0..MaxHeight : Max({a, b}) \in 0..MaxHeight
    BY MaxOfPair
  <2>4. /\ afterSampling' = Max({afterSampling, newSampling})
        /\ afterPruning' = Max({afterPruning, newPruning})
    BY <1>4 DEF UpdateCachedData
  <2> HIDE DEF newSampling, newPruning
  <2>5. afterSampling' \in 0..MaxHeight /\ afterPruning' \in 0..MaxHeight
    BY <2>2, <2>3, <2>4
  <2> QED
    BY <1>4, <2>5, Zenon DEF UpdateCachedData
<1>5. CASE SkipCacheUpdate
  BY <1>5 DEF SkipCacheUpdate
<1>6. CASE SendHighestPrunable
  <2>1. [op |-> "highest", value |-> afterPruning] \in Commands
    BY DEF Commands
  <2> QED
    BY <1>6, <2>1 DEF SendHighestPrunable, SendCommand
<1>7. CASE SendNumberOfPrunable
  <2> DEFINE num == Cardinality(AfterSamplingWindow) + Cardinality(PrunableAndSampled)
  <2>1. num \in Nat
    BY <1>0, HeightsFinite
  <2>2. [op |-> "number", value |-> num] \in Commands
    BY <2>1 DEF Commands
  <2>3. cmds' \in Seq(Commands) /\ UNCHANGED <<now, connected, reply, notified, blocks>>
    <3>1. CASE MustReport(num)
      <4>1. SendCommand("number", num)
        BY <1>7, <3>1 DEF SendNumberOfPrunable
      <4> HIDE DEF num
      <4> QED
        BY <2>2, <4>1 DEF SendCommand
    <3>2. CASE ~MustReport(num)
      BY <1>7, <3>2 DEF SendNumberOfPrunable
    <3> QED
      BY <3>1, <3>2
  <2>4. batch' \in SUBSET Heights
    BY <1>0, <1>7 DEF SendNumberOfPrunable, HeadN
  <2> QED
    BY <1>0, <1>7, <2>1, <2>3, <2>4, Zenon DEF SendNumberOfPrunable
<1>8. CASE AskTakeSampled
  <2>1. Max(toAsk) \in Heights
    BY <1>8, MaxOfHeights DEF AskTakeSampled
  <2> QED
    BY <1>8, <2>1 DEF AskTakeSampled
<1>9. CASE AskWantToPrune
  <2>1. Max(toAsk) \in Heights
    BY <1>9, MaxOfHeights DEF AskWantToPrune
  <2>2. [op |-> "want", value |-> Max(toAsk)] \in Commands
    BY <2>1 DEF Commands
  <2> QED
    BY <1>9, <2>2 DEF AskWantToPrune, SendCommand
<1>10. CASE AskReply
  <2>1. Max(toAsk) \in Heights
    BY <1>10, MaxOfHeights DEF AskReply
  <2> QED
    BY <1>10, <2>1 DEF AskReply
<1>11. CASE AskDone
  BY <1>11 DEF AskDone
<1>12. CASE NextHeight
  <2>1. batch # {} => Min(batch) \in Heights
    BY MinHeight
  <2>2. Min(batch) \in Heights => metadata[Min(batch)] \in SUBSET Cids
    OBVIOUS
  <2>3. pCids' \in SUBSET Cids
    BY <1>12, <2>1, <2>2, Zenon DEF NextHeight
  <2>4. /\ ppc' \in {"begin", "removeBlocks", "dead"}
        /\ UNCHANGED <<storeVars, sharedVars, daserVars, roundNow, pStored, pPruned,
                       pSampled, afterSampling, afterPruning, cacheUpdated, prevNum,
                       toAsk, batch>>
    BY <1>12, Zenon DEF NextHeight
  <2> QED
    BY <2>3, <2>4, Zenon
<1>13. CASE RemoveBlocks
  <2>1. blocks' \subseteq blocks /\ pCids' = {}
    BY <1>13, Zenon DEF RemoveBlocks
  <2> QED
    BY <1>13, <2>1, Zenon DEF RemoveBlocks
<1>14. CASE RemoveHeight
  <2> HIDE DEF StoreTypeOK, DaserTypeOK, PrunerTypeOK
  <2>1. StoreTypeOK'
    <3>1. CASE Min(batch) \in stored
      BY <1>14, <3>1, Zenon DEF RemoveHeight, StoreRemoveHeight, StoreTypeOK
    <3>2. CASE Min(batch) \notin stored
      BY <1>14, <3>2, StoreTypeStays, Zenon DEF RemoveHeight
    <3> QED
      BY <3>1, <3>2, Zenon
  <2>2. DaserTypeOK'
    BY <1>14, DaserTypeStays, Zenon DEF RemoveHeight
  <2>3. PrunerTypeOK'
    BY <1>14, Zenon DEF RemoveHeight, PrunerTypeOK
  <2> QED
    BY <2>1, <2>2, <2>3, Zenon
<1> QED
  BY <1>1, <1>2, <1>3, <1>4, <1>5, <1>6, <1>7, <1>8, <1>9, <1>10, <1>11, <1>12,
     <1>13, <1>14, Zenon DEF PrunerStep

\* Nor does a step of the rest of the node, of the network or of the clock.
LEMMA EnvironmentType == TypeOK /\ Environment => TypeOK'
<1> SUFFICES ASSUME TypeOK, Environment
             PROVE  TypeOK'
  OBVIOUS
<1>0. /\ StoreTypeOK /\ DaserTypeOK /\ PrunerTypeOK
      /\ restarts \in 0..MaxRestarts /\ disconnects \in 0..MaxDisconnects
      /\ reinserts \in 0..MaxReinserts
  BY Zenon DEF TypeOK
<1>1. ASSUME NEW lo \in Heights, NEW hi \in Heights, InsertHeaders(lo, hi),
             reinserts' \in 0..MaxReinserts
      PROVE  TypeOK'
  <2>1. lo..hi \subseteq Heights
    BY MaxHeightAssumption DEF Heights
  <2>2. StoreTypeOK'
    BY <1>0, <1>1, <2>1, Zenon DEF InsertHeaders, StoreInsert, StoreTypeOK
  <2>3. DaserTypeOK'
    BY <1>0, <1>1, Zenon DEF InsertHeaders, DaserTypeOK, daserVars, daserLocal
  <2>4. PrunerTypeOK' /\ restarts' = restarts /\ disconnects' = disconnects
    BY <1>0, <1>1, PrunerTypeStays, Zenon DEF InsertHeaders
  <2> QED
    BY <1>0, <1>1, <2>2, <2>3, <2>4, Zenon DEF TypeOK
<1>2. CASE SyncBatch
  BY <1>0, <1>1, <1>2, Zenon DEF SyncBatch
<1>3. CASE SyncNetworkHead
  <2>1. reinserts' \in 0..MaxReinserts
    BY <1>0, <1>3, SamplingAndPruningAssumption DEF SyncNetworkHead
  <2> QED
    BY <1>0, <1>1, <1>3, <2>1, Zenon DEF SyncNetworkHead, StoreTypeOK
<1>a. ASSUME UNCHANGED <<storeVars, prunerVars, boundVars>>, DaserTypeOK'
      PROVE  TypeOK'
  BY <1>0, <1>a, StoreTypeStays, PrunerTypeStays, Zenon DEF TypeOK, boundVars
<1>4. CASE DeliverBlock
  <2>1. DaserTypeOK'
    BY <1>0, <1>4, Zenon DEF DeliverBlock, DaserTypeOK
  <2> QED
    BY <1>4, <1>a, <2>1, Zenon DEF DeliverBlock
<1>5. CASE DeliverLateBlock
  <2>1. DaserTypeOK'
    BY <1>0, <1>5, Zenon DEF DeliverLateBlock, DaserTypeOK
  <2> QED
    BY <1>5, <1>a, <2>1, Zenon DEF DeliverLateBlock
<1>6. CASE PruneCanceledQueries
  <2>1. DaserTypeOK'
    BY <1>0, <1>6, Zenon DEF PruneCanceledQueries, DaserTypeOK, sharedVars
  <2> QED
    BY <1>6, <1>a, <2>1, Zenon DEF PruneCanceledQueries
<1>7. CASE PeerConnects
  <2>1. DaserTypeOK'
    BY <1>0, <1>7, Zenon DEF PeerConnects, DaserTypeOK, daserVars, daserLocal
  <2> QED
    BY <1>7, <1>a, <2>1, Zenon DEF PeerConnects
<1>8. CASE AllPeersDisconnect
  <2>1. disconnects' \in 0..MaxDisconnects
    BY <1>0, <1>8, SamplingAndPruningAssumption DEF AllPeersDisconnect
  <2>2. DaserTypeOK'
    BY <1>0, <1>8, Zenon DEF AllPeersDisconnect, DaserTypeOK, daserVars, daserLocal
  <2> QED
    BY <1>0, <1>8, <2>1, <2>2, StoreTypeStays, PrunerTypeStays, Zenon
    DEF AllPeersDisconnect, TypeOK
<1>9. CASE Tick
  <2>1. now' \in Nat
    BY <1>0, <1>9 DEF Tick, DaserTypeOK
  <2>2. DaserTypeOK'
    BY <1>0, <1>9, <2>1, Zenon DEF Tick, DaserTypeOK, daserVars, daserLocal
  <2> QED
    BY <1>9, <1>a, <2>2, Zenon DEF Tick
<1>10. CASE Restart
  <2>1. <<>> \in Seq(Commands) /\ 0 \in 0..MaxHeight /\ -1 \in -1..MaxHeight /\ 0 \in Nat
    BY MaxHeightAssumption
  <2>2. restarts' \in 0..MaxRestarts
    BY <1>0, <1>10, SamplingAndPruningAssumption DEF Restart
  <2> QED
    BY <1>0, <1>10, <2>1, <2>2, Zenon
    DEF Restart, TypeOK, StoreTypeOK, DaserTypeOK, PrunerTypeOK, storeVars
<1> QED
  BY <1>2, <1>3, <1>4, <1>5, <1>6, <1>7, <1>8, <1>9, <1>10, Zenon DEF Environment

\* A step that changes nothing keeps the types.
LEMMA StutterType == TypeOK /\ UNCHANGED vars => TypeOK'
  BY StoreTypeStays, DaserTypeStays, PrunerTypeStays, Zenon DEF TypeOK, vars, boundVars

\* Every variable of the Daser, the Pruner and the store keeps its type,
\* whatever the number of heights, the windows and the limits.
THEOREM TypeCorrect == Spec => []TypeOK
<1>1. Init => TypeOK
  BY InitType
<1>2. TypeOK /\ [Next]_vars => TypeOK'
  <2>1. TypeOK /\ DaserStep /\ UNCHANGED <<prunerVars, boundVars>> => TypeOK'
    BY DaserStepType DEF TypeOK, PrunerTypeOK, prunerVars, boundVars
  <2> QED
    BY <2>1, PrunerStepType, EnvironmentType, StutterType DEF Next
<1> QED
  BY <1>1, <1>2, PTL DEF Spec


-----------------------------------------------------------------------------
(* The inductive invariant                                                 *)

\* Before anything happens nothing is held, read or promised.
LEMMA InitInv == Init => IInv
  BY DEF Init, StoreInit, DaserInit, PrunerInit, IInv, DaserInv, PrunerInv, ChannelInv,
         Popped, IsWant

\* The Pruner's part survives whatever only adds to the sampled heights and to
\* the promises and leaves the stored headers alone.
LEMMA PrunerInvMonotone ==
    PrunerInv /\ UNCHANGED <<stored, prunerVars>> /\ sampled \subseteq sampled'
        /\ willBePruned \subseteq willBePruned' => PrunerInv'
  BY DEF PrunerInv, prunerVars

\* The channel's part survives when the channel is left alone and no promise
\* is taken back.
LEMMA ChannelInvMonotone ==
    ChannelInv /\ UNCHANGED <<cmds, reply, prunerVars>>
        /\ willBePruned \subseteq willBePruned' => ChannelInv'
  BY DEF ChannelInv, IsWant, prunerVars

\* Every step of the Daser keeps the inductive invariant.
LEMMA DaserStepInv ==
    TypeOK /\ IInv /\ DaserStep /\ UNCHANGED <<prunerVars, boundVars>> => IInv'
<1> SUFFICES ASSUME TypeOK, IInv, DaserStep, UNCHANGED prunerVars
             PROVE  IInv'
  OBVIOUS
<1> DEFINE StoreGrows == UNCHANGED <<stored, pruned>> /\ sampled \subseteq sampled'
           Keeps == willBePruned \subseteq willBePruned'
<1>0. ASSUME StoreGrows, Keeps, UNCHANGED <<cmds, reply>>, sampled' \subseteq stored, DaserInv'
      PROVE  IInv'
  BY <1>0, PrunerInvMonotone, ChannelInvMonotone DEF IInv
<1> USE DEF IInv, DaserInv, Popped, storeVars, sharedVars, daserLocal
<1>1. CASE DaserConnected
  BY <1>0, <1>1, Zenon DEF DaserConnected
<1>2. CASE DaserDisconnected
  BY <1>0, <1>2, Zenon DEF DaserDisconnected, ClearFutures
<1>3. CASE UpdateQueueReadStored
  BY <1>0, <1>3, Zenon DEF UpdateQueueReadStored
<1>4. CASE UpdateQueueReadSampled
  BY <1>0, <1>4, Zenon DEF UpdateQueueReadSampled, NeedSampling
<1>5. CASE PopHead
  <2>1. CASE queue = {}
    BY <1>0, <1>5, <2>1, Zenon DEF PopHead
  <2>2. CASE queue # {}
    <3>1. HeadOf(queue) \in queue
      BY <2>2, MaxOfHeights DEF HeadOf, TypeOK, DaserTypeOK
    <3> QED
      BY <1>0, <1>5, <3>1, Zenon DEF PopHead
  <2> QED
    BY <2>1, <2>2
<1>6. CASE GetHeaderNotFound
  BY <1>0, <1>6, Zenon DEF GetHeaderNotFound
<1>7. CASE GetHeaderOutsideWindow
  BY <1>0, <1>7, Zenon DEF GetHeaderOutsideWindow
<1>8. CASE GetHeaderInWindow
  BY <1>0, <1>8, Zenon DEF GetHeaderInWindow
<1>9. CASE StartSampling
  <2>1. CASE current \in stored
    <3>0. /\ futs' = futs \cup {current} /\ ongoing' = ongoing \cup {current}
          /\ dpc' = "schedule" /\ UNCHANGED <<stored, sampled, queue, willBePruned>>
          /\ current \notin queue \cup sampled \cup willBePruned
      BY <1>9, <2>1, Zenon DEF StartSampling, StoreUpdateSamplingMetadata
    <3>1. DaserInv'
      BY <2>1, <3>0
    <3> QED
      BY <1>0, <1>9, <2>1, <3>1, Zenon DEF StartSampling, StoreUpdateSamplingMetadata
  <2>2. CASE current \notin stored
    <3>1. DaserInv'
      BY <1>9, <2>2, Zenon DEF StartSampling
    <3> QED
      BY <1>0, <1>9, <2>2, <3>1, Zenon DEF StartSampling
  <2> QED
    BY <2>1, <2>2, Zenon
<1>10. CASE OnCmd
  <2> DEFINE cmd == Head(cmds)
  <2>1. cmds \in Seq(Commands) /\ cmds # <<>> /\ cmds' = Tail(cmds)
    BY <1>10 DEF OnCmd, TypeOK, DaserTypeOK
  <2>2. \A i \in 1..Len(cmds') : i + 1 \in 1..Len(cmds) /\ cmds'[i] = cmds[i + 1]
    BY <2>1
  <2>3. 1 \in 1..Len(cmds) /\ cmd = cmds[1]
    BY <2>1
  <2>4. UNCHANGED storeVars /\ PrunerInv'
    BY <1>10, PrunerInvMonotone, Zenon DEF OnCmd, OnWantToPrune
  <2>5. DaserInv'
    BY <1>10, Zenon DEF OnCmd, OnWantToPrune
  <2>6. CASE cmd.op = "want"
    <3>1. /\ ppc = "awaitReply" /\ cmd.value = Max(toAsk)
          /\ \A i \in 1..Len(cmds) : IsWant(i) => i = 1
      BY <2>3, <2>6 DEF ChannelInv, IsWant
    <3>2. \A i \in 1..Len(cmds') : ~(IsWant(i))'
      <4> TAKE i \in 1..Len(cmds')
      <4>1. i + 1 # 1 /\ i + 1 \in 1..Len(cmds)
        BY <2>1, <2>2
      <4> QED
        BY <2>2, <3>1, <4>1 DEF IsWant
    <3>3. reply' = "yes" => Max(toAsk) \in willBePruned'
      BY <1>10, <2>6, <3>1, Zenon DEF OnCmd, OnWantToPrune
    <3>4. ChannelInv'
      BY <3>1, <3>2, <3>3, Zenon DEF ChannelInv, IsWant, prunerVars
    <3> QED
      BY <2>4, <2>5, <3>4
  <2>7. CASE cmd.op # "want"
    <3>1. UNCHANGED <<reply, willBePruned>>
      BY <1>10, <2>7 DEF OnCmd
    <3>2. \A i \in 1..Len(cmds') : (IsWant(i))' => IsWant(i + 1)
      BY <2>2 DEF IsWant
    <3>3. \A i \in 1..Len(cmds') :
             (IsWant(i))' => ppc = "awaitReply" /\ reply = "none" /\ cmds'[i].value = Max(toAsk)
      BY <2>2, <3>2, Zenon DEF ChannelInv
    <3>4. \A i, j \in 1..Len(cmds') : (IsWant(i))' /\ (IsWant(j))' => i = j
      <4> SUFFICES ASSUME NEW i \in 1..Len(cmds'), NEW j \in 1..Len(cmds'),
                          (IsWant(i))', (IsWant(j))'
                   PROVE  i = j
        OBVIOUS
      <4>1. i + 1 = j + 1
        BY <2>2, <3>2 DEF ChannelInv
      <4> QED
        BY <4>1, <2>1
    <3>5. ChannelInv'
      BY <3>1, <3>3, <3>4, Zenon DEF ChannelInv, IsWant, prunerVars
    <3> QED
      BY <2>4, <2>5, <3>5
  <2> QED
    BY <2>6, <2>7
<1>11. CASE MarkSampled
  BY <1>0, <1>11, Zenon DEF MarkSampled, StoreMarkAsSampled, NoLongerOngoing
<1>12. ASSUME NEW h \in Heights, SamplingDone(h) PROVE IInv'
  BY <1>0, <1>12, Zenon DEF SamplingDone
<1>13. ASSUME NEW h \in Heights, SamplingTimedOut(h) PROVE IInv'
  BY <1>0, <1>13, Zenon DEF SamplingTimedOut, NoLongerOngoing
<1>14. CASE PollWaitNewHead
  BY <1>0, <1>14, Zenon DEF PollWaitNewHead
<1>15. CASE WakeWaitNewHead
  BY <1>0, <1>15, Zenon DEF WakeWaitNewHead
<1> QED
  BY <1>1, <1>2, <1>3, <1>4, <1>5, <1>6, <1>7, <1>8, <1>9, <1>10, <1>11, <1>12,
     <1>13, <1>14, <1>15, Zenon DEF DaserStep

\* The Daser's part survives what leaves the Daser alone and removes neither a
\* header it holds nor adds to the sampled heights.
LEMMA DaserInvMonotone ==
    DaserInv /\ UNCHANGED daserVars /\ sampled' \subseteq sampled
        /\ (ongoing \cup Popped) \cap stored \subseteq stored' => DaserInv'
  BY DEF DaserInv, Popped, daserVars, daserLocal

\* Every step of the Pruner keeps the inductive invariant.
LEMMA PrunerStepInv == TypeOK /\ IInv /\ PrunerStep => IInv'
<1> SUFFICES ASSUME TypeOK, IInv, PrunerStep
             PROVE  IInv'
  OBVIOUS
<1>0. ASSUME UNCHANGED <<storeVars, daserVars>>, PrunerInv', ChannelInv'
      PROVE  IInv'
  BY <1>0, DaserInvMonotone DEF IInv, storeVars
<1> USE DEF IInv, PrunerInv, storeVars, daserVars, daserLocal, sharedVars
<1>a. ASSUME UNCHANGED <<cmds, reply>>, ppc # "awaitReply"
      PROVE  ChannelInv'
  BY <1>a DEF ChannelInv, IsWant
<1>b. ASSUME NEW op \in {"highest", "number"}, NEW value, SendCommand(op, value),
             ppc # "awaitReply"
      PROVE  ChannelInv'
  <2>1. cmds \in Seq(Commands)
    BY DEF TypeOK, DaserTypeOK
  <2> DEFINE sent == [op |-> op, value |-> value]
  <2>2. cmds' = Append(cmds, sent) /\ UNCHANGED reply
    BY <1>b DEF SendCommand
  <2>3. \A i \in 1..Len(cmds) : cmds[i].op # "want"
    BY <1>b, Zenon DEF ChannelInv, IsWant
  <2>4. sent.op # "want"
    OBVIOUS
  <2> HIDE DEF sent
  <2>5. \A i \in 1..Len(cmds') : cmds'[i].op # "want"
    BY <2>1, <2>2, <2>3, <2>4
  <2> QED
    BY <1>b, <2>2, <2>5, Zenon DEF ChannelInv, IsWant
<1>c. AfterSamplingWindow \subseteq pStored /\ PrunableAndSampled \subseteq pStored \cap pSampled
  BY DEF AfterSamplingWindow, PrunableAndSampled, PruneCandidates
<1>1. CASE PrunerReadStored
  BY <1>0, <1>1, <1>a, Zenon DEF PrunerReadStored
<1>2. CASE PrunerReadPruned
  BY <1>0, <1>2, <1>a, Zenon DEF PrunerReadPruned
<1>3. CASE PrunerReadSampled
  BY <1>0, <1>3, <1>a, Zenon DEF PrunerReadSampled
<1>4. CASE UpdateCachedData
  BY <1>0, <1>4, <1>a, Zenon DEF UpdateCachedData
<1>5. CASE SkipCacheUpdate
  BY <1>0, <1>5, <1>a, Zenon DEF SkipCacheUpdate
<1>6. CASE SendHighestPrunable
  <2>1. ChannelInv'
    BY <1>6, <1>b DEF SendHighestPrunable
  <2> QED
    BY <1>0, <1>6, <2>1, Zenon DEF SendHighestPrunable
<1>7. CASE SendNumberOfPrunable
  <2> DEFINE num == Cardinality(AfterSamplingWindow) + Cardinality(PrunableAndSampled)
  <2>1. ChannelInv'
    <3>1. SendCommand("number", num) \/ UNCHANGED sharedVars
      BY <1>7 DEF SendNumberOfPrunable
    <3>2. ppc # "awaitReply"
      BY <1>7 DEF SendNumberOfPrunable
    <3> HIDE DEF num
    <3> QED
      BY <1>a, <1>b, <3>1, <3>2
  <2>2. PrunerInv'
    BY <1>7, <1>c DEF SendNumberOfPrunable, HeadN
  <2> QED
    BY <1>0, <1>7, <2>1, <2>2, Zenon DEF SendNumberOfPrunable
<1>8. CASE AskTakeSampled
  <2>1. Max(toAsk) \in toAsk
    BY <1>8, MaxOfHeights DEF AskTakeSampled, TypeOK, PrunerTypeOK
  <2> QED
    BY <1>0, <1>8, <1>a, <2>1, Zenon DEF AskTakeSampled
<1>9. CASE AskWantToPrune
  <2>1. cmds \in Seq(Commands)
    BY DEF TypeOK, DaserTypeOK
  <2>2. /\ cmds' = Append(cmds, [op |-> "want", value |-> Max(toAsk)])
        /\ ppc = "ask" /\ ppc' = "awaitReply" /\ UNCHANGED <<reply, toAsk>>
    BY <1>9, Zenon DEF AskWantToPrune, SendCommand
  <2>3. reply = "none" /\ \A i \in 1..Len(cmds) : ~IsWant(i)
    BY <2>2 DEF ChannelInv
  <2>4. \A i \in 1..Len(cmds') : (IsWant(i))' => i = Len(cmds) + 1
    <3>1. \A i \in 1..Len(cmds') : i # Len(cmds) + 1 => i \in 1..Len(cmds) /\ cmds'[i] = cmds[i]
      BY <2>1, <2>2
    <3> QED
      BY <2>3, <3>1, Zenon DEF IsWant
  <2>5. cmds'[Len(cmds) + 1].value = Max(toAsk)
    BY <2>1, <2>2
  <2>6. ChannelInv'
    BY <2>2, <2>3, <2>4, <2>5, Zenon DEF ChannelInv
  <2> QED
    BY <1>0, <1>9, <2>6, Zenon DEF AskWantToPrune
<1>10. CASE AskReply
  <2>1. Max(toAsk) \in toAsk
    BY <1>10, MaxOfHeights, Zenon DEF AskReply, TypeOK, PrunerTypeOK
  <2>2. PrunerInv'
    BY <1>10, <2>1, Zenon DEF AskReply, ChannelInv
  <2>3. ChannelInv'
    BY <1>10, Zenon DEF AskReply, ChannelInv, IsWant
  <2> QED
    BY <1>0, <1>10, <2>2, <2>3, Zenon DEF AskReply
<1>11. CASE AskDone
  BY <1>0, <1>11, <1>a, Zenon DEF AskDone
<1>12. CASE NextHeight
  <2>1. batch # {} => Min(batch) \in batch
    BY MinHeight DEF TypeOK, PrunerTypeOK
  <2> QED
    BY <1>0, <1>12, <1>a, <2>1, Zenon DEF NextHeight
<1>13. CASE RemoveBlocks
  BY <1>0, <1>13, <1>a, Zenon DEF RemoveBlocks
<1>14. CASE RemoveHeight
  <2>1. Min(batch) \in batch
    BY <1>14, MinHeight DEF RemoveHeight, TypeOK, PrunerTypeOK
  <2>2. PrunerInv' /\ ChannelInv'
    BY <1>14, <1>a, <2>1, Zenon DEF RemoveHeight, StoreRemoveHeight
  <2>3. (ongoing \cup Popped) \cap batch = {}
    BY DEF DaserInv
  <2>4. DaserInv'
    BY <1>14, <2>1, <2>3, DaserInvMonotone, Zenon DEF RemoveHeight, StoreRemoveHeight
  <2> QED
    BY <1>14, <2>1, <2>2, <2>4, Zenon DEF RemoveHeight, StoreRemoveHeight
<1> QED
  BY <1>1, <1>2, <1>3, <1>4, <1>5, <1>6, <1>7, <1>8, <1>9, <1>10, <1>11, <1>12,
     <1>13, <1>14, Zenon DEF PrunerStep

\* Every step of the environment, a restart included, keeps the inductive
\* invariant.
LEMMA EnvironmentInv == TypeOK /\ IInv /\ Environment => IInv'
<1> SUFFICES ASSUME TypeOK, IInv, Environment
             PROVE  IInv'
  OBVIOUS
<1>0. ASSUME UNCHANGED <<storeVars, prunerVars, cmds, reply>>,
             UNCHANGED <<dpc, queue, ongoing, willBePruned, futs, current>>
      PROVE  IInv'
  BY <1>0, Zenon DEF IInv, DaserInv, PrunerInv, ChannelInv, IsWant, Popped, storeVars, prunerVars
<1> USE DEF storeVars, sharedVars, daserVars, daserLocal, prunerVars, boundVars
<1>1. ASSUME NEW lo \in Heights, NEW hi \in Heights, InsertHeaders(lo, hi)
      PROVE  IInv'
  <2>1. /\ (lo..hi) \cap stored = {}
        /\ stored' = stored \cup (lo..hi)
        /\ sampled' = sampled \ (lo..hi)
        /\ pruned' = pruned \ (lo..hi)
        /\ UNCHANGED <<cmds, reply, daserVars, prunerVars>>
    BY <1>1 DEF InsertHeaders, StoreInsert, InsertionConstraintsMet
  <2>2. DaserInv'
    BY <2>1, DaserInvMonotone DEF IInv
  <2>3. PrunerInv'
    BY <2>1 DEF IInv, PrunerInv
  <2>4. ChannelInv'
    BY <2>1, ChannelInvMonotone DEF IInv
  <2> QED
    BY <2>1, <2>2, <2>3, <2>4 DEF IInv
<1>2. CASE SyncBatch
  BY <1>1, <1>2 DEF SyncBatch
<1>3. CASE SyncNetworkHead
  BY <1>1, <1>3 DEF SyncNetworkHead, TypeOK, StoreTypeOK
<1>4. CASE DeliverBlock
  BY <1>0, <1>4 DEF DeliverBlock
<1>5. CASE DeliverLateBlock
  BY <1>0, <1>5 DEF DeliverLateBlock
<1>6. CASE PruneCanceledQueries
  BY <1>0, <1>6 DEF PruneCanceledQueries
<1>7. CASE PeerConnects
  BY <1>0, <1>7, Zenon DEF PeerConnects
<1>8. CASE AllPeersDisconnect
  BY <1>0, <1>8 DEF AllPeersDisconnect
<1>9. CASE Tick
  BY <1>0, <1>9 DEF Tick
<1>10. CASE Restart
  <2>1. DaserInv'
    BY <1>10, Zenon DEF Restart, DaserInv, Popped
  <2>2. PrunerInv'
    BY <1>10 DEF Restart, PrunerInv
  <2>3. ChannelInv'
    <3>1. cmds' = <<>> /\ reply' = "none"
      BY <1>10 DEF Restart
    <3> QED
      BY <3>1 DEF ChannelInv, IsWant
  <2> QED
    BY <1>10, <2>1, <2>2, <2>3 DEF Restart, IInv
<1> QED
  BY <1>2, <1>3, <1>4, <1>5, <1>6, <1>7, <1>8, <1>9, <1>10 DEF Environment

\* A step that changes nothing keeps the inductive invariant.
LEMMA StutterInv == IInv /\ UNCHANGED vars => IInv'
  BY Zenon DEF vars, IInv, DaserInv, PrunerInv, ChannelInv, IsWant, Popped, storeVars, sharedVars,
         daserVars, daserLocal, prunerVars

\* The inductive invariant holds in every reachable state.
THEOREM InductiveInvariant == Spec => []IInv
<1>1. Init => IInv
  BY InitInv
<1>2. TypeOK /\ IInv /\ [Next]_vars => IInv'
  BY DaserStepInv, PrunerStepInv, EnvironmentInv, StutterInv DEF Next
<1> QED
  BY <1>1, <1>2, TypeCorrect, PTL DEF Spec

\* The handshake between the Daser and the Pruner works: the header of a block
\* stays in the store from the Daser's decision to sample it until the result
\* is recorded, in every interleaving and for every choice of the constants.
THEOREM SamplingKeepsItsHeader == Spec => []SamplingKeepsHeader
<1>1. IInv => SamplingKeepsHeader
  BY DEF IInv, DaserInv, SamplingKeepsHeader, HeldByDaser
<1> QED
  BY <1>1, InductiveInvariant, PTL

\* No interleaving makes either worker stop on a header that is gone.
THEOREM WorkersSurvive == Spec => []NoFatalError
<1>1. IInv => NoFatalError
  BY DEF IInv, DaserInv, PrunerInv, NoFatalError
<1> QED
  BY <1>1, InductiveInvariant, PTL

-----------------------------------------------------------------------------
(* No block outlives its record                                            *)

\* What the Pruner has in its batch, the Daser neither samples nor is about to.
LEMMA BatchIsNotSampled ==
    IInv => batch \cap (futs \cup Popped) = {}
  BY DEF IInv, DaserInv, PrunerInv

\* No step of the Daser loses track of a block: CIDs are recorded before the
\* shares are requested, and a request that is dropped is gone at once.
LEMMA DaserStepBlocks ==
    ASSUME ~LazyCancel, TypeOK, IInv, BlockInv, DaserStep, UNCHANGED prunerVars
    PROVE  BlockInv'
<1>0. ASSUME UNCHANGED <<stored, metadata, blocks, futs, shares, cancelled>>
      PROVE  BlockInv'
  BY <1>0, Zenon DEF BlockInv, NoLeakedBlocks, prunerVars
<1> USE DEF storeVars, sharedVars, daserLocal
<1>1. CASE DaserConnected
  BY <1>0, <1>1 DEF DaserConnected
<1>2. CASE DaserDisconnected
  BY <1>2, Zenon DEF DaserDisconnected, ClearFutures, Cancel, BlockInv, NoLeakedBlocks, prunerVars
<1>3. CASE UpdateQueueReadStored
  BY <1>0, <1>3 DEF UpdateQueueReadStored
<1>4. CASE UpdateQueueReadSampled
  BY <1>0, <1>4 DEF UpdateQueueReadSampled
<1>5. CASE PopHead
  BY <1>0, <1>5 DEF PopHead
<1>6. CASE GetHeaderNotFound
  BY <1>0, <1>6 DEF GetHeaderNotFound
<1>7. CASE GetHeaderOutsideWindow
  BY <1>0, <1>7 DEF GetHeaderOutsideWindow
<1>8. CASE GetHeaderInWindow
  BY <1>0, <1>8 DEF GetHeaderInWindow
<1>9. CASE StartSampling
  <2>1. current \in stored /\ current \in Heights
    BY <1>9 DEF StartSampling, IInv, DaserInv, TypeOK, StoreTypeOK
  <2>2. PICK cids \in RandomIndexes :
           /\ StoreUpdateSamplingMetadata(current, cids)
           /\ futs' = futs \cup {current}
           /\ shares' = shares \cup ({current} \X cids)
    BY <1>9, <2>1 DEF StartSampling
  <2>3. /\ metadata \in [Heights -> SUBSET Cids]
        /\ shares \in SUBSET (Heights \X Cids) /\ blocks \in SUBSET (Heights \X Cids)
        /\ stored' = stored /\ UNCHANGED <<blocks, cancelled>>
    BY <1>9, <2>2, Zenon DEF StartSampling, StoreUpdateSamplingMetadata, TypeOK, StoreTypeOK, DaserTypeOK
  <2>4. /\ \A h \in Heights : metadata[h] \subseteq metadata'[h]
        /\ \A h \in Heights \ {current} : metadata'[h] = metadata[h]
        /\ cids \subseteq metadata'[current]
    BY <2>1, <2>2, <2>3 DEF StoreUpdateSamplingMetadata
  <2>5. current \notin batch
    BY <1>9, BatchIsNotSampled DEF StartSampling, Popped
  <2>6. NoLeakedBlocks'
    BY <2>3, <2>4, Zenon DEF BlockInv, NoLeakedBlocks
  <2>7. \A s \in shares' : s[1] \in futs' /\ s[2] \in metadata'[s[1]]
    <3> TAKE s \in shares'
    <3>1. CASE s \in shares
      BY <2>2, <2>3, <2>4, <3>1, Zenon DEF BlockInv
    <3>2. CASE s \in {current} \X cids
      BY <2>2, <2>4, <3>2, Zenon
    <3> QED
      BY <2>2, <3>1, <3>2, Zenon
  <2>8. ppc = "removeBlocks" => Min(batch) \in batch /\ Min(batch) \in Heights
    BY MinHeight DEF IInv, PrunerInv, TypeOK, PrunerTypeOK
  <2>9. ppc = "removeBlocks" => pCids = metadata'[Min(batch)]
    BY <2>4, <2>5, <2>8, Zenon DEF BlockInv
  <2> QED
    BY <2>3, <2>6, <2>7, <2>9, Zenon DEF BlockInv, prunerVars
<1>10. CASE OnCmd
  BY <1>0, <1>10 DEF OnCmd
<1>11. CASE MarkSampled
  BY <1>0, <1>11 DEF MarkSampled, StoreMarkAsSampled
<1>12. ASSUME NEW h \in Heights, SamplingDone(h) PROVE BlockInv'
  <2>1. \A s \in shares : s[1] # h
    BY <1>12 DEF SamplingDone, SharesOf
  <2> QED
    BY <1>12, <2>1, Zenon DEF SamplingDone, BlockInv, NoLeakedBlocks, prunerVars
<1>13. ASSUME NEW h \in Heights, SamplingTimedOut(h) PROVE BlockInv'
  <2>1. shares' = {s \in shares : s[1] # h}
    BY <1>13 DEF SamplingTimedOut, SharesOf
  <2> QED
    BY <1>13, <2>1, Zenon DEF SamplingTimedOut, Cancel, BlockInv, NoLeakedBlocks, prunerVars
<1>14. CASE PollWaitNewHead
  BY <1>0, <1>14 DEF PollWaitNewHead
<1>15. CASE WakeWaitNewHead
  BY <1>0, <1>15 DEF WakeWaitNewHead
<1> QED
  BY <1>1, <1>2, <1>3, <1>4, <1>5, <1>6, <1>7, <1>8, <1>9, <1>10, <1>11, <1>12,
     <1>13, <1>14, <1>15 DEF DaserStep

\* No step of the Pruner does: it removes exactly the blocks that are recorded
\* for a height, and its header with the record only after them.
LEMMA PrunerStepBlocks ==
    ASSUME TypeOK, IInv, BlockInv, PrunerStep
    PROVE  BlockInv'
<1>0. ASSUME UNCHANGED <<storeVars, blocks, daserVars>>,
             ppc' \notin {"removeBlocks", "removeHeight"}
      PROVE  BlockInv'
  BY <1>0, Zenon DEF BlockInv, NoLeakedBlocks, storeVars, daserVars, daserLocal
<1>a. ppc \in {"removeBlocks", "removeHeight"} => Min(batch) \in batch /\ Min(batch) \in stored
  BY MinHeight DEF IInv, PrunerInv, TypeOK, PrunerTypeOK
<1>b. /\ metadata \in [Heights -> SUBSET Cids] /\ stored \in SUBSET Heights
      /\ blocks \in SUBSET (Heights \X Cids) /\ shares \in SUBSET (Heights \X Cids)
  BY DEF TypeOK, StoreTypeOK, DaserTypeOK
<1> USE DEF sharedVars
<1>1. CASE PrunerReadStored
  BY <1>0, <1>1 DEF PrunerReadStored
<1>2. CASE PrunerReadPruned
  BY <1>0, <1>2 DEF PrunerReadPruned
<1>3. CASE PrunerReadSampled
  BY <1>0, <1>3 DEF PrunerReadSampled
<1>4. CASE UpdateCachedData
  BY <1>0, <1>4 DEF UpdateCachedData
<1>5. CASE SkipCacheUpdate
  BY <1>0, <1>5 DEF SkipCacheUpdate
<1>6. CASE SendHighestPrunable
  BY <1>0, <1>6 DEF SendHighestPrunable, SendCommand
<1>7. CASE SendNumberOfPrunable
  BY <1>0, <1>7 DEF SendNumberOfPrunable, SendCommand
<1>8. CASE AskTakeSampled
  BY <1>0, <1>8 DEF AskTakeSampled
<1>9. CASE AskWantToPrune
  BY <1>0, <1>9 DEF AskWantToPrune, SendCommand
<1>10. CASE AskReply
  BY <1>0, <1>10 DEF AskReply
<1>11. CASE AskDone
  BY <1>0, <1>11 DEF AskDone
<1>12. CASE NextHeight
  <2>1. UNCHANGED <<storeVars, blocks, daserVars, batch>> /\ ppc' # "removeHeight"
    BY <1>12 DEF NextHeight
  <2>2. ppc' = "removeBlocks" => pCids' = metadata[Min(batch)]
    BY <1>12 DEF NextHeight
  <2> QED
    BY <2>1, <2>2, Zenon DEF BlockInv, NoLeakedBlocks, storeVars, daserVars, daserLocal
<1>13. CASE RemoveBlocks
  <2>1. /\ blocks' = blocks \ ({Min(batch)} \X pCids)
        /\ ppc' = "removeHeight" /\ UNCHANGED <<storeVars, daserVars, batch>>
        /\ pCids = metadata[Min(batch)]
    BY <1>13, Zenon DEF RemoveBlocks, BlockInv
  <2>2. \A b \in blocks' : b[1] # Min(batch)
    BY <1>b, <2>1 DEF BlockInv, NoLeakedBlocks
  <2> QED
    BY <2>1, <2>2, Zenon DEF BlockInv, NoLeakedBlocks, storeVars, daserVars, daserLocal
<1>14. CASE RemoveHeight
  <2> DEFINE h == Min(batch)
  <2>1. h \in batch /\ h \in stored /\ h \in Heights
    BY <1>14, <1>a, <1>b DEF RemoveHeight
  <2>2. /\ metadata' = [metadata EXCEPT ![h] = {}] /\ stored' = stored \ {h}
        /\ ppc' = "nextHeight" /\ UNCHANGED <<blocks, daserVars>>
    BY <1>14, <2>1, Zenon DEF RemoveHeight, StoreRemoveHeight
  <2>3. \A k \in Heights \ {h} : metadata'[k] = metadata[k]
    BY <1>b, <2>2
  <2>4. \A b \in blocks : b[1] \in Heights \ {h}
    BY <1>14, <1>b DEF RemoveHeight, BlockInv
  <2>5. \A s \in shares : s[1] \in Heights \ {h}
    BY <1>b, <2>1, BatchIsNotSampled DEF BlockInv
  <2> HIDE DEF h
  <2>6. NoLeakedBlocks'
    BY <2>2, <2>3, <2>4, Zenon DEF BlockInv, NoLeakedBlocks
  <2> QED
    BY <2>2, <2>3, <2>5, <2>6, Zenon DEF BlockInv, daserVars, daserLocal
<1> QED
  BY <1>1, <1>2, <1>3, <1>4, <1>5, <1>6, <1>7, <1>8, <1>9, <1>10, <1>11, <1>12,
     <1>13, <1>14 DEF PrunerStep

\* Nor does the environment: Bitswap stores a block only for a live sampling,
\* and a process that stops keeps both stores as they are.
LEMMA EnvironmentBlocks ==
    ASSUME TypeOK, IInv, BlockInv, Environment
    PROVE  BlockInv'
<1>0. ASSUME UNCHANGED <<storeVars, blocks, daserVars, prunerVars>>
      PROVE  BlockInv'
  BY <1>0, Zenon DEF BlockInv, NoLeakedBlocks, storeVars, daserVars, daserLocal, prunerVars
<1>1. ASSUME NEW lo \in Heights, NEW hi \in Heights, InsertHeaders(lo, hi)
      PROVE  BlockInv'
  BY <1>1, Zenon DEF InsertHeaders, StoreInsert, BlockInv, NoLeakedBlocks, daserVars, daserLocal,
              prunerVars
<1>2. CASE SyncBatch
  BY <1>1, <1>2 DEF SyncBatch
<1>3. CASE SyncNetworkHead
  BY <1>1, <1>3 DEF SyncNetworkHead, TypeOK, StoreTypeOK
<1>4. CASE DeliverBlock
  <2>1. PICK s \in shares : /\ blocks' = blocks \cup {s}
                            /\ shares' = shares \ {s}
                            /\ UNCHANGED <<storeVars, prunerVars, futs, cancelled>>
    BY <1>4 DEF DeliverBlock
  <2>2. s[1] \in futs /\ s[1] \in stored /\ s[2] \in metadata[s[1]]
    BY Zenon DEF BlockInv, IInv, DaserInv
  <2>3. ppc = "removeHeight" => s[1] # Min(batch)
    BY <2>2, MinHeight, BatchIsNotSampled, Zenon DEF IInv, PrunerInv, TypeOK, PrunerTypeOK
  <2> QED
    BY <2>1, <2>2, <2>3, Zenon DEF BlockInv, NoLeakedBlocks, storeVars, prunerVars
<1>5. CASE DeliverLateBlock
  BY <1>5, Zenon DEF DeliverLateBlock, BlockInv
<1>6. CASE PruneCanceledQueries
  BY <1>6, Zenon DEF PruneCanceledQueries, BlockInv
<1>7. CASE PeerConnects
  BY <1>0, <1>7 DEF PeerConnects
<1>8. CASE AllPeersDisconnect
  BY <1>0, <1>8 DEF AllPeersDisconnect
<1>9. CASE Tick
  BY <1>0, <1>9 DEF Tick
<1>10. CASE Restart
  BY <1>10, Zenon DEF Restart, BlockInv, NoLeakedBlocks, storeVars
<1> QED
  BY <1>2, <1>3, <1>4, <1>5, <1>6, <1>7, <1>8, <1>9, <1>10 DEF Environment

\* As long as the P2p worker cancels a Bitswap query together with its request,
\* every block in the blockstore has its header in the store and its CID in the
\* header's sampling metadata, through crashes, timeouts and lost peers, for
\* every choice of the other constants.
THEOREM BlocksDoNotLeak == ASSUME ~LazyCancel PROVE Spec => []NoLeakedBlocks
<1>1. Init => BlockInv
  BY Zenon DEF Init, StoreInit, DaserInit, PrunerInit, BlockInv, NoLeakedBlocks
<1>2. TypeOK /\ IInv /\ BlockInv /\ [Next]_vars => BlockInv'
  <2>1. BlockInv /\ UNCHANGED vars => BlockInv'
    BY Zenon DEF vars, BlockInv, NoLeakedBlocks, storeVars, sharedVars, daserVars, daserLocal,
           prunerVars
  <2> QED
    BY <2>1, DaserStepBlocks, PrunerStepBlocks, EnvironmentBlocks DEF Next
<1>3. BlockInv => NoLeakedBlocks
  BY DEF BlockInv
<1> QED
  BY <1>1, <1>2, <1>3, TypeCorrect, InductiveInvariant, PTL DEF Spec

-----------------------------------------------------------------------------
(* What is pruned was disposable                                           *)

\* The border find_height_after_window returns is the cached one, one below
\* it, or a block at or before the cutoff.
LEMMA FoundBorder ==
    ASSUME NEW S \in SUBSET Heights, NEW cutoff \in Nat, NEW prev \in 0..MaxHeight
    PROVE  LET f == FindHeightAfterWindow(S, cutoff, prev) IN f <= prev \/ f <= cutoff
<1> DEFINE left == {s \in S : s < prev}
           below == {s \in S : s < cutoff}
<1>1. LeftOf(S, prev) <= prev
  <2>1. left \in SUBSET Heights
    OBVIOUS
  <2>2. left # {} => HeadOf(left) \in left
    BY <2>1, HeadOfHeights
  <2>3. left = {} => HeadOf(left) = 0
    BY DEF HeadOf
  <2>4. \A s \in left : s <= prev
    BY DEF Heights
  <2> HIDE DEF left
  <2>5. HeadOf(left) <= prev
    BY <2>2, <2>3, <2>4
  <2> QED
    BY <2>5 DEF LeftOf, left
<1>2. FindSlow(S, cutoff) <= cutoff
  <2>1. below \in SUBSET Heights
    OBVIOUS
  <2>2. below # {} => HeadOf(below) \in below
    BY <2>1, HeadOfHeights
  <2>3. below = {} => HeadOf(below) = 0
    BY DEF HeadOf
  <2>4. \A s \in below : s <= cutoff
    BY DEF Heights
  <2> HIDE DEF below
  <2>5. HeadOf(below) <= cutoff
    BY <2>2, <2>3, <2>4
  <2> QED
    BY <2>5 DEF FindSlow, below
<1>3. RightOf(S, prev) \in 0..MaxHeight
  BY NeighbourTypes
<1> HIDE DEF left, below
<1> QED
  BY <1>1, <1>2, <1>3 DEF FindHeightAfterWindow

\* The new border is outside the window when the cached one was.
LEMMA BorderOutsideWindow ==
    ASSUME NEW S \in SUBSET Heights, NEW window \in Nat, NEW prev \in 0..MaxHeight,
           now \in Nat, roundNow \in Nat, roundNow <= now,
           prev # 0 => prev + window <= now,
           NEW new, new = Max({prev, FindHeightAfterWindow(S, Cutoff(window), prev)})
    PROVE  new # 0 => new + window <= now
<1> DEFINE f == FindHeightAfterWindow(S, Cutoff(window), prev)
<1>1. Cutoff(window) \in Nat
  BY DEF Cutoff
<1>2. f \in 0..MaxHeight /\ (f <= prev \/ f <= Cutoff(window))
  BY <1>1, FindHeightType, FoundBorder
<1>3. new \in {prev, f}
  <2> HIDE DEF f
  <2>1. new = Max({prev, f})
    BY DEF f
  <2> QED
    <3>1. prev \in Int /\ f \in Int
      BY <1>2
    <3>2. Max({prev, f}) \in {prev, f}
      BY <3>1, MaxOfPair
    <3> QED
      BY <2>1, <3>2
<1>4. f # 0 => f + window <= now
  <2> HIDE DEF f
  <2> QED
    BY <1>2 DEF Cutoff
<1> HIDE DEF f
<1> QED
  BY <1>3, <1>4

\* A height that may be pruned may still be pruned later: time passes, what
\* was synced stays synced, and it stays sampled while it is stored.
LEMMA StaysDisposable ==
    ASSUME TypeOK, now' \in Nat, now <= now', stored \cup pruned \subseteq stored' \cup pruned',
           sampled \subseteq stored, NEW h \in Heights, h \in sampled => h \in sampled',
           Disposable(h, now, SamplingWindow, PruningWindow)
    PROVE  Disposable(h, now, SamplingWindow, PruningWindow)'
<1>1. /\ h \in Nat /\ now \in Nat /\ now' \in Nat
      /\ SamplingWindow \in Nat /\ PruningWindow \in Nat
  <2>1. h \in Nat
    BY MaxHeightAssumption DEF Heights
  <2> QED
    BY <2>1, DaserAssumption, PrunerAssumption, Zenon DEF TypeOK, DaserTypeOK
<1>2. /\ h + PruningWindow <= now => h + PruningWindow <= now'
      /\ h + SamplingWindow <= now => h + SamplingWindow <= now'
  BY <1>1
<1>3. h \in sampled /\ h \notin Edges(stored \cup pruned)
         => h \in sampled' /\ h \notin Edges(stored' \cup pruned')
  BY DEF Edges
<1> QED
  BY <1>2, <1>3, Zenon DEF Disposable

\* A step that only lets time pass, adds headers and takes nothing out of the
\* store keeps what the Pruner knows true.
LEMMA KnowledgeLasts ==
    ASSUME TypeOK, TypeOK', IInv, DisposableInv,
           now <= now', stored \cup pruned \subseteq stored' \cup pruned',
           batch' \subseteq batch, batch' \cap sampled \subseteq sampled',
           toAsk' \subseteq toAsk, roundNow' \in {0, roundNow},
           UNCHANGED <<afterSampling, afterPruning>>,
           pStored' \in {{}, pStored}, pPruned' \in {{}, pPruned}
    PROVE  DisposableInv'
<1>1. /\ now \in Nat /\ now' \in Nat /\ SamplingWindow \in Nat /\ PruningWindow \in Nat
      /\ roundNow \in Nat /\ afterSampling \in Nat /\ afterPruning \in Nat
      /\ toAsk \in SUBSET Nat /\ batch \in SUBSET Heights
  <2>1. Heights \subseteq Nat /\ 0..MaxHeight \subseteq Nat
    BY MaxHeightAssumption DEF Heights
  <2> QED
    BY <2>1, DaserAssumption, PrunerAssumption, Zenon DEF TypeOK, DaserTypeOK, PrunerTypeOK
<1>2. \A h \in batch' : Disposable(h, now, SamplingWindow, PruningWindow)'
  BY <1>1, StaysDisposable DEF DisposableInv, IInv
<1>3. \A h \in toAsk' : h + SamplingWindow <= now' /\ h + PruningWindow <= now'
  <2> TAKE h \in toAsk'
  <2>1. h \in Nat /\ h + SamplingWindow <= now /\ h + PruningWindow <= now
    BY <1>1 DEF DisposableInv
  <2> QED
    BY <1>1, <2>1
<1>4. /\ roundNow' <= now'
      /\ afterSampling' # 0 => afterSampling' + SamplingWindow <= now'
      /\ afterPruning' # 0 => afterPruning' + PruningWindow <= now'
  BY <1>1 DEF DisposableInv
<1>5. pStored' \cup pPruned' \subseteq stored' \cup pruned'
  BY DEF DisposableInv
<1>6. (\A h \in batch : Disposable(h, now, SamplingWindow, PruningWindow))'
  BY <1>2
<1> QED
  BY <1>3, <1>4, <1>5, <1>6, Zenon DEF DisposableInv

\* What the round found prunable is disposable: outside both windows, or
\* outside the pruning window, sampled and no edge of what was synced.
LEMMA PrunableIsDisposable ==
    ASSUME TypeOK, IInv, DisposableInv
    PROVE  /\ \A h \in AfterSamplingWindow : h + SamplingWindow <= now /\ h + PruningWindow <= now
           /\ \A h \in PrunableAndSampled : Disposable(h, now, SamplingWindow, PruningWindow)
<1>1. /\ now \in Nat /\ SamplingWindow \in Nat /\ PruningWindow \in Nat
      /\ afterSampling \in Nat /\ afterPruning \in Nat /\ pStored \in SUBSET Nat
  <2>1. Heights \subseteq Nat /\ 0..MaxHeight \subseteq Nat
    BY MaxHeightAssumption DEF Heights
  <2> QED
    BY <2>1, DaserAssumption, PrunerAssumption, Zenon DEF TypeOK, DaserTypeOK, PrunerTypeOK
<1>2. \A h \in PruneCandidates : h \in Nat /\ h + PruningWindow <= now
  BY <1>1 DEF PruneCandidates, DisposableInv
<1>3. \A h \in AfterSamplingWindow : h \in Nat /\ h + SamplingWindow <= now
  BY <1>1, <1>2 DEF AfterSamplingWindow, DisposableInv
<1>4. ASSUME NEW h \in PrunableAndSampled
      PROVE  Disposable(h, now, SamplingWindow, PruningWindow)
  <2>1. h \in PruneCandidates /\ h \in sampled
    BY <1>4 DEF PrunableAndSampled, IInv, PrunerInv
  <2>2. h \in pPruned \cup pStored /\ h \notin Edges(pPruned \cup pStored)
    BY <1>4 DEF PrunableAndSampled, PruneCandidates
  <2>3. h \notin Edges(stored \cup pruned)
    BY <2>2 DEF Edges, DisposableInv
  <2> QED
    BY <1>2, <2>1, <2>3 DEF Disposable
<1> QED
  BY <1>2, <1>3, <1>4 DEF AfterSamplingWindow

\* What lies before both windows is disposable whatever else holds.
LEMMA AskedIsDisposable ==
    ASSUME DisposableInv, NEW h \in toAsk
    PROVE  Disposable(h, now, SamplingWindow, PruningWindow)
  BY DEF DisposableInv, Disposable

\* Every step of the Pruner keeps the invariant.
LEMMA PrunerStepDisposable ==
    ASSUME TypeOK, TypeOK', IInv, DisposableInv, PrunerStep
    PROVE  DisposableInv'
<1> USE DEF storeVars, sharedVars
<1>0. now \in Nat /\ now <= now
  <2>1. now \in Nat
    BY Zenon DEF TypeOK, DaserTypeOK
  <2> QED
    BY <2>1
<1>a. ASSUME UNCHANGED <<storeVars, now, afterSampling, afterPruning>>,
             batch' \subseteq batch, toAsk' \subseteq toAsk, roundNow' \in {0, roundNow},
             pStored' \in {{}, pStored}, pPruned' \in {{}, pPruned}
      PROVE  DisposableInv'
  BY <1>0, <1>a, KnowledgeLasts, Zenon
<1>b. ASSUME UNCHANGED <<storeVars, now, afterSampling, afterPruning, roundNow, pStored, pPruned>>,
             toAsk' \subseteq toAsk \cup AfterSamplingWindow,
             batch' \subseteq batch \cup toAsk \cup PrunableAndSampled
      PROVE  DisposableInv'
  <2>1. \A h \in toAsk' : h + SamplingWindow <= now' /\ h + PruningWindow <= now'
    BY <1>b, PrunableIsDisposable, Zenon DEF DisposableInv
  <2>2. \A h \in batch' : Disposable(h, now, SamplingWindow, PruningWindow)
    BY <1>b, PrunableIsDisposable, AskedIsDisposable, Zenon DEF DisposableInv
  <2>3. \A h \in batch' : Disposable(h, now, SamplingWindow, PruningWindow)'
    BY <1>b, <2>2 DEF Disposable, Edges
  <2>4. (\A h \in batch : Disposable(h, now, SamplingWindow, PruningWindow))'
    BY <2>3
  <2> QED
    BY <1>b, <2>1, <2>4, Zenon DEF DisposableInv
<1>1. CASE PrunerReadStored
  BY <1>0, <1>1, Zenon DEF PrunerReadStored, DisposableInv, Disposable
<1>2. CASE PrunerReadPruned
  BY <1>2, Zenon DEF PrunerReadPruned, DisposableInv, Disposable
<1>3. CASE PrunerReadSampled
  BY <1>a, <1>3, Zenon DEF PrunerReadSampled
<1>4. CASE UpdateCachedData
  <2>1. /\ afterSampling' = Max({afterSampling,
                 FindHeightAfterWindow(pStored, Cutoff(SamplingWindow), afterSampling)})
        /\ afterPruning' = Max({afterPruning,
                 FindHeightAfterWindow(pStored, Cutoff(PruningWindow), afterPruning)})
        /\ UNCHANGED <<storeVars, now, toAsk, batch, pStored, pPruned>> /\ roundNow' = 0
    BY <1>4, Zenon DEF UpdateCachedData
  <2>2. /\ roundNow \in Nat /\ pStored \in SUBSET Heights
        /\ afterSampling \in 0..MaxHeight /\ afterPruning \in 0..MaxHeight
    BY Zenon DEF TypeOK, PrunerTypeOK
  <2>3. /\ afterSampling' # 0 => afterSampling' + SamplingWindow <= now
        /\ afterPruning' # 0 => afterPruning' + PruningWindow <= now
    BY <1>0, <2>1, <2>2, BorderOutsideWindow, DaserAssumption, PrunerAssumption, Zenon DEF DisposableInv
  <2>4. roundNow' <= now
    BY <1>0, <2>1
  <2> QED
    BY <2>1, <2>3, <2>4, Zenon DEF DisposableInv, Disposable
<1>5. CASE SkipCacheUpdate
  BY <1>a, <1>5 DEF SkipCacheUpdate
<1>6. CASE SendHighestPrunable
  BY <1>a, <1>6 DEF SendHighestPrunable, SendCommand
<1>7. CASE SendNumberOfPrunable
  BY <1>b, <1>7, Zenon DEF SendNumberOfPrunable, SendCommand, HeadN
<1>8. CASE AskTakeSampled
  <2>1. Max(toAsk) \in toAsk
    BY <1>8, MaxOfHeights, Zenon DEF AskTakeSampled, TypeOK, PrunerTypeOK
  <2> QED
    BY <1>b, <1>8, <2>1 DEF AskTakeSampled
<1>9. CASE AskWantToPrune
  BY <1>a, <1>9, Zenon DEF AskWantToPrune, SendCommand
<1>10. CASE AskReply
  <2>1. Max(toAsk) \in toAsk
    BY <1>10, MaxOfHeights, Zenon DEF AskReply, TypeOK, PrunerTypeOK
  <2> QED
    BY <1>b, <1>10, <2>1 DEF AskReply
<1>11. CASE AskDone
  BY <1>a, <1>11, Zenon DEF AskDone
<1>12. CASE NextHeight
  BY <1>a, <1>12, Zenon DEF NextHeight
<1>13. CASE RemoveBlocks
  BY <1>a, <1>13, Zenon DEF RemoveBlocks
<1>14. CASE RemoveHeight
  <2>1. Min(batch) \in stored
    BY <1>14, MinHeight, Zenon DEF RemoveHeight, IInv, PrunerInv, TypeOK, PrunerTypeOK
  <2> QED
    BY <1>0, <1>14, <2>1, KnowledgeLasts, Zenon DEF RemoveHeight, StoreRemoveHeight
<1> QED
  BY <1>1, <1>2, <1>3, <1>4, <1>5, <1>6, <1>7, <1>8, <1>9, <1>10, <1>11, <1>12,
     <1>13, <1>14 DEF PrunerStep

\* So does every step of the others: the clock goes forward, and a height that
\* the Pruner holds is in the store, so that no insertion takes away that it
\* was sampled.
LEMMA OthersKeepDisposable ==
    ASSUME TypeOK, TypeOK', IInv, DisposableInv,
           \/ DaserStep /\ UNCHANGED <<prunerVars, boundVars>>
           \/ Environment
           \/ UNCHANGED vars
    PROVE  DisposableInv'
<1>0. now \in Nat /\ now <= now /\ now <= now + 1
  <2>1. now \in Nat
    BY Zenon DEF TypeOK, DaserTypeOK
  <2> QED
    BY <2>1
<1>a. ASSUME UNCHANGED <<stored, pruned, prunerVars>>, sampled \subseteq sampled', now <= now'
      PROVE  DisposableInv'
  BY <1>a, KnowledgeLasts, Zenon DEF prunerVars
<1> USE DEF storeVars, sharedVars
<1>1. CASE DaserStep /\ UNCHANGED prunerVars
  <2>1. UNCHANGED <<stored, pruned, now>> /\ sampled \subseteq sampled'
    BY <1>1, Zenon DEF DaserStep, DaserConnected, DaserDisconnected, UpdateQueueReadStored,
         UpdateQueueReadSampled, PopHead, GetHeaderNotFound, GetHeaderOutsideWindow,
         GetHeaderInWindow, StartSampling, StoreUpdateSamplingMetadata, OnCmd, MarkSampled,
         StoreMarkAsSampled, SamplingDone, SamplingTimedOut, PollWaitNewHead, WakeWaitNewHead
  <2> QED
    BY <1>0, <1>1, <1>a, <2>1
<1>2. ASSUME NEW lo \in Heights, NEW hi \in Heights, InsertHeaders(lo, hi)
      PROVE  DisposableInv'
  <2>1. /\ (lo..hi) \cap stored = {}
        /\ stored' = stored \cup (lo..hi)
        /\ sampled' = sampled \ (lo..hi)
        /\ pruned' = pruned \ (lo..hi)
        /\ UNCHANGED <<now, prunerVars>>
    BY <1>2, Zenon DEF InsertHeaders, StoreInsert, InsertionConstraintsMet
  <2>2. batch \subseteq stored
    BY DEF IInv, PrunerInv
  <2> QED
    BY <1>0, <2>1, <2>2, KnowledgeLasts, Zenon DEF prunerVars
<1>3. CASE SyncBatch
  BY <1>2, <1>3 DEF SyncBatch
<1>4. CASE SyncNetworkHead
  BY <1>2, <1>4 DEF SyncNetworkHead, TypeOK, StoreTypeOK
<1>5. CASE DeliverBlock
  BY <1>0, <1>5, <1>a, Zenon DEF DeliverBlock
<1>6. CASE DeliverLateBlock
  BY <1>0, <1>6, <1>a DEF DeliverLateBlock
<1>7. CASE PruneCanceledQueries
  BY <1>0, <1>7, <1>a DEF PruneCanceledQueries
<1>8. CASE PeerConnects
  BY <1>0, <1>8, <1>a DEF PeerConnects
<1>9. CASE AllPeersDisconnect
  BY <1>0, <1>9, <1>a DEF AllPeersDisconnect
<1>10. CASE Tick
  BY <1>0, <1>10, <1>a DEF Tick
<1>11. CASE Restart
  <2>1. /\ roundNow' = 0 /\ now' = now
        /\ afterSampling' = 0 /\ afterPruning' = 0
        /\ pStored' = {} /\ pPruned' = {} /\ toAsk' = {} /\ batch' = {}
    BY <1>11, Zenon DEF Restart
  <2>2. roundNow' <= now'
    BY <1>0, <2>1
  <2> QED
    BY <2>1, <2>2 DEF DisposableInv
<1>12. CASE UNCHANGED vars
  BY <1>0, <1>12, <1>a DEF vars
<1> QED
  BY <1>1, <1>3, <1>4, <1>5, <1>6, <1>7, <1>8, <1>9, <1>10, <1>11, <1>12 DEF Environment

\* What the Pruner holds is always disposable.
LEMMA DisposableInvariant == Spec => []DisposableInv
<1>1. Init => DisposableInv
  BY SamplingAndPruningAssumption DEF Init, StoreInit, PrunerInit, DisposableInv
<1>2. TypeOK /\ TypeOK' /\ IInv /\ DisposableInv /\ [Next]_vars => DisposableInv'
  BY PrunerStepDisposable, OthersKeepDisposable DEF Next
<1> QED
  BY <1>1, <1>2, TypeCorrect, InductiveInvariant, PTL DEF Spec

\* Whatever was inserted, sampled or refused since the Pruner read the store,
\* the header it removes is outside the pruning window and, while inside the
\* sampling window, sampled and no edge of what was synced, for all windows,
\* batch sizes and histories.
THEOREM PrunedWasDisposable == Spec => OnlyDisposableHeadersPruned
<1> DEFINE Step == \A h \in stored \ stored' : Disposable(h, now, SamplingWindow, PruningWindow)
<1>1. TypeOK /\ IInv /\ DisposableInv /\ [Next]_vars => [Step]_vars
  <2> SUFFICES ASSUME TypeOK, IInv, DisposableInv, Next, NEW h \in stored \ stored'
               PROVE  Disposable(h, now, SamplingWindow, PruningWindow)
    OBVIOUS
  <2> USE DEF storeVars
  <2>1. ~DaserStep
    BY Zenon DEF DaserStep, DaserConnected, DaserDisconnected, UpdateQueueReadStored,
         UpdateQueueReadSampled, PopHead, GetHeaderNotFound, GetHeaderOutsideWindow,
         GetHeaderInWindow, StartSampling, StoreUpdateSamplingMetadata, OnCmd, MarkSampled,
         StoreMarkAsSampled, SamplingDone, SamplingTimedOut, PollWaitNewHead, WakeWaitNewHead
  <2>2. ~Environment
    BY Zenon DEF Environment, SyncBatch, SyncNetworkHead, InsertHeaders, StoreInsert, DeliverBlock,
         DeliverLateBlock, PruneCanceledQueries, PeerConnects, AllPeersDisconnect, Tick, Restart
  <2>3. RemoveHeight
    BY <2>1, <2>2, Zenon DEF Next, PrunerStep, PrunerReadStored, PrunerReadPruned, PrunerReadSampled,
         UpdateCachedData, SkipCacheUpdate, SendHighestPrunable, SendNumberOfPrunable,
         AskTakeSampled, AskWantToPrune, AskReply, AskDone, NextHeight, RemoveBlocks
  <2>4. h = Min(batch) /\ batch # {}
    BY <2>3, Zenon DEF RemoveHeight, StoreRemoveHeight, IInv, PrunerInv
  <2>5. h \in batch
    BY <2>4, MinHeight DEF TypeOK, PrunerTypeOK
  <2> QED
    BY <2>5 DEF DisposableInv
<1> QED
  BY <1>1, TypeCorrect, InductiveInvariant, DisposableInvariant, PTL
     DEF Spec, OnlyDisposableHeadersPruned
=============================================================================
