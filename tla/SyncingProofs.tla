--------------------------- MODULE SyncingProofs ---------------------------
(***************************************************************************)
(* Proofs about the Syncer and the stream of its subscribers.  SyncInv     *)
(* says what the Syncer knows between two of its steps; it is shown step   *)
(* by step to be kept, and yields the theorems on batches.                 *)
(***************************************************************************)
EXTENDS Syncing, IntervalLemmas

-----------------------------------------------------------------------------
(* Minimum and maximum of a set of heights                                 *)

\* A non-empty set of heights has a least element, which Min returns: the
\* tail of a BlockRanges.
LEMMA MinHeight ==
    ASSUME NEW S \in SUBSET Heights, S # {}
    PROVE  Min(S) \in S /\ \A y \in S : Min(S) <= y
  BY MinOfInterval, MaxHeightAssumption, Zenon DEF Heights

\* A non-empty set of heights has a greatest element, which Max returns: what
\* BlockRanges::head and pop_head rely on.
LEMMA MaxOfHeights ==
    ASSUME NEW S \in SUBSET Heights, S # {}
    PROVE  Max(S) \in S /\ \A y \in S : y <= Max(S)
  BY MaxOfInterval, MaxHeightAssumption, Zenon DEF Heights

\* 0 is None, every height is a value of an optional height.
LEMMA OptionalHeights == Heights \subseteq 0..MaxHeight /\ 0 \in 0..MaxHeight
  BY MaxHeightAssumption DEF Heights

\* BlockRanges::head of a set of heights is one of them, or 0 for None.
LEMMA HeadOfHeights ==
    ASSUME NEW S \in SUBSET Heights
    PROVE  /\ HeadOf(S) \in 0..MaxHeight
           /\ S # {} => HeadOf(S) \in S
<1>1. CASE S = {}
  BY <1>1, OptionalHeights DEF HeadOf
<1>2. CASE S # {}
  <2>1. HeadOf(S) \in S
    BY <1>2, MaxOfHeights DEF HeadOf
  <2> QED
    BY <2>1, OptionalHeights, Zenon
<1> QED
  BY <1>1, <1>2

\* Heights are numbers.
LEMMA HeightsAreInts ==
    /\ \A h \in Heights : h \in Int
    /\ \A h \in 0..MaxHeight : h \in Int
  BY MaxHeightAssumption DEF Heights

-----------------------------------------------------------------------------
(* Intervals and sequences                                                 *)

LEMMA Endpoints ==
    ASSUME NEW a \in Int, NEW b \in Int, a <= b
    PROVE  a \in a..b /\ b \in a..b
  OBVIOUS

LEMMA Between ==
    ASSUME NEW a, NEW b, NEW h \in a..b, a \in Int, b \in Int
    PROVE  h \in Int /\ a <= h /\ h <= b
  OBVIOUS

\* An interval without a member of a set is below or above one inside it.
LEMMA Apart ==
    ASSUME NEW lo \in Int, NEW hi \in Int, lo <= hi, NEW a \in Int, NEW b \in Int, a <= b,
           NEW S, (lo..hi) \cap S = {}, a..b \subseteq S
    PROVE  b < lo \/ hi < a
<1> SUFFICES ASSUME ~(b < lo), ~(hi < a) PROVE FALSE
  BY Zenon
<1>1. a \in lo..hi \/ lo \in a..b
  OBVIOUS
<1>2. a \in a..b /\ lo \in lo..hi
  OBVIOUS
<1> QED
  BY <1>1, <1>2, Zenon

LEMMA Less ==
    ASSUME NEW a \in Int, NEW b \in Int, NEW c \in Int
    PROVE  /\ a <= b /\ b < c => a < c /\ a # c
           /\ a < b /\ b <= c => a < c /\ a # c
           /\ b = a + 1 /\ b <= c => a < c
           /\ a < c /\ b = a + 1 => b <= c
           /\ ~(a < b) => b <= a
           /\ a <= b => ~(b < a)
           /\ a <= b /\ a # b => a < b
  OBVIOUS

LEMMA Irreflexive ==
    ASSUME NEW a \in Int
    PROVE  ~(a < a)
  OBVIOUS

LEMMA NotBelow ==
    ASSUME NEW a \in Int, NEW b \in Int, NEW c \in Int, a <= b, b < c
    PROVE  ~(c < a)
  OBVIOUS

LEMMA Appended ==
    ASSUME NEW S, NEW s \in Seq(S), NEW e \in S
    PROVE  /\ Len(s) \in Nat /\ Len(Append(s, e)) = Len(s) + 1 /\ Append(s, e)[Len(s) + 1] = e
           /\ \A i \in 1..Len(s) : Append(s, e)[i] = s[i]
  OBVIOUS

LEMMA AppendedAt ==
    ASSUME NEW S, NEW s \in Seq(S), NEW e \in S, NEW i \in 1..(Len(s) + 1)
    PROVE  Append(s, e)[i] = e \/ (i \in 1..Len(s) /\ Append(s, e)[i] = s[i])
  OBVIOUS

LEMMA Members ==
    ASSUME NEW S, NEW s \in Seq(S)
    PROVE  Len(s) \in Nat /\ \A i \in 1..Len(s) : s[i] \in S
  OBVIOUS

\* An interval of heights is a set of heights, and has its ends.
LEMMA IntervalEnds ==
    ASSUME NEW lo \in Heights, NEW hi \in Heights, lo <= hi
    PROVE  /\ lo..hi \in SUBSET Heights /\ lo..hi # {}
           /\ Min(lo..hi) = lo /\ Max(lo..hi) = hi
<1>1. lo..hi \in SUBSET Heights /\ lo \in lo..hi /\ hi \in lo..hi
  BY MaxHeightAssumption DEF Heights
<1>2. Min(lo..hi) \in lo..hi /\ \A y \in lo..hi : Min(lo..hi) <= y
  BY <1>1, MinHeight, Zenon
<1>3. Max(lo..hi) \in lo..hi /\ \A y \in lo..hi : y <= Max(lo..hi)
  BY <1>1, MaxOfHeights, Zenon
<1>4. lo \in Int /\ hi \in Int
  BY MaxHeightAssumption DEF Heights
<1>5. Min(lo..hi) <= lo /\ Min(lo..hi) >= lo /\ Max(lo..hi) <= hi /\ Max(lo..hi) >= hi
  BY <1>1, <1>2, <1>3, <1>4
<1> QED
  BY <1>1, <1>2, <1>3, <1>4, <1>5

\* tailn: the first headers of a range.
LEMMA TailOfRange ==
    ASSUME NEW lo \in Heights, NEW hi \in Heights, lo <= hi, NEW b, b = TailN(lo, hi)
    PROVE  \E top \in Heights : lo <= top /\ top <= hi /\ b = lo..top
<1>1. lo \in Int /\ hi \in Int /\ BatchSize \in Int /\ BatchSize >= 1
  BY MaxHeightAssumption, SyncerAssumption DEF Heights
<1>2. lo + BatchSize - 1 \in Int
  BY <1>1
<1> DEFINE top == Min({hi, lo + BatchSize - 1})
<1>3. top \in {hi, lo + BatchSize - 1} /\ top <= hi /\ top <= lo + BatchSize - 1
  BY <1>1, <1>2, MinOfPair, Zenon
<1> HIDE DEF top
<1>4. lo <= top /\ top <= hi /\ top \in Heights
  BY <1>1, <1>3, MaxHeightAssumption DEF Heights
<1>5. b = lo..top
  BY DEF TailN, top
<1> QED
  BY <1>4, <1>5

\* headn: the last headers of a range.
LEMMA HeadOfRange ==
    ASSUME NEW lo \in Heights, NEW hi \in Heights, lo <= hi, NEW b, b = HeadN(lo, hi)
    PROVE  \E bot \in Heights : lo <= bot /\ bot <= hi /\ b = bot..hi
<1>1. lo \in Int /\ hi \in Int /\ BatchSize \in Int /\ BatchSize >= 1
  BY MaxHeightAssumption, SyncerAssumption DEF Heights
<1>2. hi - BatchSize + 1 \in Int
  BY <1>1
<1> DEFINE bot == Max({lo, hi - BatchSize + 1})
<1>3. bot \in {lo, hi - BatchSize + 1} /\ bot >= lo /\ bot >= hi - BatchSize + 1
  BY <1>1, <1>2, MaxOfPair
<1> HIDE DEF bot
<1>4. lo <= bot /\ bot <= hi /\ bot \in Heights
  BY <1>1, <1>3, MaxHeightAssumption DEF Heights
<1>5. b = bot..hi
  BY DEF HeadN, bot
<1> QED
  BY <1>4, <1>5

\* The first height of the topmost range is synced, and all above it up to
\* the head is; the height below it is not.
LEMMA TopmostRange ==
    ASSUME NEW S \in SUBSET Heights, S # {}, NEW start, start = HeadRangeStart(S)
    PROVE  /\ start \in S /\ start <= Max(S)
           /\ start..Max(S) \subseteq S
           /\ start - 1 \notin S
<1> DEFINE T == {h \in S : h..Max(S) \subseteq S}
<1>1. Max(S) \in S /\ \A y \in S : y <= Max(S)
  BY MaxOfHeights
<1>2. Max(S) \in Int
  <2>1. Max(S) \in Heights
    BY <1>1
  <2> QED
    BY <2>1, MaxHeightAssumption DEF Heights
<1>3. Max(S)..Max(S) \subseteq S
  BY <1>1, <1>2
<1>4. T \in SUBSET Heights /\ T # {}
  BY <1>1, <1>3, Zenon
<1>5. start = Min(T)
  BY DEF HeadRangeStart
<1>6. start \in T /\ \A y \in T : start <= y
  <2> HIDE DEF T
  <2> QED
    BY <1>4, <1>5, MinHeight
<1>7. start \in S /\ start <= Max(S) /\ start..Max(S) \subseteq S
  BY <1>1, <1>6
<1>8. start \in Int
  BY <1>7, MaxHeightAssumption DEF Heights
<1>9. start - 1 \notin S
  <2> SUFFICES ASSUME start - 1 \in S PROVE FALSE
    OBVIOUS
  <2>1. (start - 1)..Max(S) \subseteq S
    BY <1>2, <1>7, <1>8
  <2>2. start - 1 \in T
    BY <2>1
  <2>3. start <= start - 1
    BY <1>6, <2>2
  <2> QED
    BY <1>8, <2>3
<1> QED
  BY <1>7, <1>9

\* calculate_range_to_fetch returns nothing, or a range that may be asked for.
LEMMA CalculatedRange ==
    ASSUME NEW S \in SUBSET Heights, NEW head \in Heights,
           NEW b, b = CalculateRangeToFetch(head, S), b # {}
    PROVE  Fetchable(b, S) /\ \A h \in b : h <= head \/ \E s \in S : h < s
<1>1. head \in Int /\ head >= 1 /\ head <= MaxHeight /\ MaxHeight \in Int
  BY MaxHeightAssumption DEF Heights
<1>2. HeadOf(S) \in 0..MaxHeight /\ \A h \in S : h <= HeadOf(S)
  BY HeadOfHeights, MaxOfHeights DEF HeadOf
<1>3. HeadOf(S) \in Int /\ HeadOf(S) >= 0
  BY <1>1, <1>2
<1>4. CASE HeadOf(S) < head
  <2>1. HeadOf(S) + 1 \in Heights /\ HeadOf(S) + 1 <= head
    BY <1>1, <1>3, <1>4 DEF Heights
  <2>2. b = TailN(HeadOf(S) + 1, head)
    BY <1>4 DEF CalculateRangeToFetch
  <2>3. PICK top \in Heights : HeadOf(S) + 1 <= top /\ top <= head /\ b = (HeadOf(S) + 1)..top
    BY <2>1, <2>2, TailOfRange
  <2>4. \A h \in S : h \in Int
    BY MaxHeightAssumption DEF Heights
  <2>5. \A h \in S : h < HeadOf(S) + 1
    BY <1>2, <1>3, <2>4
  <2>6. b \cap S = {}
    BY <1>2, <1>3, <2>3, <2>4
  <2>7. \A h \in b : h <= head
    <3>1. top \in Int
      BY MaxHeightAssumption DEF Heights
    <3> QED
      BY <1>1, <1>3, <2>3, <3>1
  <2> QED
    BY <2>1, <2>3, <2>5, <2>6, <2>7 DEF Fetchable
<1>5. CASE ~(HeadOf(S) < head)
  <2>1. S # {}
    BY <1>1, <1>5 DEF HeadOf
  <2> DEFINE start == HeadRangeStart(S)
             B == {h \in S : h < start}
  <2>2. start \in S /\ start <= Max(S) /\ start..Max(S) \subseteq S /\ start - 1 \notin S
    BY <2>1, TopmostRange
  <2>3. b = HeadN(HeadOf(B) + 1, start - 1)
    BY <1>5 DEF CalculateRangeToFetch
  <2> HIDE DEF start
  <2>4. start \in Int /\ start >= 1 /\ start <= MaxHeight
    BY <2>2, MaxHeightAssumption DEF Heights
  <2>5. B \in SUBSET Heights
    OBVIOUS
  <2>6. HeadOf(B) \in 0..MaxHeight /\ (B # {} => HeadOf(B) \in B) /\ \A h \in B : h <= HeadOf(B)
    <3> HIDE DEF B
    <3> QED
      BY <2>5, HeadOfHeights, MaxOfHeights DEF HeadOf
  <2>7. HeadOf(B) \in Int /\ HeadOf(B) >= 0
    BY <1>1, <2>6
  <2>8. HeadOf(B) + 1 <= start - 1
    <3> SUFFICES ASSUME ~(HeadOf(B) + 1 <= start - 1) PROVE FALSE
      OBVIOUS
    <3>1. Max({HeadOf(B) + 1, start - 1 - BatchSize + 1}) >= HeadOf(B) + 1
          /\ Max({HeadOf(B) + 1, start - 1 - BatchSize + 1}) \in Int
      <4>1. HeadOf(B) + 1 \in Int /\ start - 1 - BatchSize + 1 \in Int
        BY <2>4, <2>7, SyncerAssumption
      <4> HIDE DEF B
      <4> QED
        BY <4>1, MaxOfPair, Zenon
    <3>2. b = Max({HeadOf(B) + 1, start - 1 - BatchSize + 1})..(start - 1)
      BY <2>3 DEF HeadN
    <3>3. PICK x \in b : TRUE
      OBVIOUS
    <3> HIDE DEF B
    <3>4. x >= HeadOf(B) + 1 /\ x <= start - 1 /\ x \in Int
      BY <2>4, <2>7, <3>1, <3>2
    <3> QED
      BY <2>4, <2>7, <3>4
  <2>9. HeadOf(B) + 1 \in Heights /\ start - 1 \in Heights
    <3> HIDE DEF B
    <3> QED
      BY <1>1, <2>4, <2>7, <2>8 DEF Heights
  <2>10. PICK bot \in Heights : HeadOf(B) + 1 <= bot /\ bot <= start - 1 /\ b = bot..(start - 1)
    <3> HIDE DEF B
    <3> QED
      BY <2>3, <2>8, <2>9, HeadOfRange
  <2>11. b \cap S = {}
    <3> SUFFICES ASSUME NEW h \in b, h \in S PROVE FALSE
      OBVIOUS
    <3>1. h \in Int /\ bot \in Int
      BY MaxHeightAssumption DEF Heights
    <3>2. h >= bot /\ h <= start - 1
      BY <2>10, <3>1
    <3>3. h \in B
      BY <2>4, <3>1, <3>2
    <3>4. h <= HeadOf(B)
      BY <2>6, <3>3
    <3> HIDE DEF B
    <3> QED
      BY <2>7, <2>10, <3>1, <3>2, <3>4
  <2>12. (start - 1) + 1 \in S
    BY <2>2, <2>4
  <2>13. \A h \in b : h < start
    <3>1. bot \in Int
      BY MaxHeightAssumption DEF Heights
    <3> QED
      BY <2>4, <2>10, <3>1
  <2> QED
    BY <2>2, <2>9, <2>10, <2>11, <2>12, <2>13 DEF Fetchable
<1> QED
  BY <1>4, <1>5

-----------------------------------------------------------------------------
(* The types, but for those of the stream                                  *)

Types ==
    /\ StoreTypeOK
    /\ SyncerTypeOK
    /\ disconnects \in 0..MaxDisconnects
    /\ restarts \in 0..MaxRestarts
    /\ lagged \in BOOLEAN

\* An insertion adds the range to what the node has; none of it stays pruned.
LEMMA InsertionGrows ==
    ASSUME Types, NEW lo \in Heights, NEW hi \in Heights, StoreInsert(lo, hi)
    PROVE  /\ StoreTypeOK'
           /\ Had' = Had \cup (lo..hi)
           /\ pruned' \subseteq pruned
<1>1. lo <= hi
  BY DEF StoreInsert, InsertionConstraintsMet
<1>2. lo..hi \in SUBSET Heights
  BY <1>1, IntervalEnds
<1>3. StoreTypeOK'
  BY <1>2 DEF StoreInsert, Types, StoreTypeOK
<1>4. Had' = Had \cup (lo..hi) /\ pruned' \subseteq pruned
  BY DEF StoreInsert, Had
<1> QED
  BY <1>3, <1>4

\* A range under way is a range of heights, with its ends.
LEMMA UnderWayEnds ==
    ASSUME NEW b, NEW S, UnderWay(b, S)
    PROVE  /\ b \in SUBSET Heights /\ b # {}
           /\ Min(b) \in Heights /\ Max(b) \in Heights /\ Min(b) <= Max(b)
           /\ b = Min(b)..Max(b)
           /\ b \cap S # {} \/ (\A h \in S : h < Min(b)) \/ Max(b) + 1 \in S
<1>1. PICK lo \in Heights, hi \in Heights :
           /\ lo <= hi
           /\ b = lo..hi
           /\ b \cap S # {} \/ (\A h \in S : h < lo) \/ hi + 1 \in S
  BY DEF UnderWay
<1>2. b \in SUBSET Heights /\ b # {} /\ Min(b) = lo /\ Max(b) = hi
  BY <1>1, IntervalEnds, Zenon
<1> QED
  BY <1>1, <1>2

\* A range that may be asked for is a non-empty range of heights.
LEMMA FetchableEnds ==
    ASSUME NEW b, NEW S, Fetchable(b, S)
    PROVE  b \in SUBSET Heights /\ b # {} /\ b \cap S = {} /\ UnderWay(b, S)
<1>1. PICK lo \in Heights, hi \in Heights :
           /\ lo <= hi
           /\ b = lo..hi
           /\ b \cap S = {}
           /\ (\A h \in S : h < lo) \/ hi + 1 \in S
  BY DEF Fetchable
<1>2. b \in SUBSET Heights /\ b # {}
  BY <1>1, IntervalEnds
<1> QED
  BY <1>1, <1>2 DEF UnderWay

\* fetch_next_batch computes a batch from what it read of the two range tables.
LEMMA NextBatch ==
    ASSUME Types, SyncInv, spc = "fetchPruned",
           NEW b, b = CalculateRangeToFetch(subj, Synced), b # {}
    PROVE  Fetchable(b, Had) /\ \A h \in b : h <= subj \/ \E s \in Had : h < s
<1>1. subj \in Heights
  BY MaxHeightAssumption DEF Types, SyncerTypeOK, SyncInv, InConnectedLoop, Heights
<1>2. Synced = Had
  BY DEF SyncInv, Synced
<1>3. Had \in SUBSET Heights
  BY DEF Types, StoreTypeOK, Had
<1> QED
  BY <1>1, <1>2, <1>3, CalculatedRange

\* Every step of the Syncer keeps the types.
LEMMA SyncerTypes ==
    ASSUME Types, SyncInv, SyncerMoves
    PROVE  Types'
<1>0. /\ StoreTypeOK /\ now \in Heights /\ connected \in BOOLEAN
      /\ subj \in 0..MaxHeight /\ slowSync \in 0..MaxHeight
      /\ ongoing \in SUBSET Heights /\ initHead \in 0..MaxHeight
      /\ sStored \in SUBSET Heights /\ nextBatch \in SUBSET Heights
      /\ subRx \in Seq(Heights) /\ subOpen \in BOOLEAN /\ subHead \in 0..MaxHeight
      /\ disconnects \in 0..MaxDisconnects /\ restarts \in 0..MaxRestarts /\ lagged \in BOOLEAN
  BY DEF Types, SyncerTypeOK
<1>1. UNCHANGED <<disconnects, restarts>> /\ lagged' \in BOOLEAN
  BY <1>0 DEF SyncerMoves
<1>2. ASSUME NEW h \in Heights PROVE h \in 0..MaxHeight /\ SubjectiveHead(h) \in 0..MaxHeight
  BY <1>0, <1>2, OptionalHeights DEF SubjectiveHead
<1>3. 0 \in 0..MaxHeight /\ {} \in SUBSET Heights /\ <<>> \in Seq(Heights)
  BY OptionalHeights
<1>4. UNCHANGED storeVars => StoreTypeOK'
  BY <1>0 DEF StoreTypeOK, storeVars
<1> USE DEF syncerLocal, subVars
<1>5. CASE TryInitGetHead
  BY <1>0, <1>1, <1>2, <1>4, <1>5 DEF TryInitGetHead, Types, SyncerTypeOK
<1>6. CASE TryInitReadHead
  BY <1>0, <1>1, <1>4, <1>6 DEF TryInitReadHead, Types, SyncerTypeOK
<1>7. CASE TryInitInsert
  <2>1. initHead \in Heights
    BY <1>7 DEF TryInitInsert, SyncInv
  <2>2. StoreTypeOK'
    BY <1>4, <1>7, <2>1, InsertionGrows DEF TryInitInsert
  <2> QED
    BY <1>0, <1>1, <1>3, <1>7, <2>2 DEF TryInitInsert, Types, SyncerTypeOK
<1>8. CASE TryInitDone
  <2>1. initHead \in Heights
    BY <1>8 DEF TryInitDone, SyncInv
  <2>2. subj' \in 0..MaxHeight /\ subHead' \in 0..MaxHeight
    BY <1>2, <1>8, <2>1 DEF TryInitDone
  <2> QED
    BY <1>0, <1>1, <1>3, <1>4, <1>8, <2>2 DEF TryInitDone, Types, SyncerTypeOK
<1>9. CASE FetchReadStored
  BY <1>0, <1>1, <1>4, <1>9 DEF FetchReadStored, Types, SyncerTypeOK, StoreTypeOK
<1>10. CASE FetchReadPruned
  <2>1. nextBatch' \in SUBSET Heights
    <3>1. nextBatch' = CalculateRangeToFetch(subj, Synced) /\ spc = "fetchPruned"
      BY <1>10 DEF FetchReadPruned
    <3>2. CASE CalculateRangeToFetch(subj, Synced) = {}
      BY <3>1, <3>2
    <3>3. CASE CalculateRangeToFetch(subj, Synced) # {}
      BY <3>1, <3>3, NextBatch, FetchableEnds
    <3> QED
      BY <3>2, <3>3
  <2>2. sStored' \in SUBSET Heights
        /\ spc' \in {"select", "fetchSampled", "fetchWindow"}
        /\ UNCHANGED <<storeVars, now, connected, subj, slowSync, ongoing, initHead, subVars>>
    BY <1>0, <1>3, <1>10 DEF FetchReadPruned
  <2> QED
    BY <1>0, <1>1, <1>4, <2>1, <2>2 DEF Types, SyncerTypeOK
<1>11. CASE FetchReadSampled
  BY <1>0, <1>1, <1>3, <1>4, <1>11 DEF FetchReadSampled, Types, SyncerTypeOK
<1>12. CASE FetchStart
  <2>1. ongoing' \in SUBSET Heights
    BY <1>0, <1>12 DEF FetchStart
  <2> QED
    BY <1>0, <1>1, <1>3, <1>4, <1>12, <2>1 DEF FetchStart, Types, SyncerTypeOK
<1>13. CASE AllPeersGone
  BY <1>0, <1>1, <1>3, <1>4, <1>13, Zenon DEF AllPeersGone, Types, SyncerTypeOK
<1>14. CASE OnHeaderSub
  <2>1. Head(subRx) \in Heights /\ Tail(subRx) \in Seq(Heights)
    BY <1>0, <1>14 DEF OnHeaderSub
  <2>2. subj' \in 0..MaxHeight /\ initHead' \in 0..MaxHeight /\ subRx' \in Seq(Heights)
    BY <1>0, <1>2, <1>14, <2>1, Zenon DEF OnHeaderSub
  <2> QED
    BY <1>0, <1>1, <1>4, <1>14, <2>2 DEF OnHeaderSub, Types, SyncerTypeOK
<1>15. CASE InsertFromHeaderSub
  <2>1. initHead \in Heights
    BY <1>15 DEF InsertFromHeaderSub, SyncInv
  <2>2. StoreTypeOK'
    BY <1>4, <1>15, <2>1, InsertionGrows DEF InsertFromHeaderSub, AnnounceInsert
  <2> QED
    BY <1>0, <1>1, <1>3, <1>15, <2>2 DEF InsertFromHeaderSub, Types, SyncerTypeOK
<1>16. CASE OnFetchResult
  <2>1. UnderWay(ongoing, Had)
    BY <1>16 DEF OnFetchResult, SyncInv
  <2>2. Min(ongoing) \in Heights /\ Max(ongoing) \in Heights
    BY <2>1, UnderWayEnds
  <2>3. StoreTypeOK'
    BY <1>4, <1>16, <2>2, InsertionGrows DEF OnFetchResult, AnnounceInsert
  <2>4. slowSync' \in 0..MaxHeight
    <3>1. SlowSyncOf(ongoing) \in 0..MaxHeight
      <4>1. {h \in ongoing : h + PruningWindow <= now} \in SUBSET Heights
        BY <1>0
      <4> QED
        BY <4>1, HeadOfHeights DEF SlowSyncOf
    <3>2. slowSync \in Int /\ SlowSyncOf(ongoing) \in Int
      BY <1>0, <3>1, MaxHeightAssumption
    <3>3. Max({slowSync, SlowSyncOf(ongoing)}) \in {slowSync, SlowSyncOf(ongoing)}
      BY <3>2, MaxOfPair, Zenon
    <3>4. slowSync' = Max({slowSync, SlowSyncOf(ongoing)})
      BY <1>16 DEF OnFetchResult
    <3> QED
      BY <1>0, <3>1, <3>3, <3>4
  <2> QED
    BY <1>0, <1>1, <1>3, <1>16, <2>3, <2>4 DEF OnFetchResult, Types, SyncerTypeOK
<1>17. CASE OnFetchError
  BY <1>0, <1>1, <1>3, <1>4, <1>17 DEF OnFetchError, Types, SyncerTypeOK
<1> QED
  BY <1>5, <1>6, <1>7, <1>8, <1>9, <1>10, <1>11, <1>12, <1>13, <1>14, <1>15, <1>16, <1>17
     DEF SyncerMoves, SyncerStep

\* So does every step of the environment.
LEMMA EnvironmentTypes ==
    ASSUME Types, Environment \/ UNCHANGED vars
    PROVE  Types'
<1> USE DEF Types, SyncerTypeOK, StoreTypeOK, storeVars, syncerVars, syncerLocal, subVars,
            boundVars
<1>1. CASE Tick
  <2>1. now' \in Heights
    BY <1>1, MaxHeightAssumption DEF Tick, Heights
  <2> QED
    BY <1>1, <2>1, Zenon DEF Tick
<1>2. CASE PeerConnects
  BY <1>2 DEF PeerConnects
<1>3. CASE AllPeersDisconnect
  <2>1. disconnects' \in 0..MaxDisconnects
    BY <1>3, SyncingAssumption DEF AllPeersDisconnect
  <2> QED
    BY <1>3, <2>1, Zenon DEF AllPeersDisconnect
<1>4. CASE GossipHeader
  <2>1. PICK h \in 1..now :
             /\ subHead' = h
             /\ subRx' = IF subOpen /\ Len(subRx) < SubCapacity THEN Append(subRx, h)
                         ELSE subRx
    BY <1>4 DEF GossipHeader
  <2>2. h \in Heights
    BY MaxHeightAssumption DEF Heights
  <2>3. subHead' \in 0..MaxHeight /\ subRx' \in Seq(Heights)
    BY <2>1, <2>2, OptionalHeights
  <2> QED
    BY <1>4, <2>3 DEF GossipHeader
<1>5. CASE DaserSamples
  BY <1>5 DEF DaserSamples, StoreMarkAsSampled
<1>6. CASE PrunerRemoves
  <2>1. PICK h \in stored : StoreRemoveHeight(h)
    BY <1>6 DEF PrunerRemoves
  <2>2. StoreTypeOK'
    BY <2>1 DEF StoreRemoveHeight
  <2> QED
    BY <1>6, <2>2 DEF PrunerRemoves
<1>7. CASE Restart
  <2>1. restarts' \in 0..MaxRestarts
    BY <1>7, SyncingAssumption DEF Restart
  <2>2. 0 \in 0..MaxHeight /\ {} \in SUBSET Heights /\ <<>> \in Seq(Heights)
    BY OptionalHeights
  <2>3. UNCHANGED <<stored, sampled, pruned, metadata, now, disconnects>>
        /\ spc' = "connecting" /\ subj' = 0 /\ slowSync' = 0 /\ ongoing' = {}
        /\ initHead' = 0 /\ sStored' = {} /\ nextBatch' = {}
        /\ subRx' = <<>> /\ subOpen' = FALSE /\ subHead' = 0
        /\ connected' = FALSE /\ lagged' = FALSE
    BY <1>7 DEF Restart
  <2> QED
    BY <2>1, <2>2, <2>3, Zenon
<1>8. CASE UNCHANGED vars
  BY <1>8 DEF vars
<1> QED
  BY <1>1, <1>2, <1>3, <1>4, <1>5, <1>6, <1>7, <1>8, Zenon DEF Environment

-----------------------------------------------------------------------------
(* SyncInv is kept                                                         *)

\* What others do while the Syncer is between two steps: the Pruner only moves
\* headers out of the store, and those it moves keep their neighbours or are
\* outside the sampling window.
LEMMA OthersKeepSync ==
    ASSUME Types, SyncInv, UNCHANGED <<spc, subj, ongoing, initHead, sStored, nextBatch>>,
           Had' = Had, pruned \subseteq pruned', now <= now', now' \in Nat,
           \A h \in pruned' \ pruned :
               h + SamplingWindow <= now \/ {h - 1, h + 1} \subseteq Had
    PROVE  SyncInv'
<1>1. \A h \in pruned' : h + SamplingWindow <= now' \/ {h - 1, h + 1} \subseteq Had'
  <2> SUFFICES ASSUME NEW h \in pruned', ~({h - 1, h + 1} \subseteq Had')
               PROVE  h + SamplingWindow <= now'
    OBVIOUS
  <2>1. h + SamplingWindow <= now
    BY DEF SyncInv
  <2>2. h \in Heights
    <3>1. h \in Had
      BY DEF Had
    <3> QED
      BY <3>1 DEF Had, Types, StoreTypeOK
  <2>3. h \in Int /\ SamplingWindow \in Int /\ now \in Int
    BY <2>2, SyncerAssumption, MaxHeightAssumption DEF Types, SyncerTypeOK, Heights
  <2> QED
    BY <2>1, <2>3
<1>2. spc' = "fetchPruned" => sStored' \cup pruned' = Had'
  <2> SUFFICES ASSUME spc = "fetchPruned" PROVE sStored' \cup pruned' = Had'
    OBVIOUS
  <2>1. sStored \cup pruned = Had /\ pruned' \subseteq Had'
    BY DEF SyncInv, Had
  <2> QED
    BY <2>1
<1>3. InConnectedLoop' <=> InConnectedLoop
  BY DEF InConnectedLoop
<1> QED
  BY <1>1, <1>2, <1>3 DEF SyncInv

\* The environment keeps SyncInv.
LEMMA EnvironmentSync ==
    ASSUME Types, Types', SyncInv, Environment \/ UNCHANGED vars
    PROVE  SyncInv'
<1>0. now \in Nat /\ now' \in Nat /\ now <= now /\ now <= now + 1
  BY MaxHeightAssumption DEF Types, SyncerTypeOK, Heights
<1>a. ASSUME UNCHANGED <<spc, subj, ongoing, initHead, sStored, nextBatch, stored, pruned>>,
             now <= now'
      PROVE  SyncInv'
  <2>1. Had' = Had /\ pruned \subseteq pruned' /\ pruned' \ pruned = {}
    BY <1>a DEF Had
  <2> QED
    BY <1>0, <1>a, <2>1, OthersKeepSync
<1> USE DEF storeVars, syncerVars, syncerLocal
<1>1. CASE Tick
  BY <1>0, <1>1, <1>a DEF Tick
<1>2. CASE PeerConnects
  BY <1>0, <1>2, <1>a DEF PeerConnects
<1>3. CASE AllPeersDisconnect
  BY <1>0, <1>3, <1>a DEF AllPeersDisconnect
<1>4. CASE GossipHeader
  BY <1>0, <1>4, <1>a DEF GossipHeader
<1>5. CASE DaserSamples
  BY <1>0, <1>5, <1>a DEF DaserSamples, StoreMarkAsSampled
<1>6. CASE PrunerRemoves
  <2>1. PICK h \in stored :
             Disposable(h, now, SamplingWindow, PruningWindow) /\ StoreRemoveHeight(h)
    BY <1>6 DEF PrunerRemoves
  <2>2. Had' = Had /\ pruned' = pruned \cup {h}
    BY <2>1 DEF StoreRemoveHeight, Had
  <2>3. h + SamplingWindow <= now \/ {h - 1, h + 1} \subseteq Had
    BY <2>1 DEF Disposable, Edges, Had
  <2>4. UNCHANGED <<spc, subj, ongoing, initHead, sStored, nextBatch, now>>
    BY <1>6 DEF PrunerRemoves
  <2> QED
    BY <1>0, <2>2, <2>3, <2>4, OthersKeepSync
<1>7. CASE Restart
  <2>1. UNCHANGED <<stored, pruned, now>> /\ spc' = "connecting"
        /\ ongoing' = {} /\ nextBatch' = {}
    BY <1>7 DEF Restart
  <2> QED
    BY <2>1 DEF SyncInv, InConnectedLoop, Had
<1>8. CASE UNCHANGED vars
  BY <1>0, <1>8, <1>a DEF vars
<1> QED
  BY <1>1, <1>2, <1>3, <1>4, <1>5, <1>6, <1>7, <1>8 DEF Environment

\* An insertion makes more headers known, so a batch under way is overtaken
\* or still continues what the node has.
LEMMA StaysUnderWay ==
    ASSUME NEW S \in SUBSET Heights, NEW b, UnderWay(b, S),
           NEW x \in Heights, x - 1 \in S
    PROVE  UnderWay(b, S \cup {x})
<1>1. PICK lo \in Heights, hi \in Heights :
           /\ lo <= hi
           /\ b = lo..hi
           /\ b \cap S # {} \/ (\A h \in S : h < lo) \/ hi + 1 \in S
  BY DEF UnderWay
<1>2. lo \in Int /\ hi \in Int /\ x \in Int
  BY MaxHeightAssumption DEF Heights
<1>3. b \cap (S \cup {x}) # {} \/ (\A h \in S \cup {x} : h < lo) \/ hi + 1 \in S \cup {x}
  <2>1. CASE b \cap S # {}
    BY <2>1
  <2>2. CASE hi + 1 \in S
    BY <2>2
  <2>3. CASE \A h \in S : h < lo
    <3>1. x - 1 < lo
      BY <2>3
    <3>2. CASE x = lo
      BY <1>1, <1>2, <3>2
    <3>3. CASE x # lo
      BY <1>2, <2>3, <3>1, <3>3
    <3> QED
      BY <3>2, <3>3
  <2> QED
    BY <1>1, <2>1, <2>2, <2>3
<1> QED
  BY <1>1, <1>3 DEF UnderWay

\* What the Pruner removed stays outside the window or keeps its neighbours.
LEMMA PrunedKeepsNeighbours ==
    ASSUME SyncInv, now' = now, pruned' \subseteq pruned, Had \subseteq Had'
    PROVE  \A h \in pruned' : h + SamplingWindow <= now' \/ {h - 1, h + 1} \subseteq Had'
  BY DEF SyncInv

\* The Syncer keeps SyncInv.
LEMMA SyncerSync ==
    ASSUME Types, Types', SyncInv, SyncerMoves
    PROVE  SyncInv'
<1>0. Had \in SUBSET Heights
  BY DEF Types, StoreTypeOK, Had
<1>a. ASSUME UNCHANGED <<stored, pruned, now>>
      PROVE  /\ Had' = Had
             /\ \A h \in pruned' : h + SamplingWindow <= now' \/ {h - 1, h + 1} \subseteq Had'
  BY <1>a DEF SyncInv, Had
<1>b. ASSUME NEW lo \in Heights, NEW hi \in Heights, StoreInsert(lo, hi), now' = now
      PROVE  /\ Had' = Had \cup (lo..hi)
             /\ \A h \in pruned' : h + SamplingWindow <= now' \/ {h - 1, h + 1} \subseteq Had'
  BY <1>b, InsertionGrows, PrunedKeepsNeighbours
<1> USE DEF storeVars, syncerLocal, InConnectedLoop
<1>1. CASE TryInitGetHead
  <2>1. initHead' \in Heights
    BY <1>1 DEF TryInitGetHead
  <2> QED
    BY <1>1, <1>a, <2>1 DEF TryInitGetHead, SyncInv
<1>2. CASE TryInitReadHead
  <2>1. initHead \in Heights /\ initHead # 0
    BY <1>2, MaxHeightAssumption DEF TryInitReadHead, SyncInv, Heights
  <2>2. spc' = "initialised" => initHead \in Had
    <3>1. stored \in SUBSET Heights /\ (HeadOf(stored) = initHead => stored # {})
      BY <2>1 DEF Types, StoreTypeOK, HeadOf
    <3>2. HeadOf(stored) = initHead => initHead \in stored
      BY <3>1, HeadOfHeights
    <3> QED
      BY <1>2, <3>2 DEF TryInitReadHead, Had
  <2> QED
    BY <1>2, <1>a, <2>1, <2>2 DEF TryInitReadHead, SyncInv
<1>3. CASE TryInitInsert
  <2>1. initHead \in Heights
    BY <1>3 DEF TryInitInsert, SyncInv
  <2>2. CASE InsertionConstraintsMet(initHead, initHead)
    <3>1. StoreInsert(initHead, initHead) /\ spc' = "initialised" /\ initHead' = initHead
          /\ UNCHANGED <<now, ongoing, nextBatch>> /\ spc = "insertHead"
      BY <1>3, <2>2 DEF TryInitInsert
    <3>2. initHead \in initHead..initHead
      BY <2>1, MaxHeightAssumption DEF Heights
    <3> QED
      BY <1>b, <2>1, <3>1, <3>2, Zenon DEF SyncInv
  <2>3. CASE ~InsertionConstraintsMet(initHead, initHead)
    BY <1>3, <1>a, <2>3 DEF TryInitInsert, SyncInv
  <2> QED
    BY <2>2, <2>3
<1>4. CASE TryInitDone
  <2>1. initHead \in Heights
    BY <1>4 DEF TryInitDone, SyncInv
  <2>2. subj' # 0
    BY <1>4, <2>1, MaxHeightAssumption
       DEF TryInitDone, SubjectiveHead, Types, SyncerTypeOK, Heights
  <2>3. UNCHANGED <<stored, pruned, now, ongoing, nextBatch>> /\ spc = "initialised"
        /\ spc' \in {"fetch", "connecting"}
    BY <1>4 DEF TryInitDone
  <2> QED
    BY <1>a, <2>2, <2>3 DEF SyncInv
<1>5. CASE FetchReadStored
  <2>1. sStored' = stored \/ spc' = "select"
    BY <1>5 DEF FetchReadStored
  <2>2. spc' = "fetchPruned" => sStored' \cup pruned' = Had' /\ ongoing' = {}
    BY <1>5 DEF FetchReadStored, Had
  <2> QED
    BY <1>5, <1>a, <2>2 DEF FetchReadStored, SyncInv
<1>6. CASE FetchReadPruned
  <2> DEFINE b == CalculateRangeToFetch(subj, Synced)
  <2>1. spc = "fetchPruned" /\ nextBatch' = b
        /\ UNCHANGED <<stored, pruned, now, subj, ongoing, initHead>>
        /\ spc' \in {"select", "fetchSampled", "fetchWindow"}
        /\ (spc' = "select" <=> b = {})
    BY <1>6 DEF FetchReadPruned
  <2>2. b # {} => Fetchable(b, Had)
    BY <2>1, NextBatch
  <2> HIDE DEF b
  <2> QED
    BY <1>a, <2>1, <2>2 DEF SyncInv
<1>7. CASE FetchReadSampled
  BY <1>7, <1>a DEF FetchReadSampled, SyncInv
<1>8. CASE FetchStart
  <2>1. Fetchable(nextBatch, Had) /\ spc = "fetchWindow" /\ spc' = "select"
        /\ ongoing' \in {{}, nextBatch} /\ nextBatch' = {}
        /\ UNCHANGED <<stored, pruned, now, subj, initHead>>
    BY <1>8 DEF FetchStart, SyncInv
  <2>2. UnderWay(nextBatch, Had)
    BY <2>1, FetchableEnds
  <2> QED
    BY <1>a, <2>1, <2>2 DEF SyncInv
<1>9. CASE AllPeersGone
  BY <1>9, <1>a DEF AllPeersGone, SyncInv
<1>10. CASE OnHeaderSub
  <2>1. Head(subRx) \in Heights
    <3>1. subRx \in Seq(Heights) /\ subRx # <<>>
      BY <1>10, Zenon DEF OnHeaderSub, Types, SyncerTypeOK
    <3> QED
      BY <3>1
  <2>2. subj' # 0
    BY <1>10, <2>1, MaxHeightAssumption
       DEF OnHeaderSub, SubjectiveHead, Types, SyncerTypeOK, Heights
  <2>3. spc' = "insertSub" => initHead' \in Heights /\ initHead' - 1 \in Had
    <3> SUFFICES ASSUME spc' = "insertSub" PROVE initHead' \in Heights /\ initHead' - 1 \in Had
      OBVIOUS
    <3>1. stored # {} /\ HeadOf(stored) + 1 = initHead' /\ initHead' \in Heights
      BY <1>10, <2>1 DEF OnHeaderSub
    <3>2. HeadOf(stored) \in stored /\ stored \in SUBSET Heights
      BY <3>1, HeadOfHeights DEF Types, StoreTypeOK
    <3>3. HeadOf(stored) \in Int
      <4>1. HeadOf(stored) \in Heights
        BY <3>2
      <4> QED
        BY <4>1, MaxHeightAssumption DEF Heights
    <3>4. initHead' - 1 = HeadOf(stored)
      BY <3>1, <3>3
    <3> QED
      BY <3>1, <3>2, <3>4 DEF Had
  <2>4. UNCHANGED <<stored, pruned, now, ongoing, nextBatch>> /\ spc = "select"
        /\ spc' \in {"insertSub", "fetch"}
    BY <1>10 DEF OnHeaderSub
  <2> QED
    BY <1>a, <2>2, <2>3, <2>4 DEF SyncInv
<1>11. CASE InsertFromHeaderSub
  <2>1. initHead \in Heights /\ initHead - 1 \in Had
    BY <1>11 DEF InsertFromHeaderSub, SyncInv
  <2>2. UNCHANGED <<now, subj, ongoing, nextBatch>> /\ spc = "insertSub" /\ spc' = "fetch"
    BY <1>11 DEF InsertFromHeaderSub
  <2>3. CASE InsertionConstraintsMet(initHead, initHead)
    <3>1. StoreInsert(initHead, initHead)
      BY <1>11, <2>3 DEF InsertFromHeaderSub, AnnounceInsert
    <3>2. initHead..initHead = {initHead}
      BY <2>1, MaxHeightAssumption DEF Heights
    <3>3. Had' = Had \cup {initHead}
      BY <1>b, <2>1, <2>2, <3>1, <3>2, Zenon
    <3>4. ongoing' # {} => UnderWay(ongoing', Had')
      BY <1>0, <2>1, <2>2, <3>3, StaysUnderWay DEF SyncInv
    <3> QED
      BY <1>b, <2>1, <2>2, <3>1, <3>4, Zenon DEF SyncInv
  <2>4. CASE ~InsertionConstraintsMet(initHead, initHead)
    <3>1. UNCHANGED <<stored, pruned>>
      BY <1>11, <2>4 DEF InsertFromHeaderSub, AnnounceInsert
    <3> QED
      BY <1>a, <2>2, <3>1 DEF SyncInv
  <2> QED
    BY <2>3, <2>4
<1>12. CASE OnFetchResult
  <2>1. UNCHANGED <<now, subj, nextBatch>> /\ spc = "select" /\ spc' = "fetch" /\ ongoing' = {}
    BY <1>12 DEF OnFetchResult
  <2>2. Min(ongoing) \in Heights /\ Max(ongoing) \in Heights
    BY <1>12, UnderWayEnds DEF OnFetchResult, SyncInv
  <2>3. \A h \in pruned' : h + SamplingWindow <= now' \/ {h - 1, h + 1} \subseteq Had'
    <3>1. StoreInsert(Min(ongoing), Max(ongoing)) \/ UNCHANGED <<stored, pruned>>
      BY <1>12 DEF OnFetchResult, AnnounceInsert
    <3> QED
      BY <1>a, <1>b, <2>1, <2>2, <3>1
  <2> QED
    BY <2>1, <2>3 DEF SyncInv
<1>13. CASE OnFetchError
  BY <1>13, <1>a DEF OnFetchError, SyncInv
<1> QED
  BY <1>1, <1>2, <1>3, <1>4, <1>5, <1>6, <1>7, <1>8, <1>9, <1>10, <1>11, <1>12, <1>13
     DEF SyncerMoves, SyncerStep

\* Between any two of its steps, the Syncer can rely on what it has read: the
\* invariant behind the theorems on batches.
THEOREM SyncInvariant == Spec => [](Types /\ SyncInv)
<1>1. Init => Types /\ SyncInv
  <2> SUFFICES ASSUME Init PROVE Types /\ SyncInv
    OBVIOUS
  <2>1. Types
    <3>1. /\ {} \in SUBSET Heights /\ <<>> \in Seq(Heights)
          /\ [h \in Heights |-> {}] \in [Heights -> SUBSET Cids]
      OBVIOUS
    <3>2. 0 \in 0..MaxDisconnects /\ 0 \in 0..MaxRestarts /\ StartTime \in Heights
      BY SyncingAssumption DEF Heights
    <3> QED
      BY <3>1, <3>2, OptionalHeights, Zenon
         DEF Init, StoreInit, SyncerInit, Types, StoreTypeOK, SyncerTypeOK
  <2>2. SyncInv
    BY Zenon DEF Init, StoreInit, SyncerInit, SyncInv, InConnectedLoop, Had
  <2> QED
    BY <2>1, <2>2
<1>2. Types /\ SyncInv /\ [Next]_vars => Types' /\ SyncInv'
  BY SyncerTypes, EnvironmentTypes, SyncerSync, EnvironmentSync DEF Next
<1> QED
  BY <1>1, <1>2, PTL DEF Spec

\* A batch that fetch_next_batch starts holds no header that the node has or
\* that the Pruner removed, though the two range tables are read one after
\* the other and the Pruner moves headers between them.
THEOREM BatchIsNew == Spec => NoRefetch
<1>1. Types /\ SyncInv /\ [Next]_vars
        => [ongoing' # {} /\ ongoing = {} => ongoing' \cap Had = {}]_vars
  <2> SUFFICES ASSUME SyncInv, Next, ongoing' # {}, ongoing = {}
               PROVE  ongoing' \cap Had = {}
    OBVIOUS
  <2>1. FetchStart
    BY Zenon DEF Next, Environment, Tick, PeerConnects, AllPeersDisconnect, GossipHeader,
           DaserSamples, PrunerRemoves, Restart, SyncerMoves, SyncerStep, TryInitGetHead,
           TryInitReadHead, TryInitInsert, TryInitDone, FetchReadStored, FetchReadPruned,
           FetchReadSampled, AllPeersGone, OnHeaderSub, InsertFromHeaderSub, OnFetchResult,
           OnFetchError, syncerVars, syncerLocal
  <2>2. ongoing' = nextBatch /\ Fetchable(nextBatch, Had)
    BY <2>1 DEF FetchStart, SyncInv
  <2> QED
    BY <2>2, FetchableEnds
<1> QED
  BY <1>1, SyncInvariant, PTL DEF Spec, NoRefetch

\* The Pruner never takes away the stored neighbour a batch under way needs
\* to be inserted, unless it left the sampling window.
THEOREM BatchKeepsNeighbour == Spec => []BatchIsNotOrphaned
<1>1. Types /\ SyncInv => BatchIsNotOrphaned
  <2> SUFFICES ASSUME Types, SyncInv, ongoing # {}, ongoing \cap Had = {},
                      InWindow(Max(ongoing) + 1)
               PROVE  InsertionConstraintsMet(Min(ongoing), Max(ongoing))
    BY DEF BatchIsNotOrphaned
  <2> DEFINE lo == Min(ongoing)
             hi == Max(ongoing)
  <2>1. lo \in Heights /\ hi \in Heights /\ lo <= hi /\ ongoing = lo..hi
        /\ ((\A h \in Had : h < lo) \/ hi + 1 \in Had)
    BY UnderWayEnds DEF SyncInv
  <2> HIDE DEF lo, hi
  <2>2. lo \in Int /\ hi \in Int /\ now \in Int /\ SamplingWindow \in Int
    BY <2>1, SyncerAssumption, MaxHeightAssumption DEF Types, SyncerTypeOK, Heights
  <2>3. hi + 1 \notin pruned
    <3> SUFFICES ASSUME hi + 1 \in pruned PROVE FALSE
      OBVIOUS
    <3>1. hi + 1 + SamplingWindow <= now \/ (hi + 1) - 1 \in Had
      BY DEF SyncInv
    <3>2. ~(hi + 1 + SamplingWindow <= now)
      BY <2>2 DEF InWindow, hi
    <3>3. (hi + 1) - 1 = hi /\ hi \in lo..hi
      BY <2>1, <2>2
    <3> QED
      BY <2>1, <3>1, <3>2, <3>3
  <2>4. (lo..hi) \cap stored = {} /\ stored \subseteq Had
    BY <2>1 DEF Had
  <2>5. (\A h \in stored : h < lo) \/ hi + 1 \in stored
    BY <2>1, <2>3 DEF Had
  <2>6. InsertionConstraintsMet(lo, hi)
    BY <2>1, <2>4, <2>5 DEF InsertionConstraintsMet
  <2> QED
    BY <2>6 DEF lo, hi
<1> QED
  BY <1>1, SyncInvariant, PTL

-----------------------------------------------------------------------------
(* What announcing does to the stream                                      *)

StreamState == [last : 0..MaxHeight, pending : Seq(HeightRanges), stream : Seq(Heights)]

\* A stream that was started, contiguous up to its last height.
Sound(s) ==
    /\ s \in StreamState
    /\ \A i \in 1..Len(s.pending) : s.pending[i].lo <= s.pending[i].hi
    /\ Contiguous(s.stream)
    /\ s.stream # <<>>
    /\ s.last = s.stream[Len(s.stream)]

\* The heights of S above the last announced one are pending, in ranges that do
\* not overlap unless they end at the same height.
Covers(s, S) ==
    /\ s.last \in S
    /\ \A h \in S : h > s.last =>
          \E i \in 1..Len(s.pending) :
              s.last < s.pending[i].lo /\ h \in s.pending[i].lo..s.pending[i].hi
    /\ \A i \in 1..Len(s.pending) : s.pending[i].lo..s.pending[i].hi \subseteq S
    /\ \A i, j \in 1..Len(s.pending) :
          s.pending[i].hi < s.pending[j].hi => s.pending[i].hi < s.pending[j].lo

\* The heights of a range.
LEMMA HeightsOfRange ==
    ASSUME NEW r \in HeightRanges, r.lo <= r.hi, NEW k, k = r.hi - r.lo + 1
    PROVE  /\ r.lo \in Int /\ k \in Nat /\ k >= 1 /\ r.lo + k - 1 = r.hi
           /\ HeightsOf(r) \in Seq(Heights) /\ Len(HeightsOf(r)) = k
           /\ \A i \in 1..k : HeightsOf(r)[i] = r.lo + i - 1
<1>1. r.lo \in Int /\ r.hi \in Int /\ 1 <= r.lo /\ r.hi <= MaxHeight
  BY MaxHeightAssumption DEF Heights, HeightRanges
<1>2. k \in Nat /\ k >= 1 /\ r.lo + k - 1 = r.hi
  BY <1>1
<1>3. \A i \in 1..k : r.lo + i - 1 \in Heights
  BY <1>1, <1>2, MaxHeightAssumption DEF Heights
<1>4. HeightsOf(r) = [i \in 1..k |-> r.lo + i - 1]
  BY DEF HeightsOf
<1> DEFINE f(i) == r.lo + i - 1
<1>5. HeightsOf(r) = [i \in 1..k |-> f(i)] /\ \A i \in 1..k : f(i) \in Heights
  BY <1>3, <1>4
<1> HIDE DEF f
<1>6. HeightsOf(r) \in Seq(Heights) /\ Len(HeightsOf(r)) = k
  BY <1>2, <1>5
<1>7. \A i \in 1..k : HeightsOf(r)[i] = r.lo + i - 1
  BY <1>4
<1> QED
  BY <1>1, <1>2, <1>6, <1>7

\* Appending the heights that follow keeps a sequence of heights contiguous.
LEMMA ContiguousConcat ==
    ASSUME NEW p \in Seq(Heights), p # <<>>, Contiguous(p),
           NEW lo \in Int, lo = p[Len(p)] + 1,
           NEW q \in Seq(Heights), Len(q) >= 1,
           \A i \in 1..Len(q) : q[i] = lo + i - 1,
           NEW u, u = p \o q
    PROVE  /\ u \in Seq(Heights) /\ u # <<>> /\ u[Len(u)] = lo + Len(q) - 1
           /\ Contiguous(u)
<1>1. u \in Seq(Heights) /\ Len(u) = Len(p) + Len(q)
  OBVIOUS
<1>2. Len(p) \in Nat /\ Len(p) >= 1 /\ p[Len(p)] \in Heights
  OBVIOUS
<1>3. \A i \in 1..Len(p) : u[i] = p[i]
  OBVIOUS
<1>4. \A i \in 1..Len(q) : u[Len(p) + i] = q[i]
  OBVIOUS
<1>5. \A i \in 1..Len(q) : u[Len(p) + i] = lo + i - 1
  BY <1>4
<1>6. p[Len(p)] \in Int /\ Len(q) \in Nat
  <2>1. Heights \subseteq Int
    BY MaxHeightAssumption DEF Heights
  <2>2. p[Len(p)] \in Int
    BY <1>2, <2>1, Zenon
  <2>3. Len(q) \in Nat
    OBVIOUS
  <2> QED
    BY <2>2, <2>3
<1>7. ASSUME NEW i \in 1..(Len(u) - 1) PROVE u[i + 1] = u[i] + 1
  <2>0. Len(u) - 1 = Len(p) + Len(q) - 1
    BY <1>1, <1>2, <1>6
  <2>1. CASE i < Len(p)
    <3>1. i \in 1..Len(p) /\ i + 1 \in 1..Len(p) /\ i \in 1..(Len(p) - 1)
      BY <1>2, <2>1
    <3> QED
      BY <1>3, <3>1 DEF Contiguous
  <2>2. CASE i = Len(p)
    <3>1. Len(p) \in 1..Len(p) /\ 1 \in 1..Len(q)
      BY <1>2, <1>6
    <3>2. u[Len(p)] = p[Len(p)] /\ u[Len(p) + 1] = lo + 1 - 1
      BY <1>3, <1>5, <3>1
    <3> QED
      BY <2>2, <3>2, <1>6
  <2>3. CASE i > Len(p)
    <3>1. /\ i - Len(p) \in 1..Len(q) /\ Len(p) + (i - Len(p)) = i
          /\ i + 1 - Len(p) \in 1..Len(q) /\ Len(p) + (i + 1 - Len(p)) = i + 1
      BY <2>0, <2>3, <1>2, <1>6
    <3>2. u[i] = lo + (i - Len(p)) - 1 /\ u[i + 1] = lo + (i + 1 - Len(p)) - 1
      BY <3>1, <1>5
    <3> QED
      BY <3>2, <1>2
  <2> QED
    BY <2>0, <2>1, <2>2, <2>3, <1>2, <1>6
<1>8. Len(q) \in 1..Len(q)
  BY <1>6
<1>9. u[Len(u)] = lo + Len(q) - 1
  BY <1>1, <1>5, <1>8
<1>10. u # <<>>
  BY <1>1, <1>2, <1>6
<1> QED
  BY <1>1, <1>7, <1>9, <1>10 DEF Contiguous

\* send_range continues the stream.
LEMMA SendIsSound ==
    ASSUME NEW s, Sound(s), NEW r \in HeightRanges, r.lo = s.last + 1, r.lo <= r.hi,
           NEW u, u = SendRange(s, r)
    PROVE  Sound(u) /\ u.last = r.hi /\ u.pending = s.pending
<1>1. /\ s \in StreamState /\ s.stream \in Seq(Heights) /\ s.last \in 0..MaxHeight
      /\ s.pending \in Seq(HeightRanges)
      /\ \A i \in 1..Len(s.pending) : s.pending[i].lo <= s.pending[i].hi
      /\ Contiguous(s.stream)
      /\ s.stream # <<>> /\ s.last = s.stream[Len(s.stream)]
  BY Zenon DEF Sound, StreamState
<1>2. r.lo \in Heights /\ r.hi \in Heights
  BY DEF HeightRanges
<1> DEFINE q == HeightsOf(r)
           st == s.stream \o q
<1>3. /\ r.lo \in Int /\ r.hi - r.lo + 1 \in Nat /\ r.hi - r.lo + 1 >= 1
      /\ r.lo + (r.hi - r.lo + 1) - 1 = r.hi
      /\ q \in Seq(Heights) /\ Len(q) = r.hi - r.lo + 1
      /\ \A i \in 1..(r.hi - r.lo + 1) : q[i] = r.lo + i - 1
  BY HeightsOfRange, Zenon
<1> HIDE DEF q
<1>4. /\ q \in Seq(Heights) /\ Len(q) >= 1 /\ r.lo + Len(q) - 1 = r.hi
      /\ \A i \in 1..Len(q) : q[i] = r.lo + i - 1
  BY <1>3, Zenon
<1>5. r.lo = s.stream[Len(s.stream)] + 1
  BY <1>1, Zenon
<1>6. /\ st \in Seq(Heights) /\ st # <<>> /\ st[Len(st)] = r.lo + Len(q) - 1
      /\ Contiguous(st)
  BY <1>1, <1>3, <1>4, <1>5, ContiguousConcat, Zenon
<1>7. u = [s EXCEPT !.last = r.hi, !.stream = st]
  BY DEF SendRange, q
<1> HIDE DEF st
<1>8. u.last = r.hi /\ u.pending = s.pending /\ u.stream = st /\ u \in StreamState
  <2>1. r.hi \in 0..MaxHeight
    BY <1>2, OptionalHeights, Zenon
  <2> QED
    BY <1>1, <1>6, <1>7, <2>1, Zenon DEF StreamState
<1>9. u.last = u.stream[Len(u.stream)]
  BY <1>4, <1>6, <1>8, Zenon
<1> QED
  BY <1>1, <1>6, <1>8, <1>9, Zenon DEF Sound

Elements(q) == {q[i] : i \in 1..Len(q)}

\* Vec::swap_remove takes out one element and keeps the others.
LEMMA SwapRemoveKeeps ==
    ASSUME NEW q \in Seq(HeightRanges), NEW i \in 1..Len(q), NEW u, u = SwapRemove(q, i)
    PROVE  /\ u \in Seq(HeightRanges)
           /\ Elements(u) \subseteq Elements(q)
           /\ Elements(q) \ {q[i]} \subseteq Elements(u)
<1> DEFINE n == Len(q)
<1>1. n \in Nat /\ n >= 1 /\ i \in 1..n /\ n \in 1..n
  OBVIOUS
<1>2. u = [j \in 1..(n - 1) |-> IF j = i THEN q[n] ELSE q[j]]
  BY DEF SwapRemove
<1>3. \A j \in 1..(n - 1) : (IF j = i THEN q[n] ELSE q[j]) \in HeightRanges
  BY <1>1
<1> HIDE DEF n
<1>4. u \in Seq(HeightRanges) /\ Len(u) = n - 1
  BY <1>1, <1>2, <1>3
<1>5. \A j \in 1..(n - 1) : \E k \in 1..n : u[j] = q[k]
  <2> SUFFICES ASSUME NEW j \in 1..(n - 1) PROVE \E k \in 1..n : u[j] = q[k]
    OBVIOUS
  <2>1. u[j] = q[n] \/ u[j] = q[j]
    BY <1>2
  <2>2. j \in 1..n
    BY <1>1
  <2> QED
    BY <1>1, <2>1, <2>2
<1>6. ASSUME NEW k \in 1..n, k # i PROVE \E j \in 1..(n - 1) : u[j] = q[k]
  <2>1. CASE k = n
    <3>1. i \in 1..(n - 1)
      BY <1>1, <1>6, <2>1
    <3>2. u[i] = q[n]
      BY <1>2, <3>1
    <3> QED
      BY <2>1, <3>1, <3>2
  <2>2. CASE k # n
    <3>1. k \in 1..(n - 1)
      BY <1>1, <2>2
    <3>2. u[k] = q[k]
      BY <1>2, <1>6, <3>1
    <3> QED
      BY <3>1, <3>2
  <2> QED
    BY <2>1, <2>2
<1>7. Elements(u) \subseteq Elements(q)
  BY <1>4, <1>5, Zenon DEF Elements, n
<1>8. Elements(q) \ {q[i]} \subseteq Elements(u)
  <2> SUFFICES ASSUME NEW k \in 1..n, q[k] # q[i] PROVE q[k] \in Elements(u)
    BY DEF Elements, n
  <2>1. k # i
    OBVIOUS
  <2> QED
    BY <1>4, <1>6, <2>1 DEF Elements
<1> QED
  BY <1>4, <1>7, <1>8

\* One round of the loop over `pending` announces a range that follows.
LEMMA AnnounceOneStep ==
    ASSUME NEW s, Sound(s), NEW u, u = AnnounceOne(s)
    PROVE  /\ Sound(u)
           /\ \/ u = s
              \/ \E i \in 1..Len(s.pending) :
                    /\ s.pending[i].lo = s.last + 1
                    /\ u.last = s.pending[i].hi
                    /\ u.pending = SwapRemove(s.pending, i)
<1> DEFINE ready == {i \in 1..Len(s.pending) : Follows(s.last, s.pending[i])}
<1>1. /\ s \in StreamState /\ s.pending \in Seq(HeightRanges)
      /\ \A i \in 1..Len(s.pending) : s.pending[i].lo <= s.pending[i].hi
  BY DEF Sound, StreamState
<1>2. CASE ready = {}
  BY <1>2 DEF AnnounceOne
<1>3. CASE ready # {}
  <2> DEFINE i == Min(ready)
             v == [s EXCEPT !.pending = SwapRemove(s.pending, i)]
  <2>1. Len(s.pending) \in Nat /\ ready \in SUBSET (1..Len(s.pending))
    BY <1>1
  <2>2. i \in ready
    <3> HIDE DEF ready
    <3> QED
      BY <1>3, <2>1, MinOfInterval, Zenon
  <2>3. u = SendRange(v, s.pending[i])
    BY <1>3 DEF AnnounceOne
  <2>4. i \in 1..Len(s.pending) /\ s.pending[i].lo = s.last + 1
    BY <2>2, Zenon DEF Follows
  <2> HIDE DEF i, ready
  <2> DEFINE w == SwapRemove(s.pending, i)
  <2>5. /\ w \in Seq(HeightRanges)
        /\ \A j \in 1..Len(w) : \E k \in 1..Len(s.pending) : w[j] = s.pending[k]
    <3>1. w \in Seq(HeightRanges) /\ Elements(w) \subseteq Elements(s.pending)
      BY <1>1, <2>4, SwapRemoveKeeps, Zenon
    <3> QED
      BY <3>1, Zenon DEF Elements
  <2> HIDE DEF w
  <2>6. /\ v.last = s.last /\ v.pending = w /\ v.stream = s.stream
        /\ v \in StreamState
    BY <1>1, <2>5, Zenon DEF StreamState, w
  <2>7. \A j \in 1..Len(w) : w[j].lo <= w[j].hi
    BY <1>1, <2>5, Zenon
  <2> HIDE DEF v
  <2>8. Sound(v)
    BY <2>6, <2>7, Zenon DEF Sound
  <2>9. s.pending[i] \in HeightRanges /\ s.pending[i].lo <= s.pending[i].hi
    BY <1>1, <2>4, Members, Zenon
  <2>10. Sound(u) /\ u.last = s.pending[i].hi /\ u.pending = v.pending
    BY <2>3, <2>4, <2>6, <2>8, <2>9, SendIsSound, Zenon
  <2> QED
    BY <2>4, <2>6, <2>10, Zenon DEF w
<1> QED
  BY <1>2, <1>3, Zenon

\* ... and what is above the new last height is still pending.
LEMMA AnnounceOneCovers ==
    ASSUME NEW s, Sound(s), NEW S \in SUBSET Heights, Covers(s, S), NEW u, u = AnnounceOne(s)
    PROVE  Covers(u, S)
<1>1. CASE u = s
  BY <1>1
<1>2. ASSUME NEW i \in 1..Len(s.pending),
             s.pending[i].lo = s.last + 1, u.last = s.pending[i].hi,
             u.pending = SwapRemove(s.pending, i)
      PROVE  Covers(u, S)
  <2> DEFINE p == s.pending
             w == u.pending
  <2>1. /\ p \in Seq(HeightRanges) /\ s.last \in 0..MaxHeight
        /\ \A j \in 1..Len(p) : p[j].lo <= p[j].hi
    BY Zenon DEF Sound, StreamState
  <2>2. /\ s.last \in S
        /\ \A h \in S : h > s.last =>
              \E j \in 1..Len(p) : s.last < p[j].lo /\ h \in p[j].lo..p[j].hi
        /\ \A j \in 1..Len(p) : p[j].lo..p[j].hi \subseteq S
        /\ \A j, k \in 1..Len(p) : p[j].hi < p[k].hi => p[j].hi < p[k].lo
    BY Zenon DEF Covers
  <2>3. /\ \A j \in 1..Len(w) : \E k \in 1..Len(p) : w[j] = p[k]
        /\ \A k \in 1..Len(p) : p[k] # p[i] => \E j \in 1..Len(w) : w[j] = p[k]
    <3>1. w = SwapRemove(p, i) /\ i \in 1..Len(p)
      BY <1>2, Zenon
    <3> HIDE DEF p, w
    <3>2. Elements(w) \subseteq Elements(p) /\ Elements(p) \ {p[i]} \subseteq Elements(w)
      BY <2>1, <3>1, SwapRemoveKeeps, Zenon
    <3> QED
      BY <3>2, Zenon DEF Elements
  <2>4. \A j \in 1..Len(p) : p[j].lo \in Int /\ p[j].hi \in Int
    <3>1. \A j \in 1..Len(p) : p[j] \in HeightRanges
      BY <2>1, Members, Zenon
    <3>2. \A r \in HeightRanges : r.lo \in Int /\ r.hi \in Int
      BY HeightsAreInts, Zenon DEF HeightRanges
    <3> QED
      BY <3>1, <3>2, Zenon
  <2>5. s.last \in Int /\ p[i].lo = s.last + 1
    BY <1>2, <2>1, HeightsAreInts, Zenon
  <2>6. u.last = p[i].hi /\ i \in 1..Len(p)
    BY <1>2, Zenon
  <2> HIDE DEF p, w
  <2>7. u.last \in S
    <3>1. p[i].hi \in p[i].lo..p[i].hi
      BY <2>1, <2>4, <2>6, Endpoints, Zenon
    <3> QED
      BY <2>2, <2>6, <3>1, Zenon
  <2>8. ASSUME NEW h \in S, h > u.last
        PROVE  \E j \in 1..Len(w) : u.last < w[j].lo /\ h \in w[j].lo..w[j].hi
    <3>0. h \in Int
      BY HeightsAreInts, Zenon
    <3>1. p[i].lo \in Int /\ p[i].hi \in Int /\ p[i].lo <= p[i].hi /\ p[i].hi < h
      <4>1. p[i].lo \in Int /\ p[i].hi \in Int /\ p[i].lo <= p[i].hi /\ h > p[i].hi
        BY <2>1, <2>4, <2>6, <2>8, Zenon
      <4> QED
        BY <3>0, <4>1, Zenon
    <3>2. h > s.last
      <4>1. PICK a \in Int, b \in Int, c \in Int :
                a = p[i].lo /\ b = p[i].hi /\ c = s.last /\ a <= b /\ b < h /\ a = c + 1
        BY <2>5, <3>1, Zenon
      <4> QED
        BY <3>0, <4>1
    <3>3. PICK k \in 1..Len(p) : s.last < p[k].lo /\ h \in p[k].lo..p[k].hi
      BY <2>2, <3>2, Zenon
    <3>4. p[i].hi < p[k].hi
      <4>1. h \in Int /\ h <= p[k].hi /\ p[k].hi \in Int
        BY <2>4, <3>3, Between, Zenon
      <4> QED
        BY <3>1, <4>1, Less, Zenon
    <3>5. p[i].hi < p[k].lo /\ p[k] # p[i]
      <4>1. p[i].hi < p[k].lo
        BY <2>2, <2>6, <3>4, Zenon
      <4>2. p[i].hi # p[k].hi
        BY <2>4, <3>1, <3>4, Less, Endpoints
      <4> QED
        BY <4>1, <4>2, Zenon
    <3>6. PICK j \in 1..Len(w) : w[j] = p[k]
      BY <2>3, <3>5, Zenon
    <3> QED
      BY <2>6, <3>3, <3>5, <3>6, Zenon
  <2>9. \A j \in 1..Len(w) : w[j].lo..w[j].hi \subseteq S
    BY <2>2, <2>3, Zenon
  <2>10. \A j, k \in 1..Len(w) : w[j].hi < w[k].hi => w[j].hi < w[k].lo
    BY <2>2, <2>3, Zenon
  <2> QED
    BY <2>7, <2>8, <2>9, <2>10, Zenon DEF Covers, w
<1> QED
  BY <1>1, <1>2, AnnounceOneStep, Zenon

\* The rounds of the loop over `pending`.
LEMMA RoundsExist ==
    ASSUME NEW s, NEW L \in Nat
    PROVE  \E g : g = [n \in 0..L |-> IF n = 0 THEN s ELSE AnnounceOne(g[n - 1])]
<1> DEFINE F(g, k) == [n \in 0..k |-> IF n = 0 THEN s ELSE AnnounceOne(g[n - 1])]
           P == {k \in 0..L : \E g : g = F(g, k)}
<1>1. 0 \in P
  <2> DEFINE g == [n \in 0..0 |-> s]
  <2>1. g = F(g, 0)
    OBVIOUS
  <2>2. 0 \in 0..L
    OBVIOUS
  <2> QED
    BY <2>1, <2>2, Zenon
<1>2. ASSUME NEW k \in 0..(L - 1), k \in P PROVE k + 1 \in P
  <2>1. PICK g : g = F(g, k)
    BY <1>2
  <2> DEFINE f == [n \in 0..(k + 1) |-> IF n <= k THEN g[n] ELSE AnnounceOne(g[k])]
  <2>2. \A n \in 0..k : g[n] = IF n = 0 THEN s ELSE AnnounceOne(g[n - 1])
    BY <2>1
  <2>3. k \in Nat /\ k + 1 \in 0..L
    OBVIOUS
  <2>4. ASSUME NEW n \in 0..(k + 1)
        PROVE  f[n] = IF n = 0 THEN s ELSE AnnounceOne(f[n - 1])
    <3>1. CASE n = 0
      BY <2>2, <2>3, <3>1
    <3>2. CASE n # 0 /\ n <= k
      <4>1. n - 1 \in 0..k /\ n - 1 \in 0..(k + 1) /\ n - 1 <= k /\ n \in 0..k
        BY <2>3, <3>2
      <4>2. f[n] = g[n] /\ f[n - 1] = g[n - 1]
        BY <3>2, <4>1
      <4> QED
        BY <2>2, <3>2, <4>1, <4>2
    <3>3. CASE n # 0 /\ ~(n <= k)
      <4>1. n - 1 = k /\ k \in 0..(k + 1) /\ k <= k /\ n # 0
        BY <2>3, <3>3
      <4>2. f[n] = AnnounceOne(g[k]) /\ f[k] = g[k]
        BY <3>3, <4>1
      <4> QED
        BY <4>1, <4>2
    <3> QED
      BY <3>1, <3>2, <3>3, Zenon
  <2>5. f = F(f, k + 1)
    <3>1. f = [n \in 0..(k + 1) |-> f[n]]
      OBVIOUS
    <3> HIDE DEF f
    <3> QED
      BY <2>4, <3>1, Zenon
  <2> QED
    BY <2>3, <2>5, Zenon
<1>3. 0..L \subseteq P
  <2> HIDE DEF P
  <2> QED
    BY <1>1, <1>2, BoundedInduction
<1>4. L \in P
  BY <1>3
<1> QED
  BY <1>4

\* The whole loop keeps the stream sound, and announces or keeps what is above.
LEMMA AnnouncePendingKeeps ==
    ASSUME NEW s, Sound(s), NEW S \in SUBSET Heights, NEW u, u = AnnouncePending(s)
    PROVE  Sound(u) /\ (Covers(s, S) => Covers(u, S))
<1> DEFINE L == Len(s.pending)
           F(g) == [n \in 0..L |-> IF n = 0 THEN s ELSE AnnounceOne(g[n - 1])]
           after == CHOOSE g : g = F(g)
           P == {n \in 0..L : Sound(after[n]) /\ (Covers(s, S) => Covers(after[n], S))}
<1>1. L \in Nat
  BY Members, Zenon DEF Sound, StreamState
<1>2. u = after[L]
  BY Zenon DEF AnnouncePending
<1>3. after = F(after)
  <2>1. \E g : g = F(g)
    BY <1>1, RoundsExist, Zenon
  <2> HIDE DEF F
  <2> QED
    BY <2>1
<1> HIDE DEF L, after
<1>4. \A n \in 0..L : after[n] = IF n = 0 THEN s ELSE AnnounceOne(after[n - 1])
  BY <1>3, Zenon
<1>5. 0 \in P
  BY <1>1, <1>4
<1>6. ASSUME NEW k \in 0..(L - 1), k \in P PROVE k + 1 \in P
  <2>1. k + 1 \in 0..L /\ k + 1 # 0 /\ (k + 1) - 1 = k
    BY <1>1
  <2>2. after[k + 1] = AnnounceOne(after[k])
    BY <1>4, <2>1
  <2>3. Sound(after[k]) /\ (Covers(s, S) => Covers(after[k], S))
    BY <1>6
  <2>4. Sound(after[k + 1])
    BY <2>2, <2>3, AnnounceOneStep, Zenon
  <2>5. Covers(s, S) => Covers(after[k + 1], S)
    BY <2>2, <2>3, AnnounceOneCovers
  <2> QED
    BY <2>1, <2>4, <2>5
<1>7. 0..L \subseteq P
  <2> HIDE DEF P
  <2> QED
    BY <1>1, <1>5, <1>6, BoundedInduction
<1>8. L \in P
  BY <1>1, <1>7
<1> QED
  BY <1>2, <1>8

-----------------------------------------------------------------------------
(* The stream of the subscribers                                           *)

\* The stream as it is.
StreamNow == [last |-> lastSent, pending |-> pending, stream |-> stream]

\* StreamInv says that a stream that was started is sound.
LEMMA StreamNowSound ==
    ASSUME StreamInv, lastSent # 0
    PROVE  Sound(StreamNow)
  BY Zenon DEF StreamInv, BroadcastTypeOK, Sound, StreamState, StreamNow

\* ... and the other way round, as it is used: of the state after a step.
LEMMA SoundStreamInv ==
    ASSUME Sound(StreamNow')
    PROVE  StreamInv'
<1>1. /\ BroadcastTypeOK'
      /\ \A i \in 1..Len(pending') : pending'[i].lo <= pending'[i].hi
      /\ Contiguous(stream') /\ stream' # <<>>
      /\ lastSent' = stream'[Len(stream')]
  BY Zenon DEF BroadcastTypeOK, Sound, StreamState, StreamNow
<1>2. lastSent' # 0
  <2>1. stream'[Len(stream')] \in Heights
    BY <1>1 DEF BroadcastTypeOK
  <2> QED
    BY <1>1, <2>1, MaxHeightAssumption DEF Heights
<1> QED
  BY <1>1, <1>2 DEF StreamInv

\* What announce_insert hands to the loop over `pending`.
HandedOver(lo, hi) ==
    IF lastSent + 1 = lo THEN SendRange(StreamNow, [lo |-> lo, hi |-> hi])
    ELSE [StreamNow EXCEPT !.pending = Append(pending, [lo |-> lo, hi |-> hi])]

\* Announce either ignores the range or runs the loop over `pending`.
LEMMA AnnounceIs ==
    ASSUME NEW lo \in Heights, NEW hi \in Heights, Announce(lo, hi)
    PROVE  IF lo < lastSent THEN StreamNow' = StreamNow
           ELSE LET u == AnnouncePending(HandedOver(lo, hi))
                IN  StreamNow' = [last |-> u.last, pending |-> u.pending, stream |-> u.stream]
<1>1. CASE lo < lastSent
  BY <1>1 DEF Announce, broadcastVars, StreamNow
<1>2. CASE ~(lo < lastSent)
  BY <1>2 DEF Announce, StreamNow, HandedOver
<1> QED
  BY <1>1, <1>2, Zenon

\* What is handed over is sound.
LEMMA HandedOverSound ==
    ASSUME Sound(StreamNow), NEW lo \in Heights, NEW hi \in Heights, lo <= hi,
           NEW v, v = HandedOver(lo, hi)
    PROVE  /\ Sound(v)
           /\ \/ lastSent + 1 = lo /\ v.last = hi /\ v.pending = pending
              \/ v.last = lastSent /\ v.pending = Append(pending, [lo |-> lo, hi |-> hi])
<1> DEFINE r == [lo |-> lo, hi |-> hi]
<1>1. r \in HeightRanges /\ r.lo = lo /\ r.hi = hi
  BY DEF HeightRanges
<1>2. /\ StreamNow.last = lastSent /\ StreamNow.pending = pending /\ StreamNow.stream = stream
      /\ StreamNow \in StreamState
  BY Zenon DEF StreamNow, Sound
<1>3. CASE lastSent + 1 = lo
  <2>1. v = SendRange(StreamNow, r)
    BY <1>3 DEF HandedOver
  <2> HIDE DEF r
  <2>2. Sound(v) /\ v.last = r.hi /\ v.pending = StreamNow.pending
    BY <1>1, <1>2, <1>3, <2>1, SendIsSound
  <2> QED
    BY <1>1, <1>2, <1>3, <2>2
<1>4. CASE lastSent + 1 # lo
  <2>1. v = [StreamNow EXCEPT !.pending = Append(pending, r)]
    BY <1>4 DEF HandedOver
  <2> HIDE DEF r
  <2>2. pending \in Seq(HeightRanges)
    BY <1>2 DEF StreamState
  <2>3. Append(pending, r) \in Seq(HeightRanges) /\ Len(Append(pending, r)) = Len(pending) + 1
    BY <1>1, <2>2
  <2>4. v.last = lastSent /\ v.pending = Append(pending, r) /\ v.stream = stream
        /\ v \in StreamState
    BY <1>2, <2>1, <2>3, Zenon DEF StreamState
  <2>5. \A i \in 1..Len(pending) : pending[i].lo <= pending[i].hi
    BY <1>2 DEF Sound
  <2>6. \A i \in 1..Len(v.pending) : v.pending[i].lo <= v.pending[i].hi
    <3> SUFFICES ASSUME NEW i \in 1..(Len(pending) + 1)
                 PROVE  Append(pending, r)[i].lo <= Append(pending, r)[i].hi
      BY <2>3, <2>4, Zenon
    <3>1. Append(pending, r)[i] = r \/ (i \in 1..Len(pending) /\ Append(pending, r)[i] = pending[i])
      BY <1>1, <2>2, AppendedAt
    <3> QED
      BY <1>1, <2>5, <3>1, Zenon
  <2>7. Sound(v)
    BY <1>2, <2>4, <2>6, Zenon DEF Sound
  <2> QED
    BY <2>4, <2>7 DEF r
<1> QED
  BY <1>3, <1>4

\* announce_insert keeps the stream sound.
LEMMA AnnounceSound ==
    ASSUME Sound(StreamNow), NEW lo \in Heights, NEW hi \in Heights, lo <= hi,
           Announce(lo, hi)
    PROVE  Sound(StreamNow')
<1>1. CASE lo < lastSent
  <2>1. StreamNow' = StreamNow
    BY <1>1, AnnounceIs
  <2> QED
    BY <2>1
<1>2. CASE ~(lo < lastSent)
  <2>1. PICK v : v = HandedOver(lo, hi)
    OBVIOUS
  <2>2. PICK u : u = AnnouncePending(v)
    OBVIOUS
  <2>3. Sound(v)
    BY <2>1, HandedOverSound, Zenon
  <2>4. {} \in SUBSET Heights
    OBVIOUS
  <2>5. Sound(u)
    BY <2>2, <2>3, <2>4, AnnouncePendingKeeps
  <2>6. StreamNow' = [last |-> u.last, pending |-> u.pending, stream |-> u.stream]
    BY <1>2, <2>1, <2>2, AnnounceIs, Zenon
  <2>7. u \in StreamState
    BY <2>5 DEF Sound
  <2>8. StreamNow' = u
    BY <2>6, <2>7 DEF StreamState
  <2> QED
    BY <2>5, <2>8
<1> QED
  BY <1>1, <1>2

\* Every step keeps the stream contiguous.
LEMMA StepKeepsStream ==
    ASSUME Types, SyncInv, StreamInv, Next \/ UNCHANGED vars
    PROVE  StreamInv'
<1>a. ASSUME UNCHANGED broadcastVars, InConnectedLoop' => InConnectedLoop
      PROVE  StreamInv'
  BY <1>a DEF StreamInv, BroadcastTypeOK, broadcastVars
<1>b. ASSUME NEW lo \in Heights, NEW hi \in Heights, lo <= hi, AnnounceInsert(lo, hi),
             InConnectedLoop
      PROVE  StreamInv'
  <2>1. CASE InsertionConstraintsMet(lo, hi)
    <3>1. Announce(lo, hi)
      BY <1>b, <2>1 DEF AnnounceInsert
    <3>2. Sound(StreamNow)
      BY <1>b, StreamNowSound, Zenon DEF StreamInv
    <3>3. Sound(StreamNow')
      BY <1>b, <3>1, <3>2, AnnounceSound
    <3> QED
      BY <3>3, SoundStreamInv
  <2>2. CASE ~InsertionConstraintsMet(lo, hi)
    BY <1>a, <1>b, <2>2 DEF AnnounceInsert
  <2> QED
    BY <2>1, <2>2
<1>1. CASE TryInitDone
  <2>1. initHead \in Heights /\ InitBroadcast(initHead) /\ StreamInv
    BY <1>1 DEF TryInitDone, SyncInv
  <2>2. initHead # 0 /\ initHead \in 0..MaxHeight /\ initHead <= initHead
    BY <2>1, MaxHeightAssumption DEF Heights
  <2>3. CASE lastSent = 0
    <3>1. stream = <<>>
      <4> SUFFICES ASSUME stream # <<>> PROVE FALSE
        OBVIOUS
      <4>1. stream[Len(stream)] \in Heights
        BY DEF StreamInv, BroadcastTypeOK
      <4> QED
        BY <2>3, <4>1, MaxHeightAssumption DEF StreamInv, Heights
    <3>2. lastSent' = initHead /\ stream' = <<initHead>> /\ pending' = pending
      BY <2>1, <2>3, <3>1 DEF InitBroadcast
    <3>3. stream' \in Seq(Heights) /\ Len(stream') = 1 /\ stream'[1] = initHead
          /\ stream' # <<>> /\ Contiguous(stream')
      BY <2>1, <3>2 DEF Contiguous
    <3> QED
      BY <2>2, <3>2, <3>3, Zenon DEF StreamInv, BroadcastTypeOK
  <2>4. CASE lastSent # 0
    <3> DEFINE r == [lo |-> initHead, hi |-> initHead]
    <3>1. pending' = Append(pending, r) /\ UNCHANGED <<lastSent, stream>>
      BY <2>1, <2>4 DEF InitBroadcast
    <3>2. r \in HeightRanges /\ r.lo <= r.hi
      BY <2>1, <2>2 DEF HeightRanges
    <3> HIDE DEF r
    <3>3. pending \in Seq(HeightRanges)
      BY DEF StreamInv, BroadcastTypeOK
    <3>4. pending' \in Seq(HeightRanges) /\ Len(pending') = Len(pending) + 1
      BY <3>1, <3>2, <3>3
    <3>5. ASSUME NEW i \in 1..Len(pending')
          PROVE  pending'[i].lo <= pending'[i].hi
      <4>1. pending'[i] = r \/ (i \in 1..Len(pending) /\ pending'[i] = pending[i])
        BY <3>1, <3>2, <3>3, <3>4, <3>5
      <4> QED
        BY <3>2, <4>1, Zenon DEF StreamInv
    <3> QED
      BY <2>4, <3>1, <3>4, <3>5, Zenon DEF StreamInv, BroadcastTypeOK
  <2> QED
    BY <2>3, <2>4
<1>2. CASE InsertFromHeaderSub
  <2>1. initHead \in Heights /\ AnnounceInsert(initHead, initHead) /\ InConnectedLoop
    BY <1>2 DEF InsertFromHeaderSub, SyncInv, InConnectedLoop
  <2>2. initHead <= initHead
    BY <2>1, MaxHeightAssumption DEF Heights
  <2> QED
    BY <1>b, <2>1, <2>2
<1>3. CASE OnFetchResult
  <2>1. AnnounceInsert(Min(ongoing), Max(ongoing)) /\ InConnectedLoop
    BY <1>3 DEF OnFetchResult, InConnectedLoop
  <2>2. Min(ongoing) \in Heights /\ Max(ongoing) \in Heights /\ Min(ongoing) <= Max(ongoing)
    BY <1>3, UnderWayEnds, Zenon DEF OnFetchResult, SyncInv
  <2> QED
    BY <1>b, <2>1, <2>2
<1>4. CASE Restart
  <2>1. <<>> \in Seq(HeightRanges) /\ <<>> \in Seq(Heights) /\ Len(<<>>) = 0
    OBVIOUS
  <2>2. 0 \in 0..MaxHeight /\ 1..0 = {} /\ 1..(0 - 1) = {}
    BY MaxHeightAssumption
  <2>3. lastSent' = 0 /\ pending' = <<>> /\ stream' = <<>> /\ spc' = "connecting"
    BY <1>4 DEF Restart
  <2>4. BroadcastTypeOK'
    BY <2>1, <2>2, <2>3 DEF BroadcastTypeOK
  <2>5. ~InConnectedLoop'
    BY <2>3 DEF InConnectedLoop
  <2>6. Contiguous(stream)' /\ \A i \in 1..Len(pending') : pending'[i].lo <= pending'[i].hi
    BY <2>1, <2>2, <2>3 DEF Contiguous
  <2> QED
    BY <2>3, <2>4, <2>5, <2>6, Zenon DEF StreamInv
<1>5. CASE SyncerMoves /\ ~(TryInitDone \/ InsertFromHeaderSub \/ OnFetchResult)
  BY <1>5, <1>a, Zenon
     DEF SyncerMoves, SyncerStep, TryInitGetHead, TryInitReadHead, TryInitInsert,
         FetchReadStored, FetchReadPruned, FetchReadSampled, FetchStart, AllPeersGone,
         OnHeaderSub, OnFetchError, InConnectedLoop
<1>6. CASE Environment /\ ~Restart
  BY <1>6, <1>a, Zenon
     DEF Environment, Tick, PeerConnects, AllPeersDisconnect, GossipHeader, DaserSamples,
         PrunerRemoves, syncerVars, InConnectedLoop
<1>7. CASE UNCHANGED vars
  BY <1>7, <1>a DEF vars, syncerVars, InConnectedLoop
<1> QED
  BY <1>1, <1>2, <1>3, <1>4, <1>5, <1>6, <1>7 DEF Next

\* The stream continues at lastSent, and every pending range has headers.
THEOREM StreamInvariant == Spec => [](Types /\ SyncInv /\ StreamInv)
<1>1. Init => StreamInv
  <2>1. <<>> \in Seq(HeightRanges) /\ <<>> \in Seq(Heights) /\ Len(<<>>) = 0
    OBVIOUS
  <2>2. 0 \in 0..MaxHeight /\ 1..0 = {} /\ 1..(0 - 1) = {}
    BY MaxHeightAssumption
  <2> QED
    BY <2>1, <2>2
       DEF Init, BroadcastInit, SyncerInit, StreamInv, BroadcastTypeOK, InConnectedLoop,
           Contiguous
<1>2. Types /\ SyncInv /\ StreamInv /\ [Next]_vars => StreamInv'
  BY StepKeepsStream
<1> QED
  BY <1>1, <1>2, SyncInvariant, PTL DEF Spec

\* A subscriber sees every height from the first one on, once and in order,
\* in whatever order the Syncer inserts and however often it reconnects.
THEOREM StreamIsContiguous == Spec => []ContiguousStream
<1>1. Types /\ SyncInv /\ StreamInv => ContiguousStream
  BY DEF ContiguousStream, TypeOK, Types, StreamInv
<1> QED
  BY <1>1, StreamInvariant, PTL

-----------------------------------------------------------------------------
(* Nothing is left out of the stream while no trusted peer lags            *)

LEMMA CoversFrom ==
    ASSUME NEW v, NEW l, NEW p, v.last = l, v.pending = p, NEW T, l \in T,
           \A h \in T : h > l => \E i \in 1..Len(p) : l < p[i].lo /\ h \in p[i].lo..p[i].hi,
           \A i \in 1..Len(p) : p[i].lo..p[i].hi \subseteq T,
           \A i, j \in 1..Len(p) : p[i].hi < p[j].hi => p[i].hi < p[j].lo
    PROVE  Covers(v, T)
  BY Zenon DEF Covers

\* A range of new heights, sent or made pending, is covered like the others.
LEMMA HandedOverCovers ==
    ASSUME Sound(StreamNow), NEW lo \in Heights, NEW hi \in Heights, lo <= hi,
           NEW S \in SUBSET Heights, Covers(StreamNow, S), (lo..hi) \cap S = {},
           lastSent <= lo, NEW v, v = HandedOver(lo, hi)
    PROVE  Covers(v, S \cup (lo..hi))
<1>1. /\ pending \in Seq(HeightRanges) /\ lastSent \in Int
      /\ \A j \in 1..Len(pending) : pending[j].lo <= pending[j].hi
  BY HeightsAreInts, Zenon DEF Sound, StreamState, StreamNow
<1>2. /\ lastSent \in S
      /\ \A h \in S : h > lastSent =>
            \E j \in 1..Len(pending) :
                lastSent < pending[j].lo /\ h \in pending[j].lo..pending[j].hi
      /\ \A j \in 1..Len(pending) : pending[j].lo..pending[j].hi \subseteq S
      /\ \A i, j \in 1..Len(pending) :
            pending[i].hi < pending[j].hi => pending[i].hi < pending[j].lo
  BY Zenon DEF Covers, StreamNow
<1>3. lo \in Int /\ hi \in Int
  BY HeightsAreInts, Zenon
<1>4. \A j \in 1..Len(pending) : pending[j].lo \in Int /\ pending[j].hi \in Int
  <2>1. \A j \in 1..Len(pending) : pending[j] \in HeightRanges
    BY <1>1, Members, Zenon
  <2>2. \A r \in HeightRanges : r.lo \in Int /\ r.hi \in Int
    BY HeightsAreInts, Zenon DEF HeightRanges
  <2> QED
    BY <2>1, <2>2, Zenon
<1>5. \A j \in 1..Len(pending) : pending[j].hi < lo \/ hi < pending[j].lo
  BY <1>1, <1>2, <1>3, <1>4, Apart, Zenon
<1>6. lastSent < lo
  <2>1. lastSent # lo
    BY <1>2, <1>3, Endpoints, Zenon
  <2> QED
    BY <1>1, <1>3, <2>1, Less, Zenon
<1>7. CASE lastSent + 1 = lo /\ v.last = hi /\ v.pending = pending
  <2>1. hi \in S \cup (lo..hi)
    BY <1>3
  <2>2. ASSUME NEW h \in S \cup (lo..hi), h > hi
        PROVE  \E j \in 1..Len(pending) : hi < pending[j].lo /\ h \in pending[j].lo..pending[j].hi
    <3>1. h \in S /\ h > lastSent
      <4>1. h \in Int
        <5>1. h \in Heights
          BY IntervalEnds
        <5> QED
          BY <5>1, HeightsAreInts, Zenon
      <4>2. h > lastSent
        BY <1>1, <1>3, <1>6, <2>2, <4>1
      <4>3. h \notin lo..hi
        BY <1>3, <2>2, <4>1
      <4> QED
        BY <4>2, <4>3, Zenon
    <3>2. PICK j \in 1..Len(pending) :
               lastSent < pending[j].lo /\ h \in pending[j].lo..pending[j].hi
      BY <1>2, <3>1, Zenon
    <3>3. hi < pending[j].lo
      <4>1. pending[j].lo <= pending[j].hi /\ pending[j].lo \in Int /\ pending[j].hi \in Int
        BY <1>1, <1>4, Zenon
      <4>2. lo <= pending[j].lo
        BY <1>1, <1>3, <1>7, <3>2, <4>1, Less, Zenon
      <4>3. ~(pending[j].hi < lo)
        <5>1. PICK a \in Int, b \in Int : a = pending[j].lo /\ b = pending[j].hi /\ a <= b /\ lo <= a
          BY <4>1, <4>2, Zenon
        <5> QED
          BY <1>3, <5>1
      <4> QED
        BY <1>5, <4>3, Zenon
    <3> QED
      BY <3>2, <3>3
  <2> QED
    <3>1. \A j \in 1..Len(pending) : pending[j].lo..pending[j].hi \subseteq S \cup (lo..hi)
      BY <1>2, Zenon
    <3>2. \A i, j \in 1..Len(pending) : pending[i].hi < pending[j].hi => pending[i].hi < pending[j].lo
      BY <1>2, Zenon
    <3>3. \A h \in S \cup (lo..hi) : h > hi =>
            \E j \in 1..Len(pending) : hi < pending[j].lo /\ h \in pending[j].lo..pending[j].hi
      BY <2>2, Zenon
    <3>4. v.last = hi /\ v.pending = pending
      BY <1>7
    <3> HIDE <1>7
    <3> QED
      BY <2>1, <3>1, <3>2, <3>3, <3>4, CoversFrom, Zenon
<1>8. CASE v.last = lastSent /\ v.pending = Append(pending, [lo |-> lo, hi |-> hi])
  <2> DEFINE r == [lo |-> lo, hi |-> hi]
             n == Len(pending)
             q == Append(pending, r)
  <2>1. r \in HeightRanges /\ r.lo = lo /\ r.hi = hi
    BY DEF HeightRanges
  <2>2. v.last = lastSent /\ v.pending = q
    BY <1>8
  <2> HIDE DEF r
  <2>a. pending \in Seq(HeightRanges) /\ r \in HeightRanges
    BY <1>1, <2>1
  <2>3. n \in Nat /\ Len(q) = n + 1 /\ q[n + 1] = r
    BY <2>a, Appended
  <2>4. \A j \in 1..n : q[j] = pending[j]
    BY <1>1, <2>1, Appended
  <2> HIDE DEF q
  <2>5. \A j \in 1..Len(q) : j = n + 1 \/ j \in 1..n
    BY <2>3
  <2>6. \A j \in 1..n : j \in 1..Len(q)
    BY <2>3
  <2>7. n + 1 \in 1..Len(q)
    BY <2>3
  <2>8. ASSUME NEW h \in S \cup (lo..hi), h > lastSent
        PROVE  \E j \in 1..Len(q) : lastSent < q[j].lo /\ h \in q[j].lo..q[j].hi
    <3>1. CASE h \in S
      <4>1. PICK j \in 1..n : lastSent < pending[j].lo /\ h \in pending[j].lo..pending[j].hi
        BY <1>2, <2>8, <3>1, Zenon
      <4> QED
        BY <2>4, <2>6, <4>1, Zenon
    <3>2. CASE h \in lo..hi
      BY <1>6, <2>1, <2>3, <2>7, <3>2, Zenon
    <3> QED
      BY <3>1, <3>2, Zenon
  <2>9. ASSUME NEW j \in 1..Len(q)
        PROVE  q[j].lo..q[j].hi \subseteq S \cup (lo..hi)
    <3>1. CASE j = n + 1
      BY <2>1, <2>3, <3>1, Zenon
    <3>2. CASE j \in 1..n
      <4>1. pending[j].lo..pending[j].hi \subseteq S
        BY <1>2, <3>2, Zenon
      <4> QED
        BY <2>4, <3>2, <4>1, Zenon
    <3> QED
      BY <2>5, <3>1, <3>2
  <2>10. ASSUME NEW i \in 1..Len(q), NEW j \in 1..Len(q), q[i].hi < q[j].hi
         PROVE  q[i].hi < q[j].lo
    <3>1. CASE i \in 1..n /\ j \in 1..n
      BY <1>2, <2>4, <2>10, <3>1, Zenon
    <3>2. CASE i = n + 1 /\ j \in 1..n
      <4>1. q[i].hi = hi /\ q[j] = pending[j] /\ pending[j].hi \in Int /\ hi < pending[j].hi
        BY <1>4, <2>1, <2>3, <2>4, <2>10, <3>2, Zenon
      <4>2. pending[j].hi < lo \/ hi < pending[j].lo
        BY <1>5, <3>2, Zenon
      <4>3. PICK b \in Int : b = pending[j].hi /\ hi < b /\ (b < lo \/ hi < pending[j].lo)
        BY <4>1, <4>2, Zenon
      <4>4. hi < pending[j].lo
        BY <1>3, <4>3, NotBelow, Zenon
      <4> QED
        BY <4>1, <4>4, Zenon
    <3>3. CASE i \in 1..n /\ j = n + 1
      <4>1. q[j].hi = hi /\ q[j].lo = lo /\ q[i] = pending[i] /\ pending[i].hi < hi
            /\ pending[i].hi \in Int /\ pending[i].lo \in Int /\ pending[i].lo <= pending[i].hi
        BY <1>1, <1>4, <2>1, <2>3, <2>4, <2>10, <3>3, Zenon
      <4>2. pending[i].hi < lo \/ hi < pending[i].lo
        BY <1>5, <3>3, Zenon
      <4>3. PICK a \in Int, b \in Int :
                a = pending[i].lo /\ b = pending[i].hi /\ a <= b /\ b < hi /\ (b < lo \/ hi < a)
        BY <4>1, <4>2, Zenon
      <4>4. b < lo
        BY <1>3, <4>3, NotBelow, Zenon
      <4> QED
        BY <4>1, <4>3, <4>4, Zenon
    <3>4. CASE i = n + 1 /\ j = n + 1
      BY <1>3, <2>1, <2>3, <2>10, <3>4, Irreflexive, Zenon
    <3> QED
      BY <2>5, <3>1, <3>2, <3>3, <3>4, Zenon
  <2> QED
    BY <1>2, <2>2, <2>8, <2>9, <2>10, Zenon DEF Covers
<1> QED
  BY <1>7, <1>8, HandedOverSound

\* announce_insert of new heights announces them or keeps them pending.
LEMMA AnnounceCovers ==
    ASSUME Sound(StreamNow), NEW lo \in Heights, NEW hi \in Heights, lo <= hi,
           NEW S \in SUBSET Heights, Covers(StreamNow, S), (lo..hi) \cap S = {},
           Announce(lo, hi)
    PROVE  Covers(StreamNow', S \cup (lo..hi))
<1>0. lastSent \in Int /\ lo \in Int /\ hi \in Int
  BY HeightsAreInts, Zenon DEF Sound, StreamState, StreamNow
<1>1. CASE lo < lastSent
  <2>1. StreamNow' = StreamNow
    BY <1>1, AnnounceIs
  <2>2. lastSent \in S /\ StreamNow.last = lastSent
    BY Zenon DEF Covers, StreamNow
  <2>3. lastSent \notin lo..hi
    BY <2>2
  <2>4. \A h \in lo..hi : ~(h > lastSent)
    BY <1>0, <1>1, <2>3
  <2>5. Covers(StreamNow, S \cup (lo..hi))
    BY <2>2, <2>4, Zenon DEF Covers
  <2> QED
    BY <2>1, <2>5
<1>2. CASE ~(lo < lastSent)
  <2>0. lastSent <= lo
    BY <1>0, <1>2
  <2>1. PICK v : v = HandedOver(lo, hi)
    OBVIOUS
  <2>2. PICK u : u = AnnouncePending(v)
    OBVIOUS
  <2>3. Sound(v)
    BY <2>1, HandedOverSound, Zenon
  <2>4. Covers(v, S \cup (lo..hi))
    BY <2>0, <2>1, HandedOverCovers
  <2>5. S \cup (lo..hi) \in SUBSET Heights
    BY IntervalEnds
  <2>6. Sound(u) /\ Covers(u, S \cup (lo..hi))
    BY <2>2, <2>3, <2>4, <2>5, AnnouncePendingKeeps
  <2>7. StreamNow' = [last |-> u.last, pending |-> u.pending, stream |-> u.stream]
    BY <1>2, <2>1, <2>2, AnnounceIs
  <2>8. u \in StreamState
    BY <2>6, Zenon DEF Sound
  <2>9. StreamNow' = u
    BY <2>7, <2>8 DEF StreamState
  <2> QED
    BY <2>6, <2>9
<1> QED
  BY <1>1, <1>2

\* While no trusted peer lagged, every step keeps header-sub above what the
\* node has or has asked for.
LEMMA StepKeepsKnown ==
    ASSUME Types, Types', SyncInv, FreshInv, Next \/ UNCHANGED vars, ~lagged'
    PROVE  KnownInv'
<1>0. /\ Had \in SUBSET Heights /\ subj \in Int /\ subHead \in Int /\ subRx \in Seq(Heights)
      /\ ongoing \in SUBSET Heights /\ nextBatch \in SUBSET Heights
      /\ Heights \subseteq Int
  <2>1. stored \in SUBSET Heights /\ pruned \in SUBSET Heights
    BY Zenon DEF Types, StoreTypeOK
  <2>2. /\ subj \in 0..MaxHeight /\ subHead \in 0..MaxHeight /\ subRx \in Seq(Heights)
        /\ ongoing \in SUBSET Heights /\ nextBatch \in SUBSET Heights
    BY Zenon DEF Types, SyncerTypeOK
  <2> QED
    BY <2>1, <2>2, HeightsAreInts, Zenon DEF Had
<1>a. ASSUME ~InConnectedLoop'
      PROVE  KnownInv'
  BY <1>a DEF KnownInv, InConnectedLoop
<1>b. ASSUME KnownInv, Had' = Had, UNCHANGED <<subj, subRx, subHead, initHead>>,
             ongoing' \cup nextBatch' \subseteq ongoing \cup nextBatch,
             ongoing' \subseteq ongoing \/ (spc' # "insertSub" /\ ongoing' \cap Had = {}),
             InConnectedLoop' => InConnectedLoop,
             spc' = "insertSub" => spc = "insertSub"
      PROVE  KnownInv'
  BY <1>b, Zenon DEF KnownInv
<1>1. ASSUME SyncerMoves PROVE KnownInv'
  <2>0. KnownInv
    BY <1>1, Zenon DEF SyncerMoves, FreshInv
  <2> USE DEF storeVars, syncerLocal, subVars
  <2>1. CASE TryInitGetHead \/ TryInitReadHead \/ TryInitInsert
    BY <1>a, <2>1, Zenon DEF TryInitGetHead, TryInitReadHead, TryInitInsert, InConnectedLoop
  <2>2. CASE TryInitDone
    <3>1. \A h \in Had \cup {subj} : ~(initHead < h)
      BY <1>1, <2>2, Zenon DEF SyncerMoves, TryInitDone
    <3>2. initHead \in Heights /\ ongoing = {} /\ nextBatch = {}
      BY <2>2, Zenon DEF TryInitDone, SyncInv
    <3>3. initHead \in Int
      BY <3>2, <1>0
    <3>4. subj' = initHead
      BY <1>0, <2>2, <3>1, <3>3 DEF TryInitDone, SubjectiveHead
    <3>5. /\ ongoing' = {} /\ nextBatch' = {} /\ Had' = Had
          /\ subHead' = initHead /\ subRx' = <<>> /\ spc' # "insertSub"
      BY <2>2, <3>2 DEF TryInitDone, Had
    <3>6. \A h \in Had : h <= initHead
      <4> SUFFICES ASSUME NEW h \in Had PROVE h <= initHead
        OBVIOUS
      <4>1. h \in Int
        BY <1>0
      <4> QED
        BY <3>1, <3>3, <4>1
    <3>7. 1..Len(subRx') = {} /\ initHead <= initHead
      BY <3>3, <3>5
    <3> QED
      BY <3>4, <3>5, <3>6, <3>7 DEF KnownInv
  <2>3. CASE FetchReadStored
    <3>1. Had' = Had
      BY <2>3 DEF FetchReadStored, Had
    <3> QED
      BY <1>b, <2>0, <2>3, <3>1 DEF FetchReadStored, InConnectedLoop
  <2>4. CASE FetchReadPruned
    <3> DEFINE b == CalculateRangeToFetch(subj, Synced)
    <3>1. spc = "fetchPruned" /\ nextBatch' = b /\ Had' = Had
          /\ UNCHANGED <<subj, ongoing, initHead, subRx, subHead>>
          /\ spc' # "insertSub"
      BY <2>4, Zenon DEF FetchReadPruned, Had
    <3>2. b # {} => Fetchable(b, Had) /\ \A h \in b : h <= subj \/ \E s \in Had : h < s
      BY <3>1, NextBatch, Zenon
    <3> HIDE DEF b
    <3>3. InConnectedLoop /\ \A s \in Had : s <= subj
      BY <2>0, <3>1, Zenon DEF KnownInv, InConnectedLoop
    <3>4. \A h \in b : h <= subj
      <4> SUFFICES ASSUME NEW h \in b PROVE h <= subj
        OBVIOUS
      <4>1. h \in Heights /\ b # {}
        BY <3>2, FetchableEnds
      <4>2. h <= subj \/ \E s \in Had : h < s
        BY <3>2, <4>1
      <4>3. ASSUME NEW s \in Had, h < s PROVE h <= subj
        BY <1>0, <3>3, <4>1, <4>3
      <4> QED
        BY <4>2, <4>3
    <3> QED
      BY <2>0, <3>1, <3>3, <3>4, Zenon DEF KnownInv
  <2>5. CASE FetchReadSampled
    <3>1. Had' = Had
      BY <2>5 DEF FetchReadSampled, Had
    <3> QED
      BY <1>b, <2>0, <2>5, <3>1, Zenon DEF FetchReadSampled, InConnectedLoop
  <2>6. CASE FetchStart
    <3>1. nextBatch \cap Had = {} /\ Had' = Had
      BY <2>6, FetchableEnds, Zenon DEF FetchStart, SyncInv, Had
    <3>2. ongoing' \in {{}, nextBatch} /\ nextBatch' = {}
      BY <2>6 DEF FetchStart
    <3> QED
      BY <1>b, <2>0, <2>6, <3>1, <3>2, Zenon DEF FetchStart, InConnectedLoop
  <2>7. CASE AllPeersGone
    BY <1>a, <2>7 DEF AllPeersGone, InConnectedLoop
  <2>8. CASE OnHeaderSub
    <3> DEFINE x == Head(subRx)
               n == Len(subRx)
    <3>1. /\ InConnectedLoop /\ subRx # <<>> /\ Had' = Had
          /\ UNCHANGED <<ongoing, nextBatch, subHead>>
          /\ subj' = SubjectiveHead(x) /\ subRx' = Tail(subRx)
          /\ spc' = "insertSub" => initHead' = x
      BY <2>8 DEF OnHeaderSub, Had, InConnectedLoop
    <3>2. /\ n \in Nat /\ 1 \in 1..n /\ x = subRx[1] /\ x \in Heights
          /\ subRx' \in Seq(Heights) /\ Len(subRx') = n - 1
      BY <1>0, <3>1
    <3>3. \A i \in 1..(n - 1) : subRx'[i] = subRx[i + 1] /\ i + 1 \in 1..n /\ i \in Int
      BY <1>0, <3>1, <3>2
    <3> HIDE DEF x, n
    <3>4. /\ \A h \in Had \cup ongoing \cup nextBatch : h <= subj
          /\ \A i \in 1..n : subj < subRx[i] /\ subRx[i] <= subHead
          /\ \A i, j \in 1..n : i < j => subRx[i] < subRx[j]
          /\ ongoing \cap Had = {}
      BY <2>0, <3>1, Zenon DEF KnownInv, n
    <3>5. subj < x /\ x <= subHead /\ x \in Int
      BY <1>0, <3>2, <3>4
    <3>6. subj' = x
      BY <1>0, <3>1, <3>5 DEF SubjectiveHead
    <3>7. \A h \in Had \cup ongoing \cup nextBatch : h < x
      <4> SUFFICES ASSUME NEW h \in Had \cup ongoing \cup nextBatch PROVE h < x
        OBVIOUS
      <4>1. h \in Int /\ h <= subj
        BY <1>0, <3>4
      <4> QED
        BY <1>0, <3>5, <4>1
    <3>8. \A i \in 1..(n - 1) : x < subRx'[i] /\ subRx'[i] <= subHead
      <4> SUFFICES ASSUME NEW i \in 1..(n - 1)
                   PROVE  x < subRx[i + 1] /\ subRx[i + 1] <= subHead
        BY <3>3
      <4>1. i + 1 \in 1..n /\ 1 < i + 1
        BY <3>3
      <4> QED
        BY <3>2, <3>4, <4>1
    <3>9. \A i, j \in 1..(n - 1) : i < j => subRx'[i] < subRx'[j]
      <4> SUFFICES ASSUME NEW i \in 1..(n - 1), NEW j \in 1..(n - 1), i < j
                   PROVE  subRx[i + 1] < subRx[j + 1]
        BY <3>3
      <4>1. i + 1 \in 1..n /\ j + 1 \in 1..n /\ i + 1 < j + 1
        BY <3>3
      <4> QED
        BY <3>4, <4>1, Zenon
    <3>10. \A h \in Had \cup ongoing \cup nextBatch : h <= x
      <4> SUFFICES ASSUME NEW h \in Had \cup ongoing \cup nextBatch PROVE h <= x
        OBVIOUS
      <4>1. h \in Int /\ h < x
        BY <1>0, <3>7
      <4> QED
        BY <3>5, <4>1
    <3> QED
      BY <3>1, <3>2, <3>4, <3>5, <3>6, <3>7, <3>8, <3>9, <3>10, Zenon DEF KnownInv
  <2>9. CASE InsertFromHeaderSub
    <3>1. /\ spc = "insertSub" /\ spc' = "fetch"
          /\ UNCHANGED <<subj, ongoing, nextBatch, subRx, subHead>>
          /\ initHead \in Heights /\ InConnectedLoop
      BY <2>9, Zenon DEF InsertFromHeaderSub, SyncInv, InConnectedLoop
    <3>2. Had' \subseteq Had \cup {initHead}
      <4>1. StoreInsert(initHead, initHead) \/ UNCHANGED <<stored, pruned>>
        BY <2>9 DEF InsertFromHeaderSub, AnnounceInsert
      <4>2. initHead..initHead = {initHead}
        BY <1>0, <3>1
      <4> QED
        BY <3>1, <4>1, <4>2, InsertionGrows, Zenon DEF Had
    <3>3. initHead = subj /\ \A h \in ongoing : h < initHead
      BY <2>0, <3>1 DEF KnownInv
    <3>4. initHead \notin ongoing /\ subj <= subj
      BY <1>0, <3>1, <3>3
    <3> QED
      BY <2>0, <3>1, <3>2, <3>3, <3>4, Zenon DEF KnownInv
  <2>10. CASE OnFetchResult
    <3>1. /\ spc' = "fetch" /\ ongoing' = {} /\ InConnectedLoop
          /\ UNCHANGED <<subj, nextBatch, subRx, subHead>>
      BY <2>10 DEF OnFetchResult, InConnectedLoop
    <3>2. Had' \subseteq Had \cup ongoing
      <4>1. StoreInsert(Min(ongoing), Max(ongoing)) \/ UNCHANGED <<stored, pruned>>
        BY <2>10 DEF OnFetchResult, AnnounceInsert
      <4>2. Min(ongoing) \in Heights /\ Max(ongoing) \in Heights
            /\ ongoing = Min(ongoing)..Max(ongoing)
        BY <2>10, UnderWayEnds, Zenon DEF OnFetchResult, SyncInv
      <4> QED
        BY <4>1, <4>2, InsertionGrows, Zenon DEF Had
    <3> QED
      BY <2>0, <3>1, <3>2, Zenon DEF KnownInv
  <2>11. CASE OnFetchError
    <3>1. Had' = Had
      BY <2>11 DEF OnFetchError, Had
    <3> QED
      BY <1>b, <2>0, <2>11, <3>1 DEF OnFetchError, InConnectedLoop
  <2> QED
    BY <1>1, <2>1, <2>2, <2>3, <2>4, <2>5, <2>6, <2>7, <2>8, <2>9, <2>10, <2>11
       DEF SyncerMoves, SyncerStep
<1>2. CASE GossipHeader
  <2>0. KnownInv
    BY <1>2 DEF GossipHeader, boundVars, FreshInv
  <2>1. PICK h \in 1..now :
             /\ h > subHead /\ subHead' = h
             /\ subRx' = Append(subRx, h) \/ subRx' = subRx
    BY <1>2 DEF GossipHeader, AcceptsHeader
  <2>2. h \in Heights /\ h \in Int
    BY <2>1, MaxHeightAssumption DEF Types, SyncerTypeOK, Heights
  <2>3. UNCHANGED <<spc, subj, ongoing, nextBatch, initHead>> /\ Had' = Had
    BY <1>2 DEF GossipHeader, syncerLocal, storeVars, Had
  <2>4. InConnectedLoop' <=> InConnectedLoop
    BY <2>3 DEF InConnectedLoop
  <2>5. ASSUME InConnectedLoop
        PROVE  /\ subj <= h
               /\ \A i \in 1..Len(subRx') : subj < subRx'[i] /\ subRx'[i] <= h
               /\ \A i, j \in 1..Len(subRx') : i < j => subRx'[i] < subRx'[j]
    <3> DEFINE n == Len(subRx)
    <3>1. /\ subj <= subHead
          /\ \A i \in 1..n : subj < subRx[i] /\ subRx[i] <= subHead
          /\ \A i, j \in 1..n : i < j => subRx[i] < subRx[j]
      BY <2>0, <2>5 DEF KnownInv
    <3>2. subj < h /\ n \in Nat
      BY <1>0, <2>1, <2>2, <3>1
    <3>3. \A i \in 1..n : subRx[i] \in Int
      <4>1. \A i \in 1..n : subRx[i] \in Heights
        BY <1>0
      <4> QED
        BY <1>0, <4>1, Zenon
    <3>4. \A i \in 1..n : subRx[i] < h /\ subRx[i] <= h
      BY <1>0, <2>1, <2>2, <3>1, <3>3
    <3>5. CASE subRx' = subRx
      BY <1>0, <2>2, <3>1, <3>2, <3>4, <3>5
    <3>6. CASE subRx' = Append(subRx, h)
      <4>1. Len(subRx') = n + 1 /\ subRx'[n + 1] = h
        BY <1>0, <2>2, <3>6
      <4>2. \A i \in 1..n : subRx'[i] = subRx[i]
        BY <1>0, <2>2, <3>6
      <4> HIDE DEF n
      <4>3. \A i \in 1..(n + 1) : i \in 1..n \/ i = n + 1
        BY <3>2
      <4>4. \A i \in 1..(n + 1) : subj < subRx'[i] /\ subRx'[i] <= h
        <5> SUFFICES ASSUME NEW i \in 1..(n + 1) PROVE subj < subRx'[i] /\ subRx'[i] <= h
          OBVIOUS
        <5>1. CASE i \in 1..n
          BY <3>1, <3>4, <4>2, <5>1
        <5>2. CASE i = n + 1
          BY <2>2, <3>2, <4>1, <5>2
        <5> QED
          BY <4>3, <5>1, <5>2, Zenon
      <4>5. \A i, j \in 1..(n + 1) : i < j => subRx'[i] < subRx'[j]
        <5> SUFFICES ASSUME NEW i \in 1..(n + 1), NEW j \in 1..(n + 1), i < j
                     PROVE  subRx'[i] < subRx'[j]
          OBVIOUS
        <5>1. i \in 1..n
          BY <3>2
        <5>2. CASE j \in 1..n
          BY <3>1, <4>2, <5>1, <5>2
        <5>3. CASE j = n + 1
          BY <3>4, <4>1, <4>2, <5>1, <5>3
        <5> QED
          BY <4>3, <5>2, <5>3
      <4>6. subj <= h
        BY <1>0, <2>2, <3>2
      <4> QED
        BY <4>1, <4>4, <4>5, <4>6
    <3> QED
      BY <2>1, <3>5, <3>6
  <2> QED
    BY <2>0, <2>1, <2>3, <2>4, <2>5, Zenon DEF KnownInv
<1>3. CASE Restart
  BY <1>3, <1>a DEF Restart, InConnectedLoop
<1>4. CASE (Environment /\ ~GossipHeader /\ ~Restart) \/ UNCHANGED vars
  <2>1. KnownInv
    BY <1>4, Zenon DEF FreshInv, Environment, Tick, PeerConnects, AllPeersDisconnect, DaserSamples,
                PrunerRemoves, boundVars, vars
  <2>2. UNCHANGED <<spc, subj, ongoing, nextBatch, initHead, subRx, subHead>>
    BY <1>4, Zenon DEF Environment, Tick, PeerConnects, AllPeersDisconnect, DaserSamples,
                PrunerRemoves, syncerVars, syncerLocal, subVars, vars
  <2>3. Had' = Had
    BY <1>4, Zenon DEF Environment, Tick, PeerConnects, AllPeersDisconnect, DaserSamples,
                PrunerRemoves, storeVars, vars, StoreMarkAsSampled, StoreRemoveHeight, Had
  <2> QED
    BY <1>b, <2>1, <2>2, <2>3 DEF InConnectedLoop
<1> QED
  BY <1>1, <1>2, <1>3, <1>4 DEF Next, Environment

\* PendingInv says of a stream that was started what Covers does, but for the
\* head found on reconnecting.
LEMMA StreamNowCovers ==
    ASSUME PendingInv, lastSent # 0, spc # "initialised"
    PROVE  Covers(StreamNow, Had)
  BY Zenon DEF PendingInv, Covers, StreamNow

\* ... and the other way round, of the state after a step.
LEMMA CoversPendingInv ==
    ASSUME Covers(StreamNow', Had')
    PROVE  PendingInv'
  BY Zenon DEF PendingInv, Covers, StreamNow

\* While no trusted peer lagged, every step announces what it makes known or
\* leaves it pending.
LEMMA StepKeepsPending ==
    ASSUME Types, SyncInv, StreamInv, FreshInv, Next \/ UNCHANGED vars, ~lagged'
    PROVE  PendingInv'
<1>0. Had \in SUBSET Heights /\ Heights \subseteq Int /\ pending \in Seq(HeightRanges)
      /\ lastSent \in Int
  BY HeightsAreInts, Zenon DEF Types, StoreTypeOK, StreamInv, BroadcastTypeOK, Had
<1>a. ASSUME PendingInv, Had' = Had, UNCHANGED broadcastVars,
             spc = "initialised" => spc' = "initialised" /\ initHead' = initHead
      PROVE  PendingInv'
  BY <1>a, Zenon DEF PendingInv, broadcastVars
<1>b. ASSUME NEW lo \in Heights, NEW hi \in Heights, lo <= hi, AnnounceInsert(lo, hi),
             PendingInv, InConnectedLoop, (lo..hi) \cap Had = {}
      PROVE  PendingInv'
  <2>0. lastSent # 0 /\ spc # "initialised"
    BY <1>b DEF StreamInv, InConnectedLoop
  <2>1. CASE InsertionConstraintsMet(lo, hi)
    <3>1. Announce(lo, hi) /\ StoreInsert(lo, hi)
      BY <1>b, <2>1 DEF AnnounceInsert
    <3>2. Sound(StreamNow) /\ Covers(StreamNow, Had)
      BY <1>b, <2>0, StreamNowSound, StreamNowCovers
    <3>3. Had' = Had \cup (lo..hi)
      BY <1>b, <3>1, InsertionGrows
    <3>4. Covers(StreamNow', Had \cup (lo..hi))
      BY <1>0, <1>b, <3>1, <3>2, AnnounceCovers
    <3> QED
      BY <3>3, <3>4, CoversPendingInv
  <2>2. CASE ~InsertionConstraintsMet(lo, hi)
    <3>1. UNCHANGED <<storeVars, broadcastVars>>
      BY <1>b, <2>2 DEF AnnounceInsert
    <3>2. Had' = Had
      BY <3>1 DEF storeVars, Had
    <3> QED
      BY <1>a, <1>b, <2>0, <3>1, <3>2
  <2> QED
    BY <2>1, <2>2
<1>1. ASSUME SyncerMoves PROVE PendingInv'
  <2>0. KnownInv /\ PendingInv
    BY <1>1, Zenon DEF SyncerMoves, FreshInv
  <2>1. CASE TryInitGetHead \/ TryInitReadHead \/ FetchReadStored \/ FetchReadPruned
             \/ FetchReadSampled \/ FetchStart \/ AllPeersGone \/ OnHeaderSub \/ OnFetchError
    <3>1. UNCHANGED <<storeVars, broadcastVars>> /\ spc # "initialised"
      BY <2>1, Zenon DEF TryInitGetHead, TryInitReadHead, FetchReadStored, FetchReadPruned,
                  FetchReadSampled, FetchStart, AllPeersGone, OnHeaderSub, OnFetchError
    <3>2. Had' = Had
      BY <3>1 DEF storeVars, Had
    <3> QED
      BY <1>a, <2>0, <3>1, <3>2
  <2>2. CASE TryInitInsert
    <3>1. spc = "insertHead" /\ initHead \in Heights /\ UNCHANGED broadcastVars
      BY <2>2, Zenon DEF TryInitInsert, SyncInv
    <3>2. CASE InsertionConstraintsMet(initHead, initHead)
      <4>1. StoreInsert(initHead, initHead) /\ spc' = "initialised" /\ initHead' = initHead
        BY <2>2, <3>2 DEF TryInitInsert
      <4>2. Had' = Had \cup {initHead}
        <5>1. initHead..initHead = {initHead}
          BY <1>0, <3>1
        <5> QED
          BY <3>1, <4>1, <5>1, InsertionGrows, Zenon
      <4> QED
        BY <2>0, <3>1, <4>1, <4>2, Zenon DEF PendingInv, broadcastVars
    <3>3. CASE ~InsertionConstraintsMet(initHead, initHead)
      <4>1. Had' = Had
        BY <2>2, <3>3 DEF TryInitInsert, storeVars, Had
      <4> QED
        BY <1>a, <2>0, <3>1, <4>1
    <3> QED
      BY <3>2, <3>3
  <2>3. CASE TryInitDone
    <3>1. \A h \in Had : ~(initHead < h)
      BY <1>1, <2>3, Zenon DEF SyncerMoves, TryInitDone
    <3>2. /\ initHead \in Heights /\ initHead \in Had /\ Had' = Had
          /\ InitBroadcast(initHead) /\ spc = "initialised" /\ spc' # "initialised"
      BY <2>3, Zenon DEF TryInitDone, SyncInv, storeVars, Had
    <3>3. initHead \in Int
      BY <1>0, <3>2
    <3>4. \A h \in Had : h \in Int /\ h <= initHead
      <4> SUFFICES ASSUME NEW h \in Had PROVE h \in Int /\ h <= initHead
        OBVIOUS
      <4>1. h \in Int
        BY <1>0
      <4> QED
        BY <3>1, <3>3, <4>1
    <3>5. CASE lastSent = 0
      <4>1. lastSent' = initHead /\ pending' = pending
        BY <3>2, <3>5 DEF InitBroadcast
      <4>2. \A h \in Had : ~(h > initHead)
        BY <3>3, <3>4
      <4> QED
        BY <2>0, <3>2, <4>1, <4>2, Zenon DEF PendingInv
    <3>6. CASE lastSent # 0
      <4> DEFINE r == [lo |-> initHead, hi |-> initHead]
                 n == Len(pending)
                 q == Append(pending, r)
      <4>1. pending' = q /\ lastSent' = lastSent
        BY <3>2, <3>6 DEF InitBroadcast
      <4>2. r \in HeightRanges /\ r.lo = initHead /\ r.hi = initHead
        BY <3>2 DEF HeightRanges
      <4> HIDE DEF r
      <4>3. n \in Nat /\ Len(q) = n + 1 /\ q[n + 1] = r
        BY <1>0, <4>2
      <4>4. \A j \in 1..n : q[j] = pending[j]
        BY <1>0, <4>2
      <4> HIDE DEF q
      <4>5. \A j \in 1..Len(q) : j = n + 1 \/ j \in 1..n
        BY <4>3
      <4>6. (\A j \in 1..n : j \in 1..Len(q)) /\ n + 1 \in 1..Len(q)
        BY <4>3
      <4>7. initHead..initHead = {initHead}
        BY <3>3
      <4>8. /\ lastSent \in Had
            /\ \A h \in Had : h > lastSent =>
                  \/ \E i \in 1..n : lastSent < pending[i].lo /\ h \in pending[i].lo..pending[i].hi
                  \/ h = initHead
            /\ \A i \in 1..n : pending[i].lo..pending[i].hi \subseteq Had
            /\ \A i, j \in 1..n : pending[i].hi < pending[j].hi => pending[i].hi < pending[j].lo
        BY <2>0, <3>6, Zenon DEF PendingInv
      <4>9. ASSUME NEW h \in Had, h > lastSent
            PROVE  \E i \in 1..Len(q) : lastSent < q[i].lo /\ h \in q[i].lo..q[i].hi
        <5>1. CASE h = initHead
          <6>1. lastSent < q[n + 1].lo /\ h \in q[n + 1].lo..q[n + 1].hi
            BY <1>0, <3>3, <4>2, <4>3, <4>7, <4>9, <5>1
          <6> QED
            BY <4>6, <6>1, Zenon
        <5>2. ASSUME NEW i \in 1..n, lastSent < pending[i].lo, h \in pending[i].lo..pending[i].hi
              PROVE  \E k \in 1..Len(q) : lastSent < q[k].lo /\ h \in q[k].lo..q[k].hi
          BY <4>4, <4>6, <5>2, Zenon
        <5> QED
          BY <4>8, <4>9, <5>1, <5>2, Zenon
      <4>10. ASSUME NEW i \in 1..Len(q)
             PROVE  q[i].lo..q[i].hi \subseteq Had
        <5>1. CASE i = n + 1
          BY <3>2, <4>2, <4>3, <4>7, <5>1, Zenon
        <5>2. CASE i \in 1..n
          <6>1. pending[i].lo..pending[i].hi \subseteq Had
            BY <4>8, <5>2, Zenon
          <6> QED
            BY <4>4, <5>2, <6>1
        <5> QED
          BY <4>5, <5>1, <5>2
      <4>11. ASSUME NEW i \in 1..n
             PROVE  pending[i].hi \in Int /\ pending[i].hi <= initHead
        <5>1. pending[i].lo <= pending[i].hi /\ pending[i] \in HeightRanges
          BY <1>0 DEF StreamInv
        <5>2. pending[i].lo \in Int /\ pending[i].hi \in Int
          BY <1>0, <5>1, Zenon DEF HeightRanges
        <5>3. pending[i].hi \in pending[i].lo..pending[i].hi
          BY <5>1, <5>2
        <5>4. pending[i].hi \in Had
          BY <4>8, <5>3, Zenon
        <5> QED
          BY <3>4, <5>4
      <4>12. ASSUME NEW i \in 1..Len(q), NEW j \in 1..Len(q), q[i].hi < q[j].hi
             PROVE  q[i].hi < q[j].lo
        <5>1. CASE i \in 1..n /\ j \in 1..n
          BY <4>4, <4>8, <4>12, <5>1, Zenon
        <5>2. CASE i = n + 1 /\ j \in 1..n
          <6>1. initHead < pending[j].hi
            BY <4>2, <4>3, <4>4, <4>12, <5>2, Zenon
          <6>2. PICK a \in Int : a = pending[j].hi /\ a <= initHead /\ initHead < a
            BY <4>11, <5>2, <6>1, Zenon
          <6> QED
            BY <3>3, <6>2, Less, Zenon
        <5>3. CASE j = n + 1
          BY <4>2, <4>3, <4>12, <5>3
        <5> QED
          BY <4>5, <5>1, <5>2, <5>3, Zenon
      <4> QED
        BY <3>2, <4>1, <4>8, <4>9, <4>10, <4>12, Zenon DEF PendingInv
    <3> QED
      BY <3>5, <3>6
  <2>4. CASE InsertFromHeaderSub
    <3>1. initHead \in Heights /\ AnnounceInsert(initHead, initHead) /\ InConnectedLoop
          /\ spc = "insertSub"
      BY <2>4, Zenon DEF InsertFromHeaderSub, SyncInv, InConnectedLoop
    <3>2. initHead \in Int /\ initHead..initHead = {initHead} /\ initHead <= initHead
      BY <1>0, <3>1
    <3>3. initHead \notin Had
      <4>1. \A h \in Had : h < initHead
        BY <2>0, <3>1, Zenon DEF KnownInv
      <4>2. ~(initHead < initHead)
        BY <3>2, Irreflexive, Zenon
      <4> QED
        BY <4>1, <4>2, Zenon
    <3> QED
      BY <1>b, <2>0, <3>1, <3>2, <3>3
  <2>5. CASE OnFetchResult
    <3>1. AnnounceInsert(Min(ongoing), Max(ongoing)) /\ InConnectedLoop
      BY <2>5 DEF OnFetchResult, InConnectedLoop
    <3>2. Min(ongoing) \in Heights /\ Max(ongoing) \in Heights /\ Min(ongoing) <= Max(ongoing)
          /\ ongoing = Min(ongoing)..Max(ongoing)
      BY <2>5, UnderWayEnds, Zenon DEF OnFetchResult, SyncInv
    <3>3. ongoing \cap Had = {}
      BY <2>0, <3>1, Zenon DEF KnownInv
    <3> QED
      BY <1>b, <2>0, <3>1, <3>2, <3>3, Zenon
  <2> QED
    BY <1>1, <2>1, <2>2, <2>3, <2>4, <2>5 DEF SyncerMoves, SyncerStep
<1>2. CASE Restart
  <2>1. lastSent' = 0 /\ pending' = <<>>
    BY <1>2 DEF Restart
  <2>2. 1..Len(<<>>) = {}
    OBVIOUS
  <2> QED
    BY <2>1, <2>2 DEF PendingInv
<1>3. CASE (Environment /\ ~Restart) \/ UNCHANGED vars
  <2>1. PendingInv
    BY <1>3, Zenon DEF FreshInv, Environment, Tick, PeerConnects, AllPeersDisconnect, GossipHeader,
                DaserSamples, PrunerRemoves, boundVars, vars
  <2>2. UNCHANGED <<spc, initHead, broadcastVars>>
    BY <1>3, Zenon DEF Environment, Tick, PeerConnects, AllPeersDisconnect, GossipHeader,
                DaserSamples, PrunerRemoves, syncerVars, syncerLocal, vars
  <2>3. Had' = Had
    BY <1>3, Zenon DEF Environment, Tick, PeerConnects, AllPeersDisconnect, GossipHeader,
                DaserSamples, PrunerRemoves, storeVars, vars, StoreMarkAsSampled,
                StoreRemoveHeight, Had
  <2> QED
    BY <1>a, <2>1, <2>2, <2>3
<1> QED
  BY <1>1, <1>2, <1>3 DEF Next

\* While no trusted peer lagged, header-sub brings new headers only, and what
\* is above the last announced height is pending.
THEOREM FreshInvariant == Spec => [](Types /\ SyncInv /\ StreamInv /\ FreshInv)
<1>1. Init => FreshInv
  <2>1. 1..Len(<<>>) = {}
    OBVIOUS
  <2> QED
    BY <2>1, Zenon DEF Init, StoreInit, BroadcastInit, SyncerInit, FreshInv, KnownInv, PendingInv,
                InConnectedLoop, Had
<1>2. /\ Types /\ SyncInv /\ StreamInv /\ FreshInv
      /\ [Next]_vars
      /\ Types'
      => FreshInv'
  BY StepKeepsKnown, StepKeepsPending DEF FreshInv
<1> QED
  BY <1>1, <1>2, StreamInvariant, PTL DEF Spec

\* The stream never gets stuck, unless a trusted peer reports a head below
\* what the node has: if the header after the last announced one is known, it
\* is the start of a pending range.
THEOREM StreamSkipsNothing == Spec => []NothingIsSkipped
<1>1. Types /\ SyncInv /\ StreamInv /\ FreshInv => NothingIsSkipped
  <2> SUFFICES ASSUME Types, StreamInv, PendingInv, spc = "select", lastSent # 0,
                      lastSent + 1 \in Had
               PROVE  \E i \in 1..Len(pending) : pending[i].lo = lastSent + 1
    BY DEF FreshInv, NothingIsSkipped, StreamContinues
  <2>1. lastSent \in Int /\ lastSent + 1 > lastSent /\ pending \in Seq(HeightRanges)
    BY MaxHeightAssumption DEF StreamInv, BroadcastTypeOK
  <2>2. PICK i \in 1..Len(pending) :
             lastSent < pending[i].lo /\ lastSent + 1 \in pending[i].lo..pending[i].hi
    BY <2>1, Zenon DEF PendingInv
  <2>3. pending[i] \in HeightRanges
    BY <2>1
  <2>4. pending[i].lo \in Int /\ pending[i].hi \in Int
    BY <2>3, MaxHeightAssumption DEF HeightRanges, Heights
  <2>5. pending[i].lo = lastSent + 1
    BY <2>1, <2>2, <2>4
  <2> QED
    BY <2>5
<1> QED
  BY <1>1, FreshInvariant, PTL

\* While no trusted peer lagged, the assertion of announce_insert holds: a
\* range to be inserted is below or above the last announced height.
THEOREM RangeNeverCrosses == Spec => []NeverCrossesLastSent
<1>1. Types /\ SyncInv /\ StreamInv /\ FreshInv => NeverCrossesLastSent
  <2> SUFFICES ASSUME Types, SyncInv, StreamInv, KnownInv, PendingInv
               PROVE  /\ spc = "insertSub" => initHead > lastSent
                      /\ spc = "select" /\ ongoing # {}
                            => Max(ongoing) < lastSent \/ Min(ongoing) > lastSent
    BY DEF FreshInv, NeverCrossesLastSent
  <2>0. lastSent \in Int
    BY MaxHeightAssumption DEF StreamInv, BroadcastTypeOK
  <2>1. ASSUME spc = "insertSub" PROVE initHead > lastSent
    <3>1. initHead \in Heights /\ lastSent \in Had /\ \A h \in Had : h < initHead
      BY <2>1, Zenon DEF SyncInv, StreamInv, KnownInv, PendingInv, InConnectedLoop
    <3>2. initHead \in Int
      BY <3>1, MaxHeightAssumption DEF Heights
    <3> QED
      BY <2>0, <3>1, <3>2
  <2>2. ASSUME spc = "select", ongoing # {}
        PROVE  Max(ongoing) < lastSent \/ Min(ongoing) > lastSent
    <3>1. lastSent \in Had /\ ongoing \cap Had = {}
      BY <2>2, Zenon DEF StreamInv, KnownInv, PendingInv, InConnectedLoop
    <3>2. Min(ongoing) \in Heights /\ Max(ongoing) \in Heights
          /\ ongoing = Min(ongoing)..Max(ongoing)
      BY <2>2, UnderWayEnds DEF SyncInv
    <3>3. Min(ongoing) \in Int /\ Max(ongoing) \in Int
      BY <3>2, MaxHeightAssumption DEF Heights
    <3>4. lastSent \notin Min(ongoing)..Max(ongoing)
      BY <3>1, <3>2, Zenon
    <3> QED
      BY <2>0, <3>3, <3>4
  <2> QED
    BY <2>1, <2>2
<1> QED
  BY <1>1, FreshInvariant, PTL
=============================================================================
