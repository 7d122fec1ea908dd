------------------------- MODULE BroadcastingStore -------------------------
(***************************************************************************)
(* The store as the Syncer sees it (node/src/node/subscriptions.rs): each  *)
(* range it inserts above the last announced height is announced to the    *)
(* subscribers, in order; a range that leaves a gap waits in `pending`     *)
(* until the gap is filled.                                                *)
(***************************************************************************)
EXTENDS HeaderStore, Sequences

VARIABLES
    lastSent,   \* last_sent_height, 0 for None
    pending,    \* ranges not announced yet
    stream      \* the heights announced so far, as a subscriber saw them

broadcastVars == <<lastSent, pending, stream>>

HeightRanges == [lo : Heights, hi : Heights]

BroadcastTypeOK ==
    /\ lastSent \in 0..MaxHeight
    /\ pending \in Seq(HeightRanges)
    /\ stream \in Seq(Heights)

BroadcastInit ==
    /\ lastSent = 0
    /\ pending = <<>>
    /\ stream = <<>>

-----------------------------------------------------------------------------
(* What announcing does to a record of last, pending and stream.           *)

HeightsOf(r) == [i \in 1..(r.hi - r.lo + 1) |-> r.lo + i - 1]

SendRange(s, r) == [s EXCEPT !.last = r.hi, !.stream = @ \o HeightsOf(r)]

\* Vec::swap_remove
SwapRemove(seq, i) ==
    [j \in 1..(Len(seq) - 1) |-> IF j = i THEN seq[Len(seq)] ELSE seq[j]]

\* May the pending range r be announced after height `last`?
FollowsLoosely(last, r) == r.lo > last  \* mutation: gaps are not waited for
Follows(last, r) == r.lo = last + 1

\* One round of the loop over `pending`: announce the first range that may.
AnnounceOne(s) ==
    LET ready == {i \in 1..Len(s.pending) : Follows(s.last, s.pending[i])}
    IN  IF ready = {} THEN s
        ELSE LET i == Min(ready)
             IN  SendRange([s EXCEPT !.pending = SwapRemove(@, i)], s.pending[i])

\* ... until none may.
AnnouncePending(s) ==
    LET after[n \in 0..Len(s.pending)] == IF n = 0 THEN s ELSE AnnounceOne(after[n - 1])
    IN  after[Len(s.pending)]

-----------------------------------------------------------------------------

\* Mutation: the head found on reconnecting is ignored.
InitBroadcastOnce(h) ==
    IF lastSent = 0
    THEN lastSent' = h /\ stream' = Append(stream, h) /\ UNCHANGED pending
    ELSE UNCHANGED broadcastVars

\* init_broadcast: the first network head starts the stream, a later one may
\* have left a gap.
InitBroadcast(h) ==
    IF lastSent = 0
    THEN lastSent' = h /\ stream' = Append(stream, h) /\ UNCHANGED pending
    ELSE pending' = Append(pending, [lo |-> h, hi |-> h]) /\ UNCHANGED <<lastSent, stream>>

\* Announce lo..hi if it is above the last announced height.
Announce(lo, hi) ==
    LET r == [lo |-> lo, hi |-> hi]
        s == [last |-> lastSent, pending |-> pending, stream |-> stream]
        after == AnnouncePending(IF lastSent + 1 = lo THEN SendRange(s, r)
                                 ELSE [s EXCEPT !.pending = Append(@, r)])
    IN  IF lo < lastSent THEN UNCHANGED broadcastVars
        ELSE lastSent' = after.last /\ pending' = after.pending /\ stream' = after.stream

\* Mutation: what is not announced is not inserted either.
AnnounceInsertAhead(lo, hi) ==
    IF InsertionConstraintsMet(lo, hi) /\ lo > lastSent
    THEN StoreInsert(lo, hi) /\ Announce(lo, hi)
    ELSE UNCHANGED <<storeVars, broadcastVars>>

\* announce_insert: a rejected insertion returns the error before anything is
\* announced.
AnnounceInsert(lo, hi) ==
    IF InsertionConstraintsMet(lo, hi)
    THEN StoreInsert(lo, hi) /\ Announce(lo, hi)
    ELSE UNCHANGED <<storeVars, broadcastVars>>
=============================================================================
