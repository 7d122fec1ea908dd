------------------------ MODULE HeaderExchangeProofs ------------------------
(***************************************************************************)
(* Proofs about header sessions and the header exchange client.            *)
(***************************************************************************)
EXTENDS HeaderExchange, IntervalLemmas, FiniteSetTheorems

-----------------------------------------------------------------------------
(* Sequences                                                               *)

\* What is appended comes last.
LEMMA Appending ==
    ASSUME NEW S, NEW s \in Seq(S), NEW e \in S
    PROVE  /\ Append(s, e) \in Seq(S) /\ DOMAIN Append(s, e) = 1..(Len(s) + 1)
           /\ \A i \in 1..Len(s) : Append(s, e)[i] = s[i]
           /\ Append(s, e)[Len(s) + 1] = e
  OBVIOUS

\* One sequence after another.
LEMMA Joining ==
    ASSUME NEW S, NEW s \in Seq(S), NEW t \in Seq(S)
    PROVE  /\ s \o t \in Seq(S) /\ Len(s \o t) = Len(s) + Len(t)
           /\ \A i \in 1..(Len(s) + Len(t)) :
                 (s \o t)[i] = IF i <= Len(s) THEN s[i] ELSE t[i - Len(s)]
           /\ <<>> \o s = s
  OBVIOUS

\* Sequences with the same elements are the same.
LEMMA SameElements ==
    ASSUME NEW S, NEW s \in Seq(S), NEW t \in Seq(S), Len(s) = Len(t),
           \A i \in 1..Len(s) : s[i] = t[i]
    PROVE  s = t
  OBVIOUS

-----------------------------------------------------------------------------
(* Ranges of headers and their batches                                     *)

LEMMA HeightsAreNumbers == Heights \subseteq Int /\ Heights \subseteq 0..MaxHeight
  BY ClientAssumption DEF Heights

\* How many headers of a range are above one of it.
LEMMA CountAbove ==
    ASSUME NEW lo \in Int, NEW hi \in Int, NEW h \in lo..hi
    PROVE  Cardinality({g \in lo..hi : g > h}) = hi - h
<1>1. {g \in lo..hi : g > h} = (h + 1)..hi
  OBVIOUS
<1>2. h \in Int /\ h + 1 \in Int /\ h <= hi
  OBVIOUS
<1>3. Cardinality((h + 1)..hi) = IF h + 1 > hi THEN 0 ELSE hi - (h + 1) + 1
  BY <1>2, FS_Interval
<1>4. Cardinality((h + 1)..hi) = hi - h
  BY <1>2, <1>3
<1> QED
  BY <1>1, <1>4, Zenon

\* take_next_batch takes the top of a range.
LEMMA BatchOfRange ==
    ASSUME NEW lo \in Int, NEW hi \in Int
    PROVE  TakeNextBatch(lo..hi) = {h \in lo..hi : hi - h < BatchSize}
  BY CountAbove DEF TakeNextBatch

\* What k batches leave of a range.
LEMMA LeftOfRange ==
    ASSUME NEW lo \in Int, NEW hi \in Int, NEW k
    PROVE  LeftAfter(lo..hi, k) = {h \in lo..hi : hi - h >= k * BatchSize}
  BY CountAbove DEF LeftAfter

\* A block range is a finite set of heights.
LEMMA BlockRangeFinite ==
    ASSUME NEW S, IsBlockRange(S)
    PROVE  IsFiniteSet(S) /\ Cardinality(S) \in Nat /\ S \subseteq Heights
<1>1. PICK lo \in Heights, hi \in 0..MaxHeight : S = lo..hi
  BY DEF IsBlockRange
<1>2. lo \in Int /\ hi \in Int
  BY ClientAssumption DEF Heights
<1>3. IsFiniteSet(S)
  BY <1>1, <1>2, FS_Interval
<1>4. S \subseteq Heights
  BY <1>1, <1>2, ClientAssumption DEF Heights
<1> QED
  BY <1>3, <1>4, FS_CardinalityType

\* The size of a batch is positive.
LEMMA BatchSizePositive ==
    ASSUME IsBlockRange(range)
    PROVE  BatchSize \in Nat \ {0}
<1> DEFINE even == (Cardinality(range) + MaxConcurrent - 1) \div MaxConcurrent
<1>1. Cardinality(range) \in Nat
  BY BlockRangeFinite
<1>2. even \in Int
  BY <1>1, SessionAssumption
<1>3. MinAmount \in Int /\ MaxAmount \in Int /\ MinAmount >= 1 /\ MinAmount <= MaxAmount
  BY SessionAssumption
<1> HIDE DEF even
<1>4. Max({even, MinAmount}) \in Int /\ Max({even, MinAmount}) >= 1
  <2>1. Max({even, MinAmount}) \in {even, MinAmount} /\ Max({even, MinAmount}) >= MinAmount
    BY <1>2, <1>3, MaxOfPair, Zenon
  <2>2. PICK m \in Int : m = Max({even, MinAmount}) /\ m >= MinAmount
    BY <1>2, <1>3, <2>1, Zenon
  <2>3. m >= 1
    BY <1>3, <2>2
  <2> QED
    BY <2>2, <2>3, Zenon
<1>5. Min({Max({even, MinAmount}), MaxAmount}) \in {Max({even, MinAmount}), MaxAmount}
  BY <1>3, <1>4, MinOfPair
<1> QED
  BY <1>3, <1>4, <1>5 DEF BatchSize, even

\* A batch and what it leaves of a block range.
LEMMA BatchSplits ==
    ASSUME IsBlockRange(range), NEW S, IsBlockRange(S)
    PROVE  /\ IsBlockRange(TakeNextBatch(S)) /\ IsBlockRange(S \ TakeNextBatch(S))
           /\ TakeNextBatch(S) \subseteq S
           /\ S # {} => TakeNextBatch(S) # {}
<1>1. PICK lo \in Heights, hi \in 0..MaxHeight : S = lo..hi
  BY DEF IsBlockRange
<1>2. lo \in Int /\ hi \in Int /\ BatchSize \in Int /\ BatchSize >= 1 /\ MaxHeight \in Int
      /\ lo >= 1 /\ lo <= MaxHeight /\ hi >= 0 /\ hi <= MaxHeight
  BY BatchSizePositive, ClientAssumption DEF Heights
<1>3. TakeNextBatch(S) = {h \in lo..hi : hi - h < BatchSize}
  BY <1>1, <1>2, BatchOfRange
<1> DEFINE B == BatchSize
<1> HIDE DEF B
<1>4. B = BatchSize /\ B \in Int /\ B >= 1
  BY <1>2 DEF B
<1>5. CASE hi - B >= lo
  <2>1. TakeNextBatch(S) = (hi - B + 1)..hi
    BY <1>2, <1>3, <1>4, <1>5
  <2>2. S \ TakeNextBatch(S) = lo..(hi - B)
    BY <1>1, <1>2, <1>4, <1>5, <2>1
  <2>3. hi - B + 1 \in Heights /\ hi - B \in 0..MaxHeight
    BY <1>2, <1>4, <1>5 DEF Heights
  <2>4. IsBlockRange(TakeNextBatch(S)) /\ IsBlockRange(S \ TakeNextBatch(S))
    BY <2>1, <2>2, <2>3 DEF IsBlockRange
  <2>5. hi \in TakeNextBatch(S)
    BY <1>2, <1>4, <2>1
  <2> QED
    BY <1>1, <1>3, <2>4, <2>5
<1>6. CASE hi - B < lo
  <2>1. \A h \in lo..hi : hi - h < B
    BY <1>2, <1>4, <1>6
  <2>2. TakeNextBatch(S) = S
    BY <1>1, <1>3, <1>4, <2>1, Zenon
  <2>3. IsBlockRange({})
    <3>1. 1 \in Heights /\ 0 \in 0..MaxHeight /\ 1..0 = {}
      BY ClientAssumption DEF Heights
    <3> QED
      BY <3>1 DEF IsBlockRange
  <2> QED
    BY <2>2, <2>3
<1> QED
  BY <1>2, <1>4, <1>5, <1>6

-----------------------------------------------------------------------------
(* Requests                                                                *)

\* A request for another stage of the same headers.
Same(q, r) == q.lo = r.lo /\ q.n = r.n

LEMMA SameRequested ==
    ASSUME NEW q, NEW r, Same(q, r)
    PROVE  Requested(q) = Requested(r)
  BY DEF Same, Requested

\* An answer, which is a request whose headers arrived.
LEMMA AnswerOK ==
    ASSUME NEW r, RequestOK(r), NEW got \in ChannelClosed..r.n
    PROVE  /\ closed => Answer(r, got) = {}
           /\ ~closed => \E q : Answer(r, got) = {q} /\ RequestOK(q) /\ Same(q, r)
<1> DEFINE q == [r EXCEPT !.stage = "answered", !.kind = "any", !.tries = 0, !.peer = NoPeer,
                          !.got = got]
<1>1. r \in Requests /\ r.n \in Heights /\ r.lo \in Heights
  BY DEF RequestOK, Requests
<1>2. got \in ChannelClosed..MaxHeight /\ got <= r.n /\ 0 \in 0..MaxTries
  BY <1>1, ClientAssumption DEF Heights, ChannelClosed
<1>3. q \in Requests
  BY <1>1, <1>2, Zenon DEF Requests
<1>4. q.lo = r.lo /\ q.n = r.n /\ q.got = got /\ q.stage = "answered"
  BY <1>1 DEF Requests
<1>5. Same(q, r)
  BY <1>4 DEF Same
<1>6. RequestOK(q)
  <2> HIDE DEF q
  <2> QED
    BY <1>2, <1>3, <1>4, <1>5, SameRequested DEF RequestOK
<1>7. Answer(r, got) = IF closed THEN {} ELSE {q}
  BY DEF Answer
<1> HIDE DEF q
<1> QED
  BY <1>5, <1>6, <1>7

\* A request that failed waits for another peer, or is answered.
LEMMA AfterFailureOK ==
    ASSUME NEW r, RequestOK(r), r.stage = "sent"
    PROVE  /\ closed => AfterFailure(r) = {}
           /\ ~closed => \E q : AfterFailure(r) = {q} /\ RequestOK(q) /\ Same(q, r)
<1>1. r \in Requests /\ r.n \in Heights /\ r.tries \in Nat
  BY ClientAssumption DEF RequestOK, Requests
<1>2. HeaderExError \in ChannelClosed..r.n
  BY <1>1, ClientAssumption DEF Heights, HeaderExError, ChannelClosed
<1>3. CASE CanRetry(r)
  <2> DEFINE q == [r EXCEPT !.stage = "pending", !.kind = NextPeerKind(r), !.peer = NoPeer]
  <2>1. NextPeerKind(r) \in {"any", "archival"} /\ (r.tries = 1 => NextPeerKind(r) = "archival")
    BY <1>1 DEF NextPeerKind, Requests
  <2>2. q \in Requests
    BY <1>1, <2>1, Zenon DEF Requests
  <2>3. q.lo = r.lo /\ q.n = r.n /\ q.got = r.got /\ q.stage = "pending" /\ q.tries = r.tries
        /\ q.kind = NextPeerKind(r)
    BY <1>1 DEF Requests
  <2>4. Same(q, r) /\ r.tries > 0 /\ ~closed
    BY <1>3, <2>3 DEF Same, CanRetry
  <2>5. RequestOK(q)
    <3> HIDE DEF q
    <3> QED
      BY <2>1, <2>2, <2>3, <2>4, SameRequested DEF RequestOK
  <2>6. AfterFailure(r) = {q}
    BY <1>3 DEF AfterFailure
  <2> HIDE DEF q
  <2> QED
    BY <2>4, <2>5, <2>6
<1>4. CASE ~CanRetry(r)
  BY <1>2, <1>4, AnswerOK DEF AfterFailure
<1> QED
  BY <1>3, <1>4

\* A request that is sent to a peer of its kind.
LEMMA SentOK ==
    ASSUME NEW r, RequestOK(r), r.stage = "pending", connected \subseteq Peers,
           NEW p \in Eligible(r.kind)
    PROVE  LET q == [r EXCEPT !.stage = "sent", !.tries = @ - 1, !.peer = p]
           IN  RequestOK(q) /\ Same(q, r)
<1> DEFINE q == [r EXCEPT !.stage = "sent", !.tries = @ - 1, !.peer = p]
<1>1. r \in Requests /\ r.tries \in 0..MaxTries /\ r.tries > 0 /\ (r.tries = 1 => r.kind = "archival")
  BY DEF RequestOK, Requests
<1>2. r.tries - 1 \in 0..MaxTries /\ (r.tries - 1 = 0 => r.tries = 1)
  BY <1>1, ClientAssumption
<1>3. p \in Peers /\ (r.kind = "archival" => p \in Archival)
  BY DEF Eligible
<1>4. q \in Requests
  BY <1>1, <1>2, <1>3, Zenon DEF Requests
<1>5. q.lo = r.lo /\ q.n = r.n /\ q.got = r.got /\ q.stage = "sent" /\ q.tries = r.tries - 1
      /\ q.peer = p
  BY <1>1 DEF Requests
<1>6. Same(q, r)
  BY <1>5 DEF Same
<1>7. RequestOK(q)
  <2> HIDE DEF q
  <2> QED
    BY <1>1, <1>2, <1>3, <1>4, <1>5, <1>6, SameRequested DEF RequestOK
<1> QED
  BY <1>6, <1>7

\* Every request of S is one of R that was rewritten, and every one of R has one in S.
Rewritten(R, S) ==
    \E g \in [R -> S] : (\A r \in R : Same(g[r], r)) /\ (\A q \in S : \E r \in R : g[r] = q)

\* A step that replaces each request by another one.
LEMMA EachRewritten ==
    ASSUME NEW R, NEW A, NEW S, \A r \in R : \E q : A[r] = {q} /\ Same(q, r),
           \A q : q \in S <=> \E r \in R : q \in A[r]
    PROVE  Rewritten(R, S)
<1> DEFINE g == [r \in R |-> CHOOSE q : q \in A[r]]
<1>1. ASSUME NEW r \in R PROVE A[r] = {g[r]} /\ Same(g[r], r) /\ g[r] \in S
  <2>1. PICK q : A[r] = {q} /\ Same(q, r)
    OBVIOUS
  <2>2. g[r] = q
    BY <2>1
  <2> QED
    BY <2>1, <2>2
<1>2. g \in [R -> S]
  BY <1>1
<1> HIDE DEF g
<1>3. \A q \in S : \E r \in R : g[r] = q
  <2> SUFFICES ASSUME NEW q \in S PROVE \E r \in R : g[r] = q
    OBVIOUS
  <2>1. PICK r \in R : q \in A[r]
    BY Zenon
  <2>2. q = g[r]
    BY <1>1, <2>1
  <2> QED
    BY <2>2, Zenon
<1> QED
  BY <1>1, <1>2, <1>3, Zenon DEF Rewritten

\* What a step of the client does to the requests.
RequestsStep == (\A q \in requests' : RequestOK(q)) /\ (~closed => Rewritten(requests, requests'))

LEMMA SplitStep ==
    ASSUME NEW A,
           \A r \in requests : \A q \in A[r] : RequestOK(q),
           ~closed => \A r \in requests : \E q : A[r] = {q} /\ Same(q, r),
           requests' = UNION {A[r] : r \in requests}
    PROVE  RequestsStep
<1>0. \A q : q \in requests' <=> \E r \in requests : q \in A[r]
  OBVIOUS
<1>1. \A q \in requests' : RequestOK(q)
  BY <1>0, Zenon
<1>2. ~closed => Rewritten(requests, requests')
  BY <1>0, EachRewritten, Zenon
<1> QED
  BY <1>1, <1>2 DEF RequestsStep

LEMMA SameStep ==
    ASSUME RequestsInv, requests' = requests
    PROVE  RequestsStep
<1> DEFINE A == [r \in requests |-> {r}]
<1>1. requests' = UNION {A[r] : r \in requests}
  OBVIOUS
<1>2. \A r \in requests : \A q \in A[r] : RequestOK(q)
  BY DEF RequestsInv
<1>3. \A r \in requests : \E q : A[r] = {q} /\ Same(q, r)
  BY DEF Same
<1> HIDE DEF A
<1> QED
  BY <1>1, <1>2, <1>3, SplitStep, Zenon

\* One request is replaced.
LEMMA ReplaceStep ==
    ASSUME RequestsInv, NEW r \in requests, NEW X,
           \A q \in X : RequestOK(q),
           ~closed => \E q : X = {q} /\ Same(q, r),
           requests' = (requests \ {r}) \cup X
    PROVE  RequestsStep
<1> DEFINE A == [x \in requests |-> IF x = r THEN X ELSE {x}]
<1>1. requests' = UNION {A[x] : x \in requests}
  <2>1. A[r] = X /\ \A x \in requests \ {r} : A[x] = {x}
    OBVIOUS
  <2> HIDE DEF A
  <2>2. requests' \subseteq UNION {A[x] : x \in requests}
    BY <2>1
  <2>3. \A x \in requests : A[x] \subseteq requests'
    BY <2>1
  <2> QED
    BY <2>2, <2>3
<1>2. \A x \in requests : \A q \in A[x] : RequestOK(q)
  BY DEF RequestsInv
<1>3. ~closed => \A x \in requests : \E q : A[x] = {q} /\ Same(q, x)
  BY DEF Same
<1> HIDE DEF A
<1> QED
  BY <1>1, <1>2, <1>3, SplitStep

\* A number of headers that a peer serves is at most the number asked for.
LEMMA ServedBound ==
    ASSUME NEW p, NEW r, RequestOK(r)
    PROVE  Served(p, r) \in 0..r.n
<1> DEFINE S == {k \in 0..r.n : r.lo..(r.lo + k - 1) \subseteq Held[p]}
<1>1. r.n \in Nat /\ r.lo \in Int
  BY ClientAssumption DEF RequestOK, Requests, Heights
<1>2. 0 \in S
  BY <1>1
<1>3. S \subseteq 0..r.n
  OBVIOUS
<1> HIDE DEF S
<1>4. \E x \in S : \A y \in S : x >= y
  <2>1. CASE S \ {0} = {}
    BY <1>2, <2>1
  <2>2. CASE S \ {0} # {}
    <3>1. S \ {0} \in SUBSET (1..r.n)
      BY <1>1, <1>3
    <3>2. Max(S \ {0}) \in S \ {0} /\ \A y \in S \ {0} : y <= Max(S \ {0})
      BY <1>1, <2>2, <3>1, MaxOfInterval, Zenon
    <3>3. Max(S \ {0}) \in 1..r.n
      BY <3>1, <3>2
    <3>4. \A y \in S : Max(S \ {0}) >= y
      BY <1>1, <1>3, <3>2, <3>3
    <3> QED
      BY <3>2, <3>4
  <2> QED
    BY <2>1, <2>2
<1>5. Max(S) \in S
  BY <1>4, Zenon DEF Max
<1> QED
  BY <1>3, <1>5 DEF Served, S

\* A queue that is scheduled.
LEMMA ScheduledOK ==
    ASSUME RequestsInv, NEW kind, NEW a \in Scheduled(kind)
    PROVE  (\A q \in a : RequestOK(q)) /\ (~closed => Rewritten(Queue(kind), a))
<1> DEFINE Q == Queue(kind)
<1>0. \A r \in Q : RequestOK(r) /\ r.stage = "pending" /\ r.kind = kind
  BY DEF Queue, RequestsInv
<1>1. CASE Eligible(kind) = {}
  <2>1. a = Q
    BY <1>1 DEF Scheduled
  <2> DEFINE A == [r \in Q |-> {r}]
  <2>2. \A r \in Q : \E q : A[r] = {q} /\ Same(q, r)
    BY DEF Same
  <2>3. \A q : q \in a <=> \E r \in Q : q \in A[r]
    BY <2>1
  <2> HIDE DEF A, Q
  <2>4. Rewritten(Q, a)
    BY <2>2, <2>3, EachRewritten, Zenon
  <2> QED
    BY <1>0, <2>1, <2>4 DEF Q
<1>2. CASE Eligible(kind) # {} /\ closed
  BY <1>2 DEF Scheduled
<1>3. CASE Eligible(kind) # {} /\ ~closed
  <2>1. PICK f \in Assignments(Q, Eligible(kind)) :
            a = {[r EXCEPT !.stage = "sent", !.tries = @ - 1, !.peer = f[r]] : r \in Q}
    BY <1>3, Zenon DEF Scheduled
  <2>2. f \in [Q -> Eligible(kind)]
    BY <2>1, Zenon DEF Assignments
  <2> DEFINE sent(r) == [r EXCEPT !.stage = "sent", !.tries = @ - 1, !.peer = f[r]]
             A == [r \in Q |-> {sent(r)}]
  <2>3. connected \subseteq Peers
    BY DEF RequestsInv, ClientTypeOK
  <2>4. \A r \in Q : RequestOK(sent(r)) /\ Same(sent(r), r)
    BY <1>0, <2>2, <2>3, SentOK, Zenon
  <2> HIDE DEF sent
  <2>5. a = {sent(r) : r \in Q}
    BY <2>1, Zenon DEF sent
  <2>6. \A r \in Q : \E q : A[r] = {q} /\ Same(q, r)
    BY <2>4
  <2>7. \A q : q \in a <=> \E r \in Q : q \in A[r]
    BY <2>5
  <2> HIDE DEF A, Q
  <2>8. Rewritten(Q, a)
    BY <2>6, <2>7, EachRewritten, Zenon
  <2>9. \A q \in a : RequestOK(q)
    BY <2>4, <2>5
  <2> QED
    BY <2>8, <2>9 DEF Q
<1> QED
  BY <1>1, <1>2, <1>3

LEMMA OnSendRequestStep == ASSUME RequestsInv, OnSendRequest PROVE RequestsStep
<1>1. PICK r \in requests :
          /\ r.stage = "cmd"
          /\ requests' = (requests \ {r}) \cup {[r EXCEPT !.stage = "pending", !.tries = MaxTries]}
  BY Zenon DEF OnSendRequest
<1> DEFINE q == [r EXCEPT !.stage = "pending", !.tries = MaxTries]
<1>2. RequestOK(r) /\ r \in Requests
  BY DEF RequestsInv, RequestOK
<1>3. MaxTries \in 0..MaxTries /\ MaxTries > 0 /\ MaxTries # 1
  BY ClientAssumption
<1>4. q \in Requests
  BY <1>2, <1>3, Zenon DEF Requests
<1>5. q.lo = r.lo /\ q.n = r.n /\ q.got = r.got /\ q.stage = "pending" /\ q.tries = MaxTries
  BY <1>2 DEF Requests
<1>6. requests' = (requests \ {r}) \cup {q}
  BY <1>1
<1> HIDE DEF q
<1>7. Same(q, r)
  BY <1>5 DEF Same
<1>8. RequestOK(q)
  BY <1>2, <1>3, <1>4, <1>5, <1>7, SameRequested DEF RequestOK
<1> DEFINE X == {q}
<1>9. (\A x \in X : RequestOK(x)) /\ (\E x : X = {x} /\ Same(x, r)) /\ requests' = (requests \ {r}) \cup X
  BY <1>6, <1>7, <1>8
<1> HIDE DEF X
<1> QED
  BY <1>9, ReplaceStep

LEMMA ScheduleStep == ASSUME RequestsInv, SchedulePendingRequests PROVE RequestsStep
<1> DEFINE Qa == Queue("archival")
           Qb == Queue("any")
<1>1. PICK a \in Scheduled("archival"), b \in Scheduled("any") :
          requests' = (requests \ (Qa \cup Qb)) \cup a \cup b
  BY DEF SchedulePendingRequests
<1>2. (\A q \in a : RequestOK(q)) /\ (~closed => Rewritten(Qa, a))
  BY <1>1, ScheduledOK
<1>3. (\A q \in b : RequestOK(q)) /\ (~closed => Rewritten(Qb, b))
  BY <1>1, ScheduledOK
<1>4. \A q \in requests' : RequestOK(q)
  BY <1>1, <1>2, <1>3 DEF RequestsInv
<1>5. Qa \subseteq requests /\ Qb \subseteq requests /\ Qa \cap Qb = {}
  BY DEF Queue
<1> HIDE DEF Qa, Qb
<1>6. ASSUME ~closed PROVE Rewritten(requests, requests')
  <2>1. PICK ga \in [Qa -> a] :
            (\A r \in Qa : Same(ga[r], r)) /\ (\A q \in a : \E r \in Qa : ga[r] = q)
    BY <1>2, <1>6 DEF Rewritten
  <2>2. PICK gb \in [Qb -> b] :
            (\A r \in Qb : Same(gb[r], r)) /\ (\A q \in b : \E r \in Qb : gb[r] = q)
    BY <1>3, <1>6 DEF Rewritten
  <2> DEFINE g == [r \in requests |-> IF r \in Qa THEN ga[r] ELSE IF r \in Qb THEN gb[r] ELSE r]
  <2>3. /\ \A r \in Qa : g[r] = ga[r]
        /\ \A r \in Qb : g[r] = gb[r]
        /\ \A r \in requests \ (Qa \cup Qb) : g[r] = r
    BY <1>5
  <2>4. g \in [requests -> requests']
    BY <1>1, <1>5
  <2> HIDE DEF g
  <2>5. \A r \in requests : Same(g[r], r)
    BY <2>1, <2>2, <2>3 DEF Same
  <2>6. \A q \in requests' : \E r \in requests : g[r] = q
    <3> SUFFICES ASSUME NEW q \in requests' PROVE \E r \in requests : g[r] = q
      OBVIOUS
    <3>1. CASE q \in a
      BY <1>5, <2>1, <2>3, <3>1
    <3>2. CASE q \in b
      BY <1>5, <2>2, <2>3, <3>2
    <3>3. CASE q \in requests \ (Qa \cup Qb)
      BY <2>3, <3>3
    <3> QED
      BY <1>1, <3>1, <3>2, <3>3
  <2> QED
    BY <2>4, <2>5, <2>6 DEF Rewritten
<1> QED
  BY <1>4, <1>6 DEF RequestsStep

LEMMA OnResponseStep == ASSUME RequestsInv, OnResponseReceived PROVE RequestsStep
<1>1. PICK r \in requests :
          /\ r.stage = "sent"
          /\ \/ /\ Served(r.peer, r) = 0
                /\ requests' = (requests \ {r}) \cup AfterFailure(r)
             \/ \E k \in 1..Served(r.peer, r) :
                    requests' = (requests \ {r}) \cup Answer(r, k)
  BY DEF OnResponseReceived
<1>2. RequestOK(r)
  BY DEF RequestsInv
<1>3. CASE requests' = (requests \ {r}) \cup AfterFailure(r)
  <2>1. \A q \in AfterFailure(r) : RequestOK(q)
    BY <1>1, <1>2, AfterFailureOK
  <2>2. ~closed => \E q : AfterFailure(r) = {q} /\ Same(q, r)
    BY <1>1, <1>2, AfterFailureOK
  <2> QED
    BY <1>3, <2>1, <2>2, ReplaceStep, Zenon
<1>4. CASE \E k \in 1..Served(r.peer, r) : requests' = (requests \ {r}) \cup Answer(r, k)
  <2>1. PICK k \in 1..Served(r.peer, r) : requests' = (requests \ {r}) \cup Answer(r, k)
    BY <1>4
  <2>2. Served(r.peer, r) \in 0..r.n /\ r.n \in Int
    BY <1>2, ServedBound, ClientAssumption DEF RequestOK, Requests, Heights
  <2>3. k \in ChannelClosed..r.n
    BY <2>2 DEF ChannelClosed
  <2>4. \A q \in Answer(r, k) : RequestOK(q)
    BY <1>2, <2>3, AnswerOK
  <2>5. ~closed => \E q : Answer(r, k) = {q} /\ Same(q, r)
    BY <1>2, <2>3, AnswerOK
  <2> QED
    BY <2>1, <2>4, <2>5, ReplaceStep
<1> QED
  BY <1>1, <1>3, <1>4

LEMMA OnFailureStep == ASSUME RequestsInv, OnFailure PROVE RequestsStep
<1>1. PICK r \in requests :
          r.stage = "sent" /\ requests' = (requests \ {r}) \cup AfterFailure(r)
  BY DEF OnFailure
<1>2. RequestOK(r)
  BY DEF RequestsInv
<1>3. \A q \in AfterFailure(r) : RequestOK(q)
  BY <1>1, <1>2, AfterFailureOK
<1>4. ~closed => \E q : AfterFailure(r) = {q} /\ Same(q, r)
  BY <1>1, <1>2, AfterFailureOK
<1> QED
  BY <1>1, <1>3, <1>4, ReplaceStep

LEMMA PeerDisconnectsStep == ASSUME RequestsInv, PeerDisconnects PROVE RequestsStep
<1>1. PICK p \in connected :
          requests' = UNION {IF r.stage = "sent" /\ r.peer = p THEN AfterFailure(r) ELSE {r}
                               : r \in requests}
  BY DEF PeerDisconnects
<1> DEFINE A == [r \in requests |-> IF r.stage = "sent" /\ r.peer = p THEN AfterFailure(r) ELSE {r}]
<1>2. requests' = UNION {A[r] : r \in requests}
  BY <1>1
<1>3. ASSUME NEW r \in requests
      PROVE  (\A q \in A[r] : RequestOK(q)) /\ (~closed => \E q : A[r] = {q} /\ Same(q, r))
  <2>1. RequestOK(r)
    BY DEF RequestsInv
  <2>2. CASE r.stage = "sent" /\ r.peer = p
    <3>1. A[r] = AfterFailure(r)
      BY <2>2
    <3> QED
      BY <2>1, <2>2, <3>1, AfterFailureOK
  <2>3. CASE ~(r.stage = "sent" /\ r.peer = p)
    BY <2>1, <2>3 DEF Same
  <2> QED
    BY <2>2, <2>3
<1> HIDE DEF A
<1> QED
  BY <1>2, <1>3, SplitStep

LEMMA OnStopStep == ASSUME RequestsInv, OnStop PROVE RequestsStep
<1> DEFINE A == [r \in requests |-> IF r.stage \in {"pending", "sent"} THEN Answer(r, HeaderExError) ELSE {r}]
<1>2. requests' = UNION {A[r] : r \in requests}
  BY DEF OnStop
<1>3. ASSUME NEW r \in requests
      PROVE  (\A q \in A[r] : RequestOK(q)) /\ (~closed => \E q : A[r] = {q} /\ Same(q, r))
  <2>1. RequestOK(r) /\ HeaderExError \in ChannelClosed..r.n
    BY ClientAssumption DEF RequestsInv, RequestOK, Requests, Heights, HeaderExError, ChannelClosed
  <2>2. CASE r.stage \in {"pending", "sent"}
    <3>1. A[r] = Answer(r, HeaderExError)
      BY <2>2
    <3> QED
      BY <2>1, <3>1, AnswerOK
  <2>3. CASE r.stage \notin {"pending", "sent"}
    BY <2>1, <2>3 DEF Same
  <2> QED
    BY <2>2, <2>3
<1> HIDE DEF A
<1> QED
  BY <1>2, <1>3, SplitStep

LEMMA WorkerDiesStep == ASSUME RequestsInv, WorkerDies PROVE RequestsStep
<1> DEFINE A == [r \in requests |-> IF r.stage = "cmd" THEN Answer(r, ChannelClosed) ELSE {r}]
<1>2. requests' = UNION {A[r] : r \in requests}
  BY DEF WorkerDies
<1>3. ASSUME NEW r \in requests
      PROVE  (\A q \in A[r] : RequestOK(q)) /\ (~closed => \E q : A[r] = {q} /\ Same(q, r))
  <2>1. RequestOK(r) /\ ChannelClosed \in ChannelClosed..r.n
    BY ClientAssumption DEF RequestsInv, RequestOK, Requests, Heights, ChannelClosed
  <2>2. CASE r.stage = "cmd"
    <3>1. A[r] = Answer(r, ChannelClosed)
      BY <2>2
    <3> QED
      BY <2>1, <3>1, AnswerOK
  <2>3. CASE r.stage # "cmd"
    BY <2>1, <2>3 DEF Same
  <2> QED
    BY <2>2, <2>3
<1> HIDE DEF A
<1> QED
  BY <1>2, <1>3, SplitStep

\* Every step of the client rewrites the requests.
LEMMA ClientStep == ASSUME RequestsInv, ClientNext PROVE RequestsStep
<1>1. CASE OnSendRequest BY <1>1, OnSendRequestStep
<1>2. CASE SchedulePendingRequests BY <1>2, ScheduleStep
<1>3. CASE OnResponseReceived BY <1>3, OnResponseStep
<1>4. CASE OnFailure BY <1>4, OnFailureStep
<1>5. CASE PeerDisconnects BY <1>5, PeerDisconnectsStep
<1>6. CASE OnStop BY <1>6, OnStopStep
<1>7. CASE WorkerDies BY <1>7, WorkerDiesStep
<1>8. CASE \/ AskHead \/ OnSendHeadRequest \/ CallerLeaves \/ NeedMorePeersAgain
           \/ OnHeadResponse \/ OnHeadTaskDone \/ PeerConnects \/ PeerFound
  <2>1. requests' = requests
    BY <1>8 DEF AskHead, OnSendHeadRequest, CallerLeaves, NeedMorePeersAgain,
                OnHeadResponse, OnHeadTaskDone, PeerConnects, PeerFound
  <2> QED
    BY <2>1, SameStep
<1> QED
  BY <1>1, <1>2, <1>3, <1>4, <1>5, <1>6, <1>7, <1>8 DEF ClientNext

\* What becomes of the callers of the head.
LEMMA AnswerHeadReqsType ==
    ASSUME callers \in [Callers -> CallerStates], NEW best \in Heads
    PROVE  AnswerHeadReqs(best) \in [Callers -> CallerStates]
<1>1. [state |-> "answered", head |-> best] \in CallerStates /\ [state |-> "gone"] \in CallerStates
  BY DEF CallerStates
<1> DEFINE f(c) == CASE callers[c].state = "queued" -> [state |-> "answered", head |-> best]
                     [] callers[c].state = "left" -> [state |-> "gone"]
                     [] OTHER -> callers[c]
<1>2. ASSUME NEW c \in Callers PROVE f(c) \in CallerStates
  <2>1. callers[c] \in CallerStates
    OBVIOUS
  <2>2. CASE callers[c].state = "queued"
    BY <1>1, <2>2
  <2>3. CASE callers[c].state = "left"
    BY <1>1, <2>3
  <2>4. CASE callers[c].state \notin {"queued", "left"}
    BY <2>1, <2>4
  <2> QED
    BY <2>2, <2>3, <2>4
<1>3. AnswerHeadReqs(best) = [c \in Callers |-> f(c)]
  BY DEF AnswerHeadReqs
<1> HIDE DEF f
<1> QED
  BY <1>2, <1>3

\* ... and when the worker stops.
LEMMA CancelHeadReqsType ==
    ASSUME callers \in [Callers -> CallerStates]
    PROVE  CancelHeadReqs \in [Callers -> CallerStates]
<1>1. [state |-> "failed"] \in CallerStates /\ [state |-> "gone"] \in CallerStates
  BY DEF CallerStates
<1> DEFINE f(c) == CASE callers[c].state = "queued" -> [state |-> "failed"]
                     [] callers[c].state = "left" -> [state |-> "gone"]
                     [] OTHER -> callers[c]
<1>2. ASSUME NEW c \in Callers PROVE f(c) \in CallerStates
  <2>1. callers[c] \in CallerStates
    OBVIOUS
  <2>2. CASE callers[c].state = "queued"
    BY <1>1, <2>2
  <2>3. CASE callers[c].state = "left"
    BY <1>1, <2>3
  <2>4. CASE callers[c].state \notin {"queued", "left"}
    BY <2>1, <2>4
  <2> QED
    BY <2>2, <2>3, <2>4
<1>3. CancelHeadReqs = [c \in Callers |-> f(c)]
  BY DEF CancelHeadReqs
<1> HIDE DEF f
<1> QED
  BY <1>2, <1>3

\* The types of the rest of the client.
LEMMA ClientTypeStep ==
    ASSUME RequestsInv, ClientNext
    PROVE  ClientTypeOK'
<1> USE DEF RequestsInv, ClientTypeOK
<1>0. requests' \subseteq Requests
  BY ClientStep DEF RequestsStep, RequestOK
<1>a. \A s \in {"idle", "cmd", "queued", "left", "gone", "failed"} : [state |-> s] \in CallerStates
  BY DEF CallerStates
<1>1. CASE OnSendRequest
  BY <1>0, <1>1 DEF OnSendRequest
<1>2. CASE AskHead
  <2>1. callers' \in [Callers -> CallerStates]
    BY <1>a, <1>2 DEF AskHead
  <2> QED
    BY <1>0, <1>2, <2>1 DEF AskHead
<1>3. CASE OnSendHeadRequest
  <2>1. callers' \in [Callers -> CallerStates]
    BY <1>a, <1>3 DEF OnSendHeadRequest
  <2> QED
    BY <1>0, <1>3, <2>1 DEF OnSendHeadRequest
<1>4. CASE CallerLeaves
  <2>1. callers' \in [Callers -> CallerStates]
    BY <1>a, <1>4 DEF CallerLeaves
  <2> QED
    BY <1>0, <1>4, <2>1 DEF CallerLeaves
<1>5. CASE SchedulePendingRequests
  <2>0. ScheduleHead /\ asked' = asked \cup Needs
        /\ UNCHANGED <<closed, connected, worker, failures>>
    BY <1>5 DEF SchedulePendingRequests
  <2>1. callers' \in [Callers -> CallerStates]
    BY <1>a, <2>0 DEF ScheduleHead
  <2>2. DOMAIN headBatch' \subseteq Trusted
        /\ \A p \in DOMAIN headBatch' : headBatch'[p] \in Heads \cup {Waiting, NoHead}
    <3>1. CASE headBatch' = headBatch
      BY <3>1
    <3>2. CASE headBatch' = <<>>
      BY <3>2
    <3>3. CASE headBatch' = [p \in connected \cap Trusted |-> Waiting]
      BY <3>3
    <3> QED
      BY <2>0, <3>1, <3>2, <3>3 DEF ScheduleHead
  <2>3. Needs \subseteq {"trusted", "archival"}
    BY DEF Needs
  <2>4. asked' \subseteq {"trusted", "archival"}
    BY <2>0, <2>3
  <2> QED
    BY <1>0, <2>0, <2>1, <2>2, <2>4
<1>6. CASE NeedMorePeersAgain
  BY <1>0, <1>6 DEF NeedMorePeersAgain
<1>7. CASE OnResponseReceived
  BY <1>0, <1>7 DEF OnResponseReceived
<1>8. CASE OnFailure
  <2>1. failures' \in 0..MaxFailures
    BY <1>8, ClientAssumption DEF OnFailure
  <2> QED
    BY <1>0, <1>8, <2>1 DEF OnFailure
<1>9. CASE OnHeadResponse
  <2>1. failures' \in 0..MaxFailures
    BY <1>9, ClientAssumption DEF OnHeadResponse
  <2>2. PICK p \in DOMAIN headBatch, h \in Heads \cup {NoHead} : headBatch' = [headBatch EXCEPT ![p] = h]
    BY <1>9 DEF OnHeadResponse
  <2>3. DOMAIN headBatch' = DOMAIN headBatch
        /\ \A q \in DOMAIN headBatch : headBatch'[q] \in {h, headBatch[q]}
    BY <2>2
  <2> QED
    BY <1>0, <1>9, <2>1, <2>2, <2>3 DEF OnHeadResponse
<1>10. CASE OnHeadTaskDone
  <2>1. Reported(headBatch) \subseteq Heads
    BY DEF Reported
  <2>2. BestHeads(headBatch) \subseteq Heads
    BY <2>1 DEF BestHeads
  <2>3. callers' = callers \/ \E best \in BestHeads(headBatch) : callers' = AnswerHeadReqs(best)
    BY <1>10 DEF OnHeadTaskDone
  <2>4. callers' \in [Callers -> CallerStates]
    BY <2>2, <2>3, AnswerHeadReqsType
  <2>5. headBatch' = <<>>
    BY <1>10 DEF OnHeadTaskDone, AfterNoHead
  <2> QED
    BY <1>0, <1>10, <2>4, <2>5 DEF OnHeadTaskDone
<1>11. CASE PeerConnects
  BY <1>0, <1>11 DEF PeerConnects
<1>12. CASE PeerDisconnects
  <2>1. failures' \in 0..MaxFailures
    BY <1>12, ClientAssumption DEF PeerDisconnects
  <2>2. PICK p \in connected :
            connected' = connected \ {p}
            /\ headBatch' = [q \in DOMAIN headBatch |->
                             IF q = p /\ headBatch[q] = Waiting THEN NoHead ELSE headBatch[q]]
    BY <1>12 DEF PeerDisconnects
  <2> QED
    BY <1>0, <1>12, <2>1, <2>2 DEF PeerDisconnects
<1>13. CASE PeerFound
  BY <1>0, <1>13 DEF PeerFound
<1>14. CASE OnStop
  <2>1. callers' \in [Callers -> CallerStates]
    BY <1>14, CancelHeadReqsType DEF OnStop
  <2> QED
    BY <1>0, <1>14, <2>1 DEF OnStop
<1>15. CASE WorkerDies
  <2>1. callers' \in [Callers -> CallerStates]
    BY <1>a, <1>15 DEF WorkerDies
  <2> QED
    BY <1>0, <1>15, <2>1 DEF WorkerDies
<1> QED
  BY <1>1, <1>2, <1>3, <1>4, <1>5, <1>6, <1>7, <1>8, <1>9, <1>10, <1>11, <1>12, <1>13, <1>14,
     <1>15, Zenon DEF ClientNext

-----------------------------------------------------------------------------
(* The session                                                             *)

\* The request for a batch asks for the headers of the batch.
LEMMA RequestForOK ==
    ASSUME NEW b, IsBlockRange(b), b # {}
    PROVE  \E q : RequestFor(b) = {q} /\ RequestOK(q) /\ Requested(q) = b
<1> DEFINE q == NewRequest(Min(b), Cardinality(b))
<1>1. PICK lo \in Heights, hi \in 0..MaxHeight : b = lo..hi
  BY DEF IsBlockRange
<1>2. lo \in Int /\ hi \in Int /\ lo >= 1 /\ hi <= MaxHeight /\ lo <= hi /\ MaxHeight \in Nat
  BY <1>1, ClientAssumption DEF Heights
<1>3. Min(b) = lo
  <2>1. b \in SUBSET (1..MaxHeight)
    BY <1>1, <1>2
  <2>2. Min(b) \in b /\ \A y \in b : Min(b) <= y
    BY <1>2, <2>1, MinOfInterval
  <2>3. lo \in b
    BY <1>1, <1>2
  <2> QED
    BY <1>1, <1>2, <2>2, <2>3
<1>4. Cardinality(b) = hi - lo + 1
  BY <1>1, <1>2, FS_Interval
<1>5. hi - lo + 1 \in Heights /\ lo + (hi - lo + 1) - 1 = hi
  BY <1>2 DEF Heights
<1>6. q = [lo |-> lo, n |-> hi - lo + 1, stage |-> IF worker = "dead" THEN "answered" ELSE "cmd",
           kind |-> "any", tries |-> 0, peer |-> NoPeer,
           got |-> IF worker = "dead" THEN ChannelClosed ELSE 0]
  BY <1>3, <1>4 DEF NewRequest
<1>7. q.lo = lo /\ q.n = hi - lo + 1 /\ q.stage \in {"answered", "cmd"} /\ q.got \in {-1, 0}
      /\ q.tries = 0
  BY <1>6 DEF ChannelClosed
<1>8. q \in Requests
  <2>1. 0 \in 0..MaxTries /\ {-1, 0} \subseteq ChannelClosed..MaxHeight
    BY ClientAssumption DEF ChannelClosed
  <2> QED
    BY <1>5, <1>6, <2>1 DEF Requests, ChannelClosed
<1>9. RequestFor(b) = {q}
  BY DEF RequestFor
<1> HIDE DEF q
<1>10. Requested(q) = b
  BY <1>1, <1>5, <1>7 DEF Requested
<1>11. q.got <= q.n
  BY <1>2, <1>7
<1>12. b \subseteq Heights
  BY <1>1, <1>2 DEF Heights
<1> QED
  BY <1>7, <1>8, <1>9, <1>10, <1>11, <1>12 DEF RequestOK

\* What k batches leave, and the batch that follows them.
LEMMA Batches ==
    ASSUME NEW lo \in Heights, NEW hi \in 0..MaxHeight, range = lo..hi, NEW k \in Nat
    PROVE  /\ k * BatchSize \in Nat
           /\ LeftAfter(range, k) = lo..(hi - k * BatchSize)
           /\ IsBlockRange(LeftAfter(range, k))
           /\ TakeNextBatch(LeftAfter(range, k))
                = {h \in lo..hi : hi - h >= k * BatchSize /\ hi - h < k * BatchSize + BatchSize}
<1>1. lo \in Int /\ hi \in Int /\ lo >= 1 /\ hi <= MaxHeight /\ hi >= 0 /\ MaxHeight \in Nat
  BY ClientAssumption DEF Heights
<1>2. IsBlockRange(range)
  BY DEF IsBlockRange
<1> DEFINE B == BatchSize
<1>3. B \in Nat \ {0}
  BY <1>2, BatchSizePositive
<1> HIDE DEF B
<1> DEFINE x == k * B
<1>4. x \in Nat
  BY <1>3
<1>5. LeftAfter(range, k) = {h \in lo..hi : hi - h >= x}
  BY <1>1, LeftOfRange DEF B
<1> HIDE DEF x
<1>6. LeftAfter(range, k) = lo..(hi - x)
  <2>1. \A h : h \in lo..hi /\ hi - h >= x <=> h \in lo..(hi - x)
    BY <1>1, <1>4
  <2> QED
    BY <1>5, <2>1, Zenon
<1>7. IsBlockRange(LeftAfter(range, k))
  <2>1. CASE hi - x >= 0
    <3>1. hi - x \in 0..MaxHeight
      BY <1>1, <1>4, <2>1
    <3> QED
      BY <1>6, <3>1 DEF IsBlockRange
  <2>2. CASE hi - x < 0
    <3>1. lo..(hi - x) = lo..0 /\ 0 \in 0..MaxHeight
      BY <1>1, <1>4, <2>2
    <3> QED
      BY <1>6, <3>1 DEF IsBlockRange
  <2> QED
    BY <1>1, <1>4, <2>1, <2>2
<1>8. TakeNextBatch(LeftAfter(range, k)) = {h \in lo..(hi - x) : (hi - x) - h < B}
  <2>1. hi - x \in Int
    BY <1>1, <1>4
  <2> QED
    BY <1>1, <1>6, <2>1, BatchOfRange DEF B
<1>9. {h \in lo..(hi - x) : (hi - x) - h < B} = {h \in lo..hi : hi - h >= x /\ hi - h < x + B}
  BY <1>1, <1>3, <1>4
<1> QED
  BY <1>3, <1>4, <1>6, <1>7, <1>8, <1>9 DEF x, B

LEMMA ProductMonotone ==
    ASSUME NEW j \in Nat, NEW k \in Nat, NEW B \in Nat, j < k
    PROVE  j * B + B <= k * B
<1>1. PICK d \in Nat : k = j + 1 + d
  <2>1. k - j - 1 \in Nat /\ k = j + 1 + (k - j - 1)
    OBVIOUS
  <2> QED
    BY <2>1
<1>2. k * B = j * B + B + d * B
  BY <1>1
<1>3. d * B >= 0
  OBVIOUS
<1>4. j * B \in Int /\ d * B \in Int
  OBVIOUS
<1> QED
  BY <1>2, <1>3, <1>4

\* The first batches partition the range, together with what is left.
BatchOf(k) == TakeNextBatch(LeftAfter(range, k))

LEMMA FirstBatches ==
    ASSUME IsBlockRange(range), NEW N \in Nat
    PROVE  /\ \A k \in 0..(N - 1) : IsBlockRange(BatchOf(k))
           /\ \A j, k \in 0..(N - 1) : j # k => BatchOf(j) \cap BatchOf(k) = {}
           /\ LeftAfter(range, N) \cup UNION {BatchOf(k) : k \in 0..(N - 1)} = range
           /\ LeftAfter(range, N) \cap UNION {BatchOf(k) : k \in 0..(N - 1)} = {}
           /\ IsBlockRange(LeftAfter(range, N))
           /\ LeftAfter(range, N) # {} => \A k \in 0..(N - 1) : BatchOf(k) # {}
<1>1. PICK lo \in Heights, hi \in 0..MaxHeight : range = lo..hi
  BY DEF IsBlockRange
<1>2. lo \in Int /\ hi \in Int
  BY ClientAssumption DEF Heights
<1> DEFINE B == BatchSize
<1>3. B \in Nat \ {0} /\ B = BatchSize
  BY BatchSizePositive
<1> HIDE DEF B
<1>4. \A k \in Nat : BatchOf(k) = {h \in lo..hi : hi - h >= k * B /\ hi - h < k * B + B}
  <2> SUFFICES ASSUME NEW k \in Nat
               PROVE  BatchOf(k) = {h \in lo..hi : hi - h >= k * B /\ hi - h < k * B + B}
    OBVIOUS
  <2>1. TakeNextBatch(LeftAfter(range, k)) = {h \in lo..hi : hi - h >= k * B /\ hi - h < k * B + B}
    BY <1>1, Batches DEF B
  <2> QED
    BY <2>1 DEF BatchOf
<1>5. \A k \in Nat : k * B \in Nat /\ LeftAfter(range, k) = lo..(hi - k * B)
                   /\ IsBlockRange(LeftAfter(range, k))
  <2> SUFFICES ASSUME NEW k \in Nat
               PROVE  k * B \in Nat /\ LeftAfter(range, k) = lo..(hi - k * B)
                      /\ IsBlockRange(LeftAfter(range, k))
    OBVIOUS
  <2> QED
    BY <1>1, Batches DEF B
<1>6. \A k \in 0..(N - 1) : k \in Nat /\ k < N
  OBVIOUS
<1>7. \A k \in 0..(N - 1) : IsBlockRange(BatchOf(k))
  <2> SUFFICES ASSUME NEW k \in 0..(N - 1) PROVE IsBlockRange(BatchOf(k))
    OBVIOUS
  <2>1. IsBlockRange(LeftAfter(range, k))
    BY <1>5, <1>6
  <2> QED
    BY <2>1, BatchSplits, Zenon DEF BatchOf
<1>8. ASSUME NEW j \in Nat, NEW k \in Nat, j < k PROVE BatchOf(j) \cap BatchOf(k) = {}
  <2>1. j * B + B <= k * B /\ j * B \in Nat /\ k * B \in Nat
    BY <1>3, <1>5, <1>8, ProductMonotone
  <2>2. \A h \in lo..hi : ~(hi - h < j * B + B /\ hi - h >= k * B)
    BY <1>2, <1>3, <2>1
  <2> QED
    BY <1>4, <2>2
<1>9. \A j, k \in 0..(N - 1) : j # k => BatchOf(j) \cap BatchOf(k) = {}
  <2> SUFFICES ASSUME NEW j \in 0..(N - 1), NEW k \in 0..(N - 1), j # k
               PROVE  BatchOf(j) \cap BatchOf(k) = {}
    OBVIOUS
  <2>1. j < k \/ k < j
    OBVIOUS
  <2> QED
    BY <1>6, <1>8, <2>1
<1>10. range \subseteq LeftAfter(range, N) \cup UNION {BatchOf(k) : k \in 0..(N - 1)}
  <2> DEFINE P == {n \in 0..N : \A h \in lo..hi : hi - h < n * B => \E k \in 0..(n - 1) : h \in BatchOf(k)}
  <2>1. 0 \in P
    BY <1>2, <1>3
  <2>2. ASSUME NEW n \in 0..(N - 1), n \in P PROVE n + 1 \in P
    <3>1. n \in Nat /\ n + 1 \in 0..N /\ n * B \in Nat /\ (n + 1) * B = n * B + B
      BY <1>3, <1>5
    <3>2. ASSUME NEW h \in lo..hi, hi - h < (n + 1) * B
          PROVE  \E k \in 0..((n + 1) - 1) : h \in BatchOf(k)
      <4>1. CASE hi - h < n * B
        <5>1. PICK k \in 0..(n - 1) : h \in BatchOf(k)
          BY <2>2, <4>1
        <5>2. k \in 0..((n + 1) - 1)
          BY <3>1
        <5> QED
          BY <5>1, <5>2
      <4>2. CASE ~(hi - h < n * B)
        <5>1. hi - h >= n * B /\ hi - h < n * B + B
          BY <1>2, <3>1, <3>2, <4>2
        <5>2. h \in BatchOf(n)
          BY <1>4, <3>1, <5>1
        <5>3. n \in 0..((n + 1) - 1)
          BY <3>1
        <5> QED
          BY <5>2, <5>3
      <4> QED
        BY <4>1, <4>2
    <3> QED
      BY <3>1, <3>2
  <2>3. N \in P
    <3> HIDE DEF P
    <3>1. 0..N \subseteq P
      BY <2>1, <2>2, BoundedInduction
    <3> QED
      BY <3>1
  <2>4. ASSUME NEW h \in lo..hi, h \notin LeftAfter(range, N)
        PROVE  \E k \in 0..(N - 1) : h \in BatchOf(k)
    <3>1. hi - h < N * B
      BY <1>2, <1>5, <2>4
    <3> QED
      BY <2>3, <3>1
  <2> QED
    BY <1>1, <2>4
<1>11. LeftAfter(range, N) \subseteq range
  BY DEF LeftAfter
<1>12. \A k \in 0..(N - 1) : BatchOf(k) \subseteq range
  BY <1>1, <1>4, <1>6
<1>13. ASSUME NEW k \in 0..(N - 1) PROVE LeftAfter(range, N) \cap BatchOf(k) = {}
  <2>1. k * B + B <= N * B /\ k * B \in Nat /\ N * B \in Nat
    BY <1>3, <1>5, <1>6, ProductMonotone
  <2>2. \A h \in lo..(hi - N * B) : ~(hi - h < k * B + B)
    BY <1>2, <1>3, <2>1
  <2> QED
    BY <1>4, <1>5, <1>6, <2>2, Zenon
<1>14. ASSUME LeftAfter(range, N) # {}, NEW k \in 0..(N - 1) PROVE BatchOf(k) # {}
  <2>1. k * B + B <= N * B /\ k * B \in Nat /\ N * B \in Nat
    BY <1>3, <1>5, <1>6, ProductMonotone
  <2>2. lo <= hi - N * B
    BY <1>2, <1>5, <1>14, <2>1
  <2>3. hi - k * B \in lo..hi /\ hi - (hi - k * B) = k * B
    BY <1>2, <1>3, <2>1, <2>2
  <2>4. hi - k * B \in BatchOf(k)
    BY <1>3, <1>4, <1>6, <2>1, <2>3
  <2> QED
    BY <2>4
<1>15. IsBlockRange(LeftAfter(range, N))
  BY <1>5
<1> QED
  BY <1>7, <1>9, <1>10, <1>11, <1>12, <1>13, <1>14, <1>15

\* The requests of the first batches.
LEMMA FirstRequests ==
    ASSUME IsBlockRange(range), NEW N \in Nat, NEW R,
           R = UNION {RequestFor(BatchOf(k)) : k \in 0..(N - 1)}
    PROVE  /\ \A r \in R : RequestOK(r)
           /\ UNION {Requested(r) : r \in R} = UNION {BatchOf(k) : k \in 0..(N - 1)}
           /\ \A q, r \in R : q # r => Requested(q) \cap Requested(r) = {}
           /\ IsFiniteSet(R) /\ Cardinality(R) <= N
           /\ (\A k \in 0..(N - 1) : BatchOf(k) # {}) => Cardinality(R) = N
<1> DEFINE K == {k \in 0..(N - 1) : BatchOf(k) # {}}
           g == [k \in K |-> CHOOSE q : q \in RequestFor(BatchOf(k))]
<1>1. \A k \in 0..(N - 1) : k \notin K => RequestFor(BatchOf(k)) = {}
  BY DEF RequestFor
<1>2. ASSUME NEW k \in K
      PROVE  RequestFor(BatchOf(k)) = {g[k]} /\ RequestOK(g[k]) /\ Requested(g[k]) = BatchOf(k)
  <2>1. IsBlockRange(BatchOf(k)) /\ BatchOf(k) # {}
    BY FirstBatches
  <2>2. PICK q : RequestFor(BatchOf(k)) = {q} /\ RequestOK(q) /\ Requested(q) = BatchOf(k)
    BY <2>1, RequestForOK
  <2>3. g[k] = q
    BY <2>2
  <2> QED
    BY <2>2, <2>3
<1>3. K \subseteq 0..(N - 1) /\ \A k \in K : BatchOf(k) # {}
  OBVIOUS
<1>4. DOMAIN g = K
  OBVIOUS
<1>a. \A k \in 0..(N - 1) : BatchOf(k) # {} => k \in K
  OBVIOUS
<1> HIDE DEF g, K
<1>5. R = {g[k] : k \in K}
  <2>1. ASSUME NEW r \in R PROVE r \in {g[k] : k \in K}
    <3>1. PICK k \in 0..(N - 1) : r \in RequestFor(BatchOf(k))
      OBVIOUS
    <3>2. k \in K
      BY <1>1, <3>1
    <3> QED
      BY <1>2, <3>1, <3>2
  <2>2. ASSUME NEW k \in K PROVE g[k] \in R
    BY <1>2, <1>3
  <2> QED
    BY <2>1, <2>2
<1>6. \A r \in R : RequestOK(r)
  BY <1>2, <1>5
<1>7. UNION {Requested(r) : r \in R} = UNION {BatchOf(k) : k \in 0..(N - 1)}
  <2>1. \A r \in R : \E k \in 0..(N - 1) : Requested(r) = BatchOf(k)
    BY <1>2, <1>3, <1>5
  <2>2. \A k \in 0..(N - 1) : BatchOf(k) # {} => \E r \in R : Requested(r) = BatchOf(k)
    BY <1>2, <1>5, <1>a
  <2> QED
    BY <2>1, <2>2
<1>8. \A j, k \in K : j # k => BatchOf(j) \cap BatchOf(k) = {}
  BY <1>3, FirstBatches
<1>9. \A q, r \in R : q # r => Requested(q) \cap Requested(r) = {}
  <2> SUFFICES ASSUME NEW q \in R, NEW r \in R, q # r PROVE Requested(q) \cap Requested(r) = {}
    OBVIOUS
  <2>1. PICK j \in K : q = g[j]
    BY <1>5
  <2>2. PICK k \in K : r = g[k]
    BY <1>5
  <2> QED
    BY <1>2, <1>8, <2>1, <2>2
<1>10. g \in Bijection(K, R)
  <2>0. g = [k \in K |-> g[k]]
    BY <1>4 DEF g
  <2>1. g \in [K -> R]
    BY <1>5, <2>0
  <2>2. \A j, k \in K : g[j] = g[k] => j = k
    BY <1>2, <1>3, <1>8
  <2> QED
    BY <1>5, <2>1, <2>2 DEF Bijection, Injection, Surjection, IsInjective
<1>11. IsFiniteSet(0..(N - 1)) /\ Cardinality(0..(N - 1)) = N
  <2>1. 0 \in Int /\ N - 1 \in Int
    OBVIOUS
  <2>2. Cardinality(0..(N - 1)) = IF 0 > N - 1 THEN 0 ELSE (N - 1) - 0 + 1
    BY <2>1, FS_Interval
  <2> QED
    BY <2>1, <2>2, FS_Interval
<1>12. IsFiniteSet(K) /\ Cardinality(K) <= N
  <2>1. PICK I : I = 0..(N - 1)
    OBVIOUS
  <2>2. IsFiniteSet(I) /\ Cardinality(I) = N /\ K \in SUBSET I
    BY <1>3, <1>11, <2>1, Zenon
  <2>3. IsFiniteSet(K) /\ Cardinality(K) <= Cardinality(I)
    BY <2>2, FS_Subset, Zenon
  <2> QED
    BY <2>2, <2>3, Zenon
<1>13. IsFiniteSet(R) /\ Cardinality(R) = Cardinality(K)
  BY <1>10, <1>12, FS_Bijection DEF ExistsBijection
<1>14. (\A k \in 0..(N - 1) : BatchOf(k) # {}) => K = 0..(N - 1)
  BY <1>3, <1>a, Zenon
<1> QED
  BY <1>6, <1>7, <1>9, <1>11, <1>12, <1>13, <1>14, Zenon

LEMMA StartSessionStep ==
    ASSUME RequestsInv, SessionInv, StartSession
    PROVE  RequestsInv' /\ SessionInv'
<1> DEFINE N == MaxConcurrent
<1>1. /\ session = "idle" /\ range # {} /\ session' = "running"
      /\ toFetch' = LeftAfter(range, N)
      /\ requests' = UNION {RequestFor(BatchOf(k)) : k \in 0..(N - 1)}
      /\ UNCHANGED <<range, responses, result>>
      /\ UNCHANGED <<closed, callers, headBatch, connected, asked, worker, failures>>
  BY DEF StartSession, BatchOf
<1>2. IsBlockRange(range) /\ responses = <<>> /\ SessionTypeOK /\ ~closed
  BY <1>1 DEF SessionInv, RangeIsPartitioned
<1>3. N \in Nat
  BY SessionAssumption
<1> HIDE DEF N
<1> DEFINE F == LeftAfter(range, N)
           U == UNION {BatchOf(k) : k \in 0..(N - 1)}
           R == UNION {RequestFor(BatchOf(k)) : k \in 0..(N - 1)}
<1>4. F \cup U = range /\ F \cap U = {} /\ IsBlockRange(F)
      /\ (F # {} => \A k \in 0..(N - 1) : BatchOf(k) # {})
  BY <1>2, <1>3, FirstBatches
<1>5. /\ \A r \in R : RequestOK(r)
      /\ UNION {Requested(r) : r \in R} = U
      /\ \A q, r \in R : q # r => Requested(q) \cap Requested(r) = {}
      /\ IsFiniteSet(R) /\ Cardinality(R) <= N
      /\ (\A k \in 0..(N - 1) : BatchOf(k) # {}) => Cardinality(R) = N
  BY <1>2, <1>3, FirstRequests, Zenon
<1>6. requests' = R /\ toFetch' = F
  BY <1>1
<1> HIDE DEF R, F, U
<1>7. RequestsInv'
  <2>1. requests' \subseteq Requests
    BY <1>5, <1>6 DEF RequestOK
  <2>2. ClientTypeOK'
    BY <1>1, <2>1 DEF RequestsInv, ClientTypeOK
  <2> QED
    BY <1>5, <1>6, <2>2 DEF RequestsInv
<1>8. AllRequested' = U /\ AllReceived' = {}
  BY <1>1, <1>2, <1>5, <1>6 DEF AllRequested, AllReceived
<1>9. SessionTypeOK'
  BY <1>1, <1>2, <1>4, <1>6 DEF SessionTypeOK
<1>10. Cardinality(requests') <= MaxConcurrent /\ (toFetch' # {} => Cardinality(requests') = MaxConcurrent)
  BY <1>4, <1>5, <1>6 DEF N
<1>11. RangeIsPartitioned'
  BY <1>1, <1>2, <1>4, <1>5, <1>6, <1>8, <1>9, <1>10 DEF RangeIsPartitioned
<1>12. ResultIsTheRange'
  BY <1>1 DEF ResultIsTheRange
<1> QED
  BY <1>1, <1>2, <1>4, <1>5, <1>6, <1>7, <1>11, <1>12, Zenon DEF SessionInv, IsBlockRange

\* Requests that are rewritten ask for the same headers.
LEMMA RewrittenKeeps ==
    ASSUME NEW R, NEW S, Rewritten(R, S), \A r \in R : RequestOK(r), IsFiniteSet(R),
           \A q, r \in R : q # r => Requested(q) \cap Requested(r) = {}
    PROVE  /\ IsFiniteSet(S) /\ Cardinality(S) = Cardinality(R)
           /\ \A q, r \in S : q # r => Requested(q) \cap Requested(r) = {}
           /\ UNION {Requested(r) : r \in S} = UNION {Requested(r) : r \in R}
<1>1. PICK g \in [R -> S] : (\A r \in R : Same(g[r], r)) /\ (\A q \in S : \E r \in R : g[r] = q)
  BY DEF Rewritten
<1>2. \A r \in R : Requested(g[r]) = Requested(r) /\ g[r] \in S
  BY <1>1, SameRequested
<1>3. \A r \in R : Requested(r) # {}
  <2> SUFFICES ASSUME NEW r \in R PROVE r.lo \in Requested(r)
    OBVIOUS
  <2>1. r.lo \in Heights /\ r.n \in Heights
    BY DEF RequestOK, Requests
  <2>2. r.lo \in Int /\ r.n \in Int /\ r.n >= 1
    BY <2>1, ClientAssumption DEF Heights
  <2> QED
    BY <2>2 DEF Requested
<1>4. \A q, r \in R : g[q] = g[r] => q = r
  BY <1>2, <1>3
<1>5. g \in Bijection(R, S)
  BY <1>1, <1>4 DEF Bijection, Injection, Surjection, IsInjective
<1>6. IsFiniteSet(S) /\ Cardinality(S) = Cardinality(R)
  BY <1>5, FS_Bijection DEF ExistsBijection
<1>7. \A q, r \in S : q # r => Requested(q) \cap Requested(r) = {}
  BY <1>1, <1>2
<1>8. UNION {Requested(r) : r \in S} = UNION {Requested(r) : r \in R}
  <2>1. \A q \in S : \E r \in R : Requested(q) = Requested(r)
    BY <1>1, <1>2
  <2>2. \A r \in R : \E q \in S : Requested(q) = Requested(r)
    BY <1>2
  <2> QED
    BY <2>1, <2>2
<1> QED
  BY <1>6, <1>7, <1>8

LEMMA ClientKeepsSession ==
    ASSUME RequestsInv, SessionInv, ClientNext, UNCHANGED sessionVars
    PROVE  SessionInv'
<1>1. UNCHANGED <<range, toFetch, responses, session, result>>
  BY DEF sessionVars
<1>2. closed' = closed
  BY Zenon DEF ClientNext, OnSendRequest, AskHead, OnSendHeadRequest, CallerLeaves, SchedulePendingRequests,
         NeedMorePeersAgain, OnResponseReceived, OnFailure, OnHeadResponse, OnHeadTaskDone,
         PeerConnects, PeerDisconnects, PeerFound, OnStop, WorkerDies
<1>3. SessionTypeOK'
  BY <1>1 DEF SessionInv, RangeIsPartitioned, SessionTypeOK
<1>4. AllReceived' = AllReceived
  BY <1>1 DEF AllReceived
<1>5. ASSUME session = "running"
      PROVE  /\ IsFiniteSet(requests') /\ Cardinality(requests') = Cardinality(requests)
             /\ \A q, r \in requests' : q # r => Requested(q) \cap Requested(r) = {}
             /\ AllRequested' = AllRequested
  <2>1. Rewritten(requests, requests')
    BY <1>5, ClientStep DEF SessionInv, RequestsStep
  <2>2. IsFiniteSet(requests) /\ \A q, r \in requests : q # r => Requested(q) \cap Requested(r) = {}
    BY <1>5 DEF SessionInv, RangeIsPartitioned
  <2>3. \A r \in requests : RequestOK(r)
    BY DEF RequestsInv
  <2> QED
    BY <2>1, <2>2, <2>3, RewrittenKeeps DEF AllRequested
<1>6. RangeIsPartitioned'
  BY <1>1, <1>3, <1>4, <1>5 DEF RangeIsPartitioned, SessionInv
<1>7. ResultIsTheRange'
  BY <1>1 DEF ResultIsTheRange, SessionInv
<1> QED
  BY <1>1, <1>2, <1>5, <1>6, <1>7 DEF SessionInv, IsBlockRange

LEMMA AbandonStep ==
    ASSUME RequestsInv, SessionInv, NEW outcome \in {"failed", "dropped"}, session = "running",
           Abandon(outcome)
    PROVE  RequestsInv' /\ SessionInv'
<1>1. /\ session' = outcome /\ closed' = TRUE /\ requests' \subseteq requests
      /\ UNCHANGED <<range, toFetch, responses, result>>
      /\ UNCHANGED <<callers, headBatch, connected, asked, worker, failures>>
  BY DEF Abandon
<1>2. RequestsInv'
  BY <1>1 DEF RequestsInv, ClientTypeOK
<1>3. SessionTypeOK'
  BY <1>1 DEF SessionInv, RangeIsPartitioned, SessionTypeOK
<1>4. RangeIsPartitioned' /\ ResultIsTheRange'
  BY <1>1, <1>3 DEF RangeIsPartitioned, ResultIsTheRange
<1> QED
  BY <1>1, <1>2, <1>4 DEF SessionInv, IsBlockRange

-----------------------------------------------------------------------------
(* Putting the spans of a session together                                 *)

\* N spans, of n[i] headers from a[i] on, that have no header in common and are
\* the headers lo..hi.
Tile(a, n, i) == a[i]..(a[i] + n[i] - 1)
Tiles(N, a, n, lo, hi) ==
    /\ N \in Nat \ {0} /\ lo \in Int /\ hi \in Int /\ lo <= hi
    /\ a \in [1..N -> Int] /\ n \in [1..N -> Nat \ {0}]
    /\ \A i, j \in 1..N : i # j => Tile(a, n, i) \cap Tile(a, n, j) = {}
    /\ \A h : h \in lo..hi <=> \E i \in 1..N : h \in Tile(a, n, i)

\* How many of them start before the j-th.
Rank(N, a, j) == Cardinality({k \in 1..N : a[k] < a[j]})

LEMMA TileEnds ==
    ASSUME NEW N, NEW a, NEW n, NEW lo, NEW hi, Tiles(N, a, n, lo, hi), NEW i \in 1..N
    PROVE  /\ a[i] \in Int /\ n[i] \in Int /\ n[i] >= 1
           /\ a[i] \in Tile(a, n, i) /\ a[i] + n[i] - 1 \in Tile(a, n, i)
           /\ a[i] >= lo /\ a[i] + n[i] - 1 <= hi
           /\ \A j \in 1..N : i # j => a[i] # a[j]
<1>1. a[i] \in Int /\ n[i] \in Int /\ n[i] >= 1 /\ lo \in Int /\ hi \in Int
  BY DEF Tiles
<1>2. a[i] \in Tile(a, n, i) /\ a[i] + n[i] - 1 \in Tile(a, n, i)
  BY <1>1 DEF Tile
<1>3. a[i] \in lo..hi /\ a[i] + n[i] - 1 \in lo..hi
  BY <1>2, Zenon DEF Tiles
<1>4. ASSUME NEW j \in 1..N, i # j PROVE a[i] # a[j]
  <2>1. a[j] \in Int /\ n[j] \in Int /\ n[j] >= 1
    BY DEF Tiles
  <2>2. a[j] \in Tile(a, n, j)
    BY <2>1 DEF Tile
  <2> QED
    BY <1>2, <1>4, <2>2 DEF Tiles
<1> QED
  BY <1>1, <1>2, <1>3, <1>4

LEMMA RankOrders ==
    ASSUME NEW N, NEW a, NEW n, NEW lo, NEW hi, Tiles(N, a, n, lo, hi),
           NEW i \in 1..N, NEW j \in 1..N
    PROVE  /\ Rank(N, a, i) \in 0..(N - 1)
           /\ a[i] < a[j] => Rank(N, a, i) < Rank(N, a, j)
<1> DEFINE S(x) == {k \in 1..N : a[k] < a[x]}
<1>1. N \in Nat \ {0} /\ a \in [1..N -> Int]
  BY DEF Tiles
<1>2. IsFiniteSet(1..N) /\ Cardinality(1..N) = N
  <2>1. 1 \in Int /\ N \in Int /\ ~(1 > N) /\ N - 1 + 1 = N
    BY <1>1
  <2> QED
    BY <2>1, FS_Interval
<1>3. \A x \in 1..N : S(x) \subseteq 1..N /\ x \notin S(x)
  BY <1>1
<1>4. \A x \in 1..N : IsFiniteSet(S(x)) /\ Cardinality(S(x)) \in Nat /\ Rank(N, a, x) = Cardinality(S(x))
  <2> SUFFICES ASSUME NEW x \in 1..N
               PROVE  IsFiniteSet(S(x)) /\ Cardinality(S(x)) \in Nat /\ Rank(N, a, x) = Cardinality(S(x))
    OBVIOUS
  <2>1. IsFiniteSet(S(x))
    BY <1>2, <1>3, FS_Subset, Zenon
  <2> QED
    BY <2>1, FS_CardinalityType DEF Rank
<1>5. Rank(N, a, i) \in 0..(N - 1)
  <2>1. S(i) \in SUBSET (1..N) /\ S(i) # 1..N
    BY <1>3
  <2> HIDE DEF S
  <2>2. Cardinality(S(i)) <= N /\ Cardinality(S(i)) # N
    BY <1>2, <2>1, FS_Subset, Zenon
  <2> QED
    BY <1>1, <1>4, <2>2
<1>6. ASSUME a[i] < a[j] PROVE Rank(N, a, i) < Rank(N, a, j)
  <2>1. S(i) \subseteq S(j) /\ i \in S(j) /\ i \notin S(i)
    BY <1>1, <1>6
  <2> HIDE DEF S
  <2>2. S(i) \in SUBSET S(j) /\ S(i) # S(j)
    BY <2>1
  <2>3. Cardinality(S(i)) <= Cardinality(S(j)) /\ Cardinality(S(i)) # Cardinality(S(j))
    BY <1>4, <2>2, FS_Subset
  <2> QED
    BY <1>4, <2>3
<1> QED
  BY <1>5, <1>6

\* Spans of the same rank are the same, and there is one of each rank.
LEMMA RankIsPlace ==
    ASSUME NEW N, NEW a, NEW n, NEW lo, NEW hi, Tiles(N, a, n, lo, hi)
    PROVE  /\ \A i, j \in 1..N : Rank(N, a, i) = Rank(N, a, j) => i = j
           /\ \A x \in 0..(N - 1) : \E j \in 1..N : Rank(N, a, j) = x
<1> DEFINE f == [j \in 1..N |-> Rank(N, a, j)]
<1>0. N \in Nat \ {0}
  BY DEF Tiles
<1>1. ASSUME NEW i \in 1..N, NEW j \in 1..N, Rank(N, a, i) = Rank(N, a, j) PROVE i = j
  <2>1. a[i] \in Int /\ a[j] \in Int /\ (i # j => a[i] # a[j])
    BY TileEnds
  <2>2. Rank(N, a, i) \in Int /\ Rank(N, a, j) \in Int
    BY RankOrders
  <2>3. ~(a[i] < a[j]) /\ ~(a[j] < a[i])
    BY <1>1, <2>2, RankOrders
  <2> QED
    BY <2>1, <2>3
<1>2. \A j \in 1..N : Rank(N, a, j) \in 0..(N - 1)
  BY RankOrders
<1>3. f \in Injection(1..N, 0..(N - 1))
  BY <1>1, <1>2 DEF Injection, IsInjective
<1>4. IsFiniteSet(0..(N - 1)) /\ Cardinality(0..(N - 1)) = N /\ Cardinality(1..N) = N
  <2>1. 0 \in Int /\ 1 \in Int /\ N \in Int /\ N - 1 \in Int /\ ~(0 > N - 1) /\ ~(1 > N)
        /\ (N - 1) - 0 + 1 = N /\ N - 1 + 1 = N
    BY <1>0
  <2> QED
    BY <2>1, FS_Interval
<1>5. f \in Surjection(1..N, 0..(N - 1))
  <2> HIDE DEF f
  <2> QED
    BY <1>3, <1>4, FS_Injection
<1>6. \A x \in 0..(N - 1) : \E j \in 1..N : Rank(N, a, j) = x
  BY <1>5, Zenon DEF Surjection
<1> QED
  BY <1>1, <1>6

\* A span that starts after another one ends starts where it ends, if none is between.
LEMMA TileAfter ==
    ASSUME NEW N, NEW a, NEW n, NEW lo, NEW hi, Tiles(N, a, n, lo, hi), NEW i \in 1..N,
           a[i] + n[i] <= hi
    PROVE  \E m \in 1..N : a[m] = a[i] + n[i]
<1>0. lo \in Int /\ hi \in Int
  BY DEF Tiles
<1>1. a[i] \in Int /\ n[i] \in Int /\ n[i] >= 1 /\ a[i] >= lo /\ lo \in Int /\ hi \in Int
  BY <1>0, TileEnds
<1> DEFINE e == a[i] + n[i]
<1>2. e \in lo..hi
  BY <1>1
<1>3. PICK m \in 1..N : e \in Tile(a, n, m)
  BY <1>2 DEF Tiles
<1>4. a[m] \in Int /\ n[m] \in Int
  BY TileEnds
<1>5. e \notin Tile(a, n, i) /\ e - 1 \in Tile(a, n, i)
  BY <1>1 DEF Tile
<1>6. m # i
  BY <1>3, <1>5
<1>7. e - 1 \notin Tile(a, n, m)
  BY <1>5, <1>6 DEF Tiles
<1>8. a[m] = e
  BY <1>1, <1>3, <1>4, <1>7 DEF Tile
<1> QED
  BY <1>8

LEMMA FirstTile ==
    ASSUME NEW N, NEW a, NEW n, NEW lo, NEW hi, Tiles(N, a, n, lo, hi), NEW j \in 1..N,
           Rank(N, a, j) = 0
    PROVE  a[j] = lo
<1>1. lo \in lo..hi /\ lo \in Int
  BY DEF Tiles
<1>2. PICK m \in 1..N : lo \in Tile(a, n, m)
  BY <1>1, Zenon DEF Tiles
<1>3. a[m] \in Int /\ a[m] >= lo /\ n[m] \in Int /\ a[j] \in Int /\ a[j] >= lo
  BY TileEnds
<1>4. a[m] = lo
  BY <1>1, <1>2, <1>3 DEF Tile
<1>5. ~(a[m] < a[j])
  <2>1. Rank(N, a, m) \in 0..(N - 1) /\ (a[m] < a[j] => Rank(N, a, m) < Rank(N, a, j))
    BY RankOrders
  <2> QED
    BY <2>1
<1> QED
  BY <1>3, <1>4, <1>5

LEMMA NextTile ==
    ASSUME NEW N, NEW a, NEW n, NEW lo, NEW hi, Tiles(N, a, n, lo, hi),
           NEW i \in 1..N, NEW j \in 1..N, Rank(N, a, j) = Rank(N, a, i) + 1
    PROVE  a[j] = a[i] + n[i]
<1>1. /\ a[i] \in Int /\ a[j] \in Int /\ n[i] \in Int /\ n[j] \in Int /\ n[i] >= 1
      /\ n[j] >= 1 /\ a[j] + n[j] - 1 <= hi /\ hi \in Int
  BY TileEnds, Zenon DEF Tiles
<1>2. Rank(N, a, i) \in Int /\ Rank(N, a, j) \in Int
  BY RankOrders
<1>3. a[i] < a[j]
  <2>1. ~(a[j] < a[i])
    BY <1>2, RankOrders
  <2>2. i # j
    BY <1>2
  <2>3. a[i] # a[j]
    BY <2>2, TileEnds
  <2> QED
    BY <1>1, <2>1, <2>3
<1>4. a[j] >= a[i] + n[i]
  <2>1. a[j] \in Tile(a, n, j) /\ i # j
    BY <1>1, <1>3, TileEnds
  <2>2. a[j] \notin Tile(a, n, i)
    BY <2>1 DEF Tiles
  <2> QED
    BY <1>1, <1>3, <2>2 DEF Tile
<1>5. a[i] + n[i] <= hi
  BY <1>1, <1>4
<1>6. PICK m \in 1..N : a[m] = a[i] + n[i]
  BY <1>5, TileAfter
<1>7. Rank(N, a, i) < Rank(N, a, m)
  <2>1. a[i] < a[m]
    BY <1>1, <1>6
  <2> QED
    BY <2>1, RankOrders
<1>8. ~(a[m] < a[j])
  <2>1. a[m] < a[j] => Rank(N, a, m) < Rank(N, a, j)
    BY RankOrders
  <2>2. Rank(N, a, m) \in Int
    BY RankOrders
  <2> QED
    BY <1>2, <1>7, <2>1, <2>2
<1> QED
  BY <1>1, <1>4, <1>6, <1>8

LEMMA LastTile ==
    ASSUME NEW N, NEW a, NEW n, NEW lo, NEW hi, Tiles(N, a, n, lo, hi), NEW i \in 1..N,
           Rank(N, a, i) = N - 1
    PROVE  a[i] + n[i] = hi + 1
<1>0. hi \in Int /\ N \in Int
  BY DEF Tiles
<1>1. a[i] \in Int /\ n[i] \in Int /\ n[i] >= 1 /\ a[i] + n[i] - 1 <= hi
  BY TileEnds
<1>2. ASSUME a[i] + n[i] <= hi PROVE FALSE
  <2>1. PICK m \in 1..N : a[m] = a[i] + n[i]
    BY <1>2, TileAfter
  <2>2. a[i] < a[m]
    BY <1>1, <2>1
  <2>3. Rank(N, a, i) < Rank(N, a, m) /\ Rank(N, a, m) \in 0..(N - 1)
    BY <2>2, RankOrders
  <2> QED
    BY <1>0, <1>1, <2>3
<1> QED
  BY <1>0, <1>1, <1>2

LEMMA SpanIsSeq ==
    ASSUME NEW c \in Int, NEW x \in Nat
    PROVE  Span(c, x) \in Seq(Int) /\ Len(Span(c, x)) = x /\ \A i \in 1..x : Span(c, x)[i] = c + i - 1
<1>1. Span(c, x) \in [1..x -> Int]
  BY DEF Span
<1>2. Span(c, x) \in Seq(Int) /\ Len(Span(c, x)) = x
  BY <1>1
<1> QED
  BY <1>2 DEF Span

LEMMA SpansJoin ==
    ASSUME NEW c \in Int, NEW x \in Nat, NEW y \in Nat
    PROVE  Span(c, x) \o Span(c + x, y) = Span(c, x + y)
<1> DEFINE s == Span(c, x)
           t == Span(c + x, y)
           u == Span(c, x + y)
<1>1. s \in Seq(Int) /\ Len(s) = x /\ \A i \in 1..x : s[i] = c + i - 1
  BY SpanIsSeq
<1>2. t \in Seq(Int) /\ Len(t) = y /\ \A i \in 1..y : t[i] = (c + x) + i - 1
  <2>1. c + x \in Int
    OBVIOUS
  <2> QED
    BY <2>1, SpanIsSeq
<1>3. u \in Seq(Int) /\ Len(u) = x + y /\ \A i \in 1..(x + y) : u[i] = c + i - 1
  <2>1. x + y \in Nat
    OBVIOUS
  <2> QED
    BY <2>1, SpanIsSeq
<1> HIDE DEF s, t, u
<1>4. /\ s \o t \in Seq(Int) /\ Len(s \o t) = x + y
      /\ \A i \in 1..(x + y) : (s \o t)[i] = IF i <= x THEN s[i] ELSE t[i - x]
  <2>1. s \in Seq(Int) /\ t \in Seq(Int) /\ Len(s) = x /\ Len(t) = y
    BY <1>1, <1>2, Zenon
  <2> QED
    BY <2>1, Joining
<1>5. ASSUME NEW i \in 1..(x + y) PROVE (s \o t)[i] = u[i]
  <2>1. CASE i <= x
    BY <1>1, <1>3, <1>4, <2>1
  <2>2. CASE ~(i <= x)
    <3>1. i - x \in 1..y /\ (c + x) + (i - x) - 1 = c + i - 1
      BY <2>2
    <3> QED
      BY <1>2, <1>3, <1>4, <2>2, <3>1, Zenon
  <2> QED
    BY <2>1, <2>2, Zenon
<1>6. s \o t = u
  BY <1>3, <1>4, <1>5, SameElements, Zenon
<1> QED
  BY <1>6 DEF s, t, u

\* Spans of m[i] headers from b[i] on, each of which starts where the one before ends.
Adjacent(N, q, b, m) ==
    /\ DOMAIN q = 1..N /\ Len(q) = N
    /\ b \in [1..N -> Int] /\ m \in [1..N -> Nat]
    /\ \A i \in 1..N : q[i] = Span(b[i], m[i])
    /\ \A i \in 1..(N - 1) : b[i + 1] = b[i] + m[i]

\* Adjacent spans, put together, are one span.
LEMMA FlattenSpans ==
    ASSUME NEW N \in Nat \ {0}, NEW q, NEW b, NEW m, Adjacent(N, q, b, m)
    PROVE  Flatten(q) = Span(b[1], b[N] + m[N] - b[1])
<1>0. /\ DOMAIN q = 1..N /\ Len(q) = N
      /\ b \in [1..N -> Int] /\ m \in [1..N -> Nat]
      /\ \A i \in 1..N : q[i] = Span(b[i], m[i])
      /\ \A i \in 1..(N - 1) : b[i + 1] = b[i] + m[i]
  BY DEF Adjacent
<1> DEFINE F(f) == [i \in 0..N |-> IF i = 0 THEN <<>> ELSE f[i - 1] \o q[i]]
           g == [i \in 0..N |-> IF i = 0 THEN <<>> ELSE Span(b[1], b[i] + m[i] - b[1])]
           flatten == CHOOSE f : f = F(f)
<1>1. Flatten(q) = flatten[N]
  BY <1>0 DEF Flatten
<1>2. \A i \in 1..N : i \in Int /\ b[i] \in Int /\ m[i] \in Nat
  BY <1>0
<1>3. 1 \in 1..N /\ N \in 1..N
  OBVIOUS
<1>4. \A i \in 1..N : b[i] - b[1] \in Nat
  <2> DEFINE P == {k \in 0..(N - 1) : b[k + 1] - b[1] \in Nat}
  <2>1. 0 \in P
    BY <1>2, <1>3
  <2>2. ASSUME NEW k \in 0..((N - 1) - 1), k \in P PROVE k + 1 \in P
    <3>1. k + 1 \in 1..(N - 1) /\ k + 1 \in 0..(N - 1) /\ k + 1 \in 1..N /\ (k + 1) + 1 \in 1..N
      OBVIOUS
    <3>2. b[(k + 1) + 1] = b[k + 1] + m[k + 1]
      BY <1>0, <3>1
    <3>3. b[k + 1] \in Int /\ m[k + 1] \in Nat /\ b[1] \in Int
      BY <1>2, <1>3, <3>1
    <3>4. b[(k + 1) + 1] - b[1] \in Nat
      <4>1. \A u, v \in Int, w \in Nat : u - v \in Nat => (u + w) - v \in Nat
        OBVIOUS
      <4>2. b[k + 1] - b[1] \in Nat
        BY <2>2
      <4> QED
        BY <3>2, <3>3, <4>1, <4>2
    <3> QED
      BY <3>1, <3>4
  <2>3. 0..(N - 1) \subseteq P
    <3> HIDE DEF P
    <3>1. N - 1 \in Nat
      OBVIOUS
    <3> QED
      BY <2>1, <2>2, <3>1, BoundedInduction
  <2> SUFFICES ASSUME NEW i \in 1..N PROVE b[i] - b[1] \in Nat
    OBVIOUS
  <2>4. i - 1 \in 0..(N - 1) /\ (i - 1) + 1 = i
    OBVIOUS
  <2>5. i - 1 \in P
    BY <2>3, <2>4
  <2> QED
    BY <2>4, <2>5
<1>5. \A i \in 0..N : g[i] = IF i = 0 THEN <<>> ELSE g[i - 1] \o q[i]
  <2> SUFFICES ASSUME NEW i \in 1..N PROVE g[i] = g[i - 1] \o q[i]
    <3>1. g[0] = <<>> /\ \A i \in 0..N : i = 0 \/ i \in 1..N
      OBVIOUS
    <3> HIDE DEF g
    <3> QED
      BY <3>1, Zenon
  <2>1. CASE i = 1
    <3>1. b[1] + m[1] - b[1] = m[1]
      BY <1>2, <1>3
    <3>2. g[1] = Span(b[1], b[1] + m[1] - b[1]) /\ q[1] = Span(b[1], m[1]) /\ g[0] = <<>>
      BY <1>0, <1>3
    <3>3. q[1] \in Seq(Int)
      <4>1. b[1] \in Int /\ m[1] \in Nat
        BY <1>2, <1>3
      <4>2. Span(b[1], m[1]) \in Seq(Int)
        BY <4>1, SpanIsSeq, Zenon
      <4> QED
        BY <3>2, <4>2, Zenon
    <3>4. <<>> \o q[1] = q[1]
      BY <3>3, Joining, Zenon
    <3> HIDE DEF g
    <3>5. 1 - 1 = 0
      OBVIOUS
    <3> QED
      BY <2>1, <3>1, <3>2, <3>4, <3>5, Zenon
  <2>2. CASE i # 1
    <3>1. i - 1 \in 1..N /\ i - 1 \in 1..(N - 1) /\ (i - 1) + 1 = i
      BY <2>2
    <3>2. b[i] = b[i - 1] + m[i - 1]
      BY <1>0, <3>1
    <3>3. b[1] \in Int /\ b[i - 1] \in Int /\ m[i - 1] \in Nat /\ m[i] \in Nat /\ b[i] - b[1] \in Nat
          /\ b[i] \in Int
      BY <1>2, <1>3, <1>4, <3>1
    <3> DEFINE x == b[i] - b[1]
    <3>4. x \in Nat /\ b[1] + x = b[i] /\ x + m[i] = b[i] + m[i] - b[1] /\ x = b[i - 1] + m[i - 1] - b[1]
      <4>1. PICK u \in Int, v \in Int, w \in Int, s \in Int, t \in Int :
                u = b[1] /\ v = b[i] /\ w = m[i] /\ s = b[i - 1] /\ t = m[i - 1]
        <5>1. m[i] \in Int /\ m[i - 1] \in Int
          BY <3>3
        <5> QED
          BY <3>3, <5>1, Zenon
      <4>2. x = v - u /\ v = s + t /\ x \in Nat
        BY <3>2, <3>3, <4>1
      <4> HIDE DEF x
      <4>3. u + x = v /\ x + w = v + w - u /\ x = s + t - u
        BY <4>2
      <4> QED
        BY <4>1, <4>2, <4>3
    <3> HIDE DEF x
    <3>5. Span(b[1], x) \o Span(b[1] + x, m[i]) = Span(b[1], x + m[i])
      <4>1. b[1] \in Int /\ x \in Nat /\ m[i] \in Nat
        BY <3>3, <3>4, Zenon
      <4>2. PICK c \in Int, y \in Nat : c = b[1] /\ y = m[i]
        BY <4>1, Zenon
      <4>3. Span(c, x) \o Span(c + x, y) = Span(c, x + y)
        BY <4>1, SpansJoin, Zenon
      <4> QED
        BY <4>2, <4>3, Zenon
    <3>6. g[i - 1] = Span(b[1], x)
      <4>1. i - 1 \in 0..N /\ i - 1 # 0
        BY <3>1
      <4> QED
        BY <3>4, <4>1
    <3>7. g[i] = Span(b[1], x + m[i])
      <4>1. i \in 0..N /\ i # 0
        OBVIOUS
      <4> QED
        BY <3>4, <4>1
    <3>8. q[i] = Span(b[1] + x, m[i])
      BY <1>0, <3>4
    <3> QED
      BY <2>2, <3>5, <3>6, <3>7, <3>8, Zenon
  <2> QED
    BY <2>1, <2>2, Zenon
<1>6. g = F(g)
  BY <1>5
<1>7. flatten = F(flatten)
  <2> HIDE DEF F, g
  <2> QED
    BY <1>6
<1>8. g[N] = Span(b[1], b[N] + m[N] - b[1])
  BY <1>3
<1> HIDE DEF flatten, g
<1>9. \A i \in 0..N : flatten[i] = IF i = 0 THEN <<>> ELSE flatten[i - 1] \o q[i]
  BY <1>7
<1>10. flatten[N] = g[N]
  <2> DEFINE P == {k \in 0..N : flatten[k] = g[k]}
  <2>1. 0 \in P
    BY <1>5, <1>9
  <2>2. ASSUME NEW k \in 0..(N - 1), k \in P PROVE k + 1 \in P
    <3>1. k + 1 \in 0..N /\ k + 1 # 0 /\ (k + 1) - 1 = k
      OBVIOUS
    <3>2. flatten[k + 1] = flatten[k] \o q[k + 1]
      BY <1>9, <3>1, Zenon
    <3>3. g[k + 1] = g[k] \o q[k + 1]
      BY <1>5, <3>1, Zenon
    <3> QED
      BY <2>2, <3>1, <3>2, <3>3, Zenon
  <2>3. 0..N \subseteq P
    <3> HIDE DEF P
    <3> QED
      BY <2>1, <2>2, BoundedInduction
  <2> QED
    BY <2>3
<1> QED
  BY <1>1, <1>8, <1>10, Zenon

LEMMA RangeOfSpan ==
    ASSUME NEW c \in Int, NEW x \in Nat
    PROVE  Range(Span(c, x)) = c..(c + x - 1)
<1>1. DOMAIN Span(c, x) = 1..x /\ \A i \in 1..x : Span(c, x)[i] = c + i - 1
  BY DEF Span
<1>2. ASSUME NEW h \in c..(c + x - 1) PROVE h \in Range(Span(c, x))
  <2>1. h - c + 1 \in 1..x /\ c + (h - c + 1) - 1 = h
    OBVIOUS
  <2>2. Span(c, x)[h - c + 1] = h
    BY <1>1, <2>1
  <2> QED
    BY <1>1, <2>1, <2>2 DEF Range
<1>3. ASSUME NEW i \in 1..x PROVE Span(c, x)[i] \in c..(c + x - 1)
  BY <1>1
<1>4. Range(Span(c, x)) \subseteq c..(c + x - 1)
  BY <1>1, <1>3 DEF Range
<1> QED
  BY <1>2, <1>4, Zenon

\* Spans that are a range of headers, without overlap, are collected to that range.
LEMMA CollectIsRange ==
    ASSUME NEW s \in Seq(Seq(Heights)), NEW lo \in Heights, NEW hi \in Heights, lo <= hi,
           \A i \in DOMAIN s : \E c, x \in Heights : s[i] = Span(c, x),
           \A i, j \in DOMAIN s : i # j => Range(s[i]) \cap Range(s[j]) = {},
           UNION {Range(s[i]) : i \in DOMAIN s} = lo..hi
    PROVE  Collect(s) = Span(lo, hi - lo + 1)
<1> DEFINE N == Len(s)
           a == [i \in 1..N |-> s[i][1]]
           n == [i \in 1..N |-> Len(s[i])]
           p == [i \in 1..N |-> CHOOSE j \in 1..N : Rank(N, a, j) = i - 1]
           q == [i \in DOMAIN s |-> SortedSpan(s, i)]
<1>1. N \in Nat /\ DOMAIN s = 1..N /\ lo \in Int /\ hi \in Int
  BY ClientAssumption DEF Heights
<1>2. ASSUME NEW i \in 1..N
      PROVE  a[i] \in Int /\ n[i] \in Nat \ {0} /\ s[i] = Span(a[i], n[i]) /\ Range(s[i]) = Tile(a, n, i)
  <2>1. PICK c \in Heights, x \in Heights : s[i] = Span(c, x)
    BY <1>1, Zenon
  <2>2. c \in Int /\ x \in Nat \ {0}
    BY ClientAssumption DEF Heights
  <2>3. Len(s[i]) = x /\ \A k \in 1..x : s[i][k] = c + k - 1
    BY <2>1, <2>2, SpanIsSeq
  <2>4. s[i][1] = c
    <3>1. 1 \in 1..x /\ c + 1 - 1 = c
      BY <2>2
    <3> QED
      BY <2>3, <3>1, Zenon
  <2>5. a[i] = c /\ n[i] = x
    BY <2>3, <2>4
  <2>6. Range(s[i]) = c..(c + x - 1)
    BY <2>1, <2>2, RangeOfSpan
  <2> HIDE DEF a, n
  <2> QED
    BY <2>1, <2>2, <2>5, <2>6, Zenon DEF Tile
<1>3. DOMAIN a = 1..N /\ DOMAIN n = 1..N /\ \A i \in 1..N : a[i] = s[i][1]
  OBVIOUS
<1>3a. a \in [1..N -> Int] /\ n \in [1..N -> Nat \ {0}]
  <2>1. a = [i \in 1..N |-> a[i]] /\ n = [i \in 1..N |-> n[i]]
    OBVIOUS
  <2> HIDE DEF a, n
  <2> QED
    BY <1>2, <2>1, Zenon
<1> HIDE DEF N, a, n
<1>4. N # 0
  <2>1. lo \in lo..hi
    BY <1>1
  <2>2. PICK i \in DOMAIN s : lo \in Range(s[i])
    BY <2>1
  <2> QED
    BY <1>1, <2>2
<1>5. Tiles(N, a, n, lo, hi)
  <2>1. \A i, j \in 1..N : i # j => Tile(a, n, i) \cap Tile(a, n, j) = {}
    BY <1>1, <1>2, Zenon
  <2>2. \A h : h \in lo..hi <=> \E i \in 1..N : h \in Tile(a, n, i)
    BY <1>1, <1>2
  <2> QED
    BY <1>1, <1>3a, <1>4, <2>1, <2>2 DEF Tiles
<1>6. ASSUME NEW i \in 1..N
      PROVE  p[i] \in 1..N /\ Rank(N, a, p[i]) = i - 1 /\ SortedSpan(s, i) = s[p[i]]
  <2>1. i - 1 \in 0..(N - 1)
    BY <1>1
  <2>2. \E j \in 1..N : Rank(N, a, j) = i - 1
    <3>1. \A x \in 0..(N - 1) : \E j \in 1..N : Rank(N, a, j) = x
      BY <1>5, RankIsPlace
    <3> QED
      BY <2>1, <3>1, Zenon
  <2>3. \A j \in 1..N : Cardinality({k \in DOMAIN s : s[k][1] < s[j][1]}) = Rank(N, a, j)
    BY <1>1, <1>3, Zenon DEF Rank
  <2>4. SortedSpan(s, i) = s[CHOOSE j \in 1..N : Cardinality({k \in DOMAIN s : s[k][1] < s[j][1]}) = i - 1]
    BY <1>1 DEF SortedSpan
  <2>5. (CHOOSE j \in 1..N : Cardinality({k \in DOMAIN s : s[k][1] < s[j][1]}) = i - 1)
            = CHOOSE j \in 1..N : Rank(N, a, j) = i - 1
    BY <2>3, Zenon
  <2>6. p[i] = CHOOSE j \in 1..N : Rank(N, a, j) = i - 1
    OBVIOUS
  <2> HIDE DEF p
  <2> QED
    BY <2>2, <2>4, <2>5, <2>6, Zenon
<1>7. DOMAIN q = 1..N /\ Len(q) = N
  <2>1. q = [i \in 1..N |-> SortedSpan(s, i)]
    BY <1>1
  <2> QED
    BY <1>1, <2>1
<1>7a. \A i \in 1..N : q[i] = SortedSpan(s, i)
  BY <1>1
<1>8. Collect(s) = Flatten(q)
  BY DEF Collect
<1> DEFINE b == [i \in 1..N |-> a[p[i]]]
           m == [i \in 1..N |-> n[p[i]]]
<1> HIDE DEF q, p
<1>9. b \in [1..N -> Int] /\ m \in [1..N -> Nat]
  BY <1>2, <1>6
<1>10. \A i \in 1..N : b[i] = a[p[i]] /\ m[i] = n[p[i]]
  OBVIOUS
<1> HIDE DEF b, m
<1>11. ASSUME NEW i \in 1..N PROVE q[i] = Span(b[i], m[i])
  <2>1. q[i] = s[p[i]] /\ p[i] \in 1..N
    BY <1>6, <1>7a, Zenon
  <2>2. s[p[i]] = Span(a[p[i]], n[p[i]])
    BY <1>2, <2>1, Zenon
  <2> QED
    BY <1>10, <2>1, <2>2, Zenon
<1>12. ASSUME NEW i \in 1..(N - 1) PROVE b[i + 1] = b[i] + m[i]
  <2>1. i \in 1..N /\ i + 1 \in 1..N /\ (i + 1) - 1 = (i - 1) + 1
    BY <1>1
  <2>2. Rank(N, a, p[i + 1]) = Rank(N, a, p[i]) + 1
    BY <1>6, <2>1
  <2>3. p[i] \in 1..N /\ p[i + 1] \in 1..N
    BY <1>6, <2>1
  <2>4. a[p[i + 1]] = a[p[i]] + n[p[i]]
    BY <1>5, <2>2, <2>3, NextTile
  <2> QED
    BY <1>10, <2>1, <2>4, Zenon
<1>13. N \in Nat \ {0} /\ 1 \in 1..N /\ N \in 1..N /\ 1 - 1 = 0
  BY <1>1, <1>4
<1>14. Flatten(q) = Span(b[1], b[N] + m[N] - b[1])
  <2>1. Adjacent(N, q, b, m)
    BY <1>7, <1>9, <1>11, <1>12, Zenon DEF Adjacent
  <2> QED
    BY <1>13, <2>1, FlattenSpans
<1>15. b[1] = lo
  <2>1. Rank(N, a, p[1]) = 0 /\ p[1] \in 1..N
    BY <1>6, <1>13
  <2>2. a[p[1]] = lo
    BY <1>5, <2>1, FirstTile
  <2> QED
    BY <1>10, <1>13, <2>2, Zenon
<1>16. b[N] + m[N] = hi + 1
  <2>1. Rank(N, a, p[N]) = N - 1 /\ p[N] \in 1..N
    BY <1>6, <1>13
  <2>2. a[p[N]] + n[p[N]] = hi + 1
    BY <1>5, <2>1, LastTile
  <2> QED
    BY <1>10, <1>13, <2>2, Zenon
<1>17. b[N] + m[N] - b[1] = hi - lo + 1
  <2>1. PICK u \in Int, v \in Int : u = b[N] /\ v = m[N]
    BY <1>9, <1>13
  <2>2. u + v = hi + 1
    BY <1>16, <2>1
  <2>3. u + v - lo = hi - lo + 1
    BY <1>1, <2>2
  <2> QED
    BY <1>15, <2>1, <2>3
<1> QED
  BY <1>8, <1>14, <1>15, <1>17

-----------------------------------------------------------------------------
(* An answer to the session                                                *)

\* The headers an answer brings, what is requested next and what is left then are
\* what was requested and left before.
LEMMA AnswerSplits ==
    ASSUME RequestsInv, SessionInv, session = "running", NEW r \in requests, r.got # ChannelClosed,
           NEW got, got = r.lo..(r.lo + r.got - 1), NEW next, next = AfterAnswer(r)
    PROVE  /\ r.lo \in Heights /\ r.got \in 0..r.n /\ r.n \in Heights
           /\ IsBlockRange(next) /\ IsBlockRange(toFetch \ next)
           /\ next \cup got \cup (toFetch \ next) = toFetch \cup Requested(r)
           /\ next \cap got = {} /\ (toFetch \ next) \cap got = {}
           /\ next = {} => toFetch = {}
<1>1. RequestOK(r) /\ r \in Requests /\ Requested(r) \subseteq Heights
  BY DEF RequestsInv, RequestOK
<1>2. r.lo \in Heights /\ r.n \in Heights /\ r.got \in ChannelClosed..MaxHeight /\ r.got <= r.n
  BY <1>1 DEF RequestOK, Requests
<1>3. /\ r.lo \in Int /\ r.n \in Int /\ r.n >= 1 /\ r.got \in Int /\ r.got >= 0 /\ r.got <= r.n
      /\ r.lo >= 1 /\ MaxHeight \in Int
  BY <1>2, ClientAssumption DEF Heights, ChannelClosed
<1>4. r.lo + r.n - 1 <= MaxHeight
  <2>1. r.lo + r.n - 1 \in Requested(r)
    BY <1>3 DEF Requested
  <2>2. r.lo + r.n - 1 \in 1..MaxHeight
    BY <1>1, <2>1 DEF Heights
  <2> QED
    BY <1>3, <2>2
<1>5. IsBlockRange(range) /\ IsBlockRange(toFetch)
  BY DEF SessionInv
<1>6. toFetch \cap Requested(r) = {}
  BY DEF SessionInv, RangeIsPartitioned, AllRequested
<1>7. CASE r.got < r.n
  <2>1. next = (r.lo + r.got)..(r.lo + r.n - 1)
    BY <1>7 DEF AfterAnswer
  <2>2. r.lo + r.got \in Heights /\ r.lo + r.n - 1 \in 0..MaxHeight
    BY <1>3, <1>4, <1>7 DEF Heights
  <2>3. IsBlockRange(next)
    BY <2>1, <2>2 DEF IsBlockRange
  <2>4. next \cup got = Requested(r) /\ next \cap got = {}
    BY <1>3, <1>7, <2>1 DEF Requested
  <2>5. r.lo + r.got \in next
    BY <1>3, <1>7, <2>1
  <2>6. toFetch \ next = toFetch
    BY <1>6, <2>4
  <2>7. r.got \in 0..r.n
    BY <1>3
  <2> QED
    BY <1>2, <1>5, <1>6, <2>3, <2>4, <2>5, <2>6, <2>7, Zenon
<1>8. CASE ~(r.got < r.n)
  <2>1. r.got = r.n
    BY <1>3, <1>8
  <2>2. next = TakeNextBatch(toFetch) /\ got = Requested(r)
    BY <1>8, <2>1 DEF AfterAnswer, Requested
  <2>3. /\ IsBlockRange(next) /\ IsBlockRange(toFetch \ next) /\ next \subseteq toFetch
        /\ (toFetch # {} => next # {})
    BY <1>5, <2>2, BatchSplits, Zenon
  <2>4. r.got \in 0..r.n
    BY <1>3
  <2> QED
    BY <1>2, <1>6, <2>2, <2>3, <2>4, Zenon
<1> QED
  BY <1>7, <1>8, Zenon

\* Spans of headers that have none in common, and the headers they hold.
AreSpans(s) ==
    /\ s \in Seq(Seq(Heights) \ {<<>>})
    /\ \A i \in DOMAIN s : \E c, x \in Heights : s[i] = Span(c, x)
    /\ \A i, j \in DOMAIN s : i # j => Range(s[i]) \cap Range(s[j]) = {}
HeadersOf(s) == UNION {Range(s[i]) : i \in DOMAIN s}

LEMMA InHeadersOf ==
    ASSUME NEW s, NEW h
    PROVE  h \in HeadersOf(s) <=> \E i \in DOMAIN s : h \in Range(s[i])
  BY DEF HeadersOf

\* The spans s and one of k headers from lo on, and the headers of that one.
WithSpan(s, lo, k) == IF k > 0 THEN Append(s, Span(lo, k)) ELSE s
SpanHeaders(lo, k) == lo..(lo + k - 1)

\* A response adds its span to those received.
LEMMA ReceivedSpan ==
    ASSUME NEW s, AreSpans(s), NEW lo \in Heights, NEW k \in 0..MaxHeight,
           SpanHeaders(lo, k) \subseteq Heights,
           SpanHeaders(lo, k) \cap HeadersOf(s) = {}
    PROVE  /\ AreSpans(WithSpan(s, lo, k))
           /\ HeadersOf(WithSpan(s, lo, k)) = HeadersOf(s) \cup SpanHeaders(lo, k)
<1> DEFINE t == WithSpan(s, lo, k)
<1> USE DEF SpanHeaders
<1>0. /\ s \in Seq(Seq(Heights) \ {<<>>})
      /\ \A i \in DOMAIN s : \E c, x \in Heights : s[i] = Span(c, x)
      /\ \A i, j \in DOMAIN s : i # j => Range(s[i]) \cap Range(s[j]) = {}
  BY DEF AreSpans
<1>1. lo \in Int /\ k \in Nat
  BY ClientAssumption DEF Heights
<1>2. CASE k = 0
  <2>1. t = s /\ lo..(lo + k - 1) = {}
    BY <1>1, <1>2 DEF WithSpan
  <2> QED
    BY <2>1
<1>3. CASE k # 0
  <2> DEFINE e == Span(lo, k)
             L == Len(s)
  <2>1. t = Append(s, e) /\ k > 0 /\ k \in Heights
    BY <1>1, <1>3 DEF Heights, WithSpan
  <2> HIDE DEF t
  <2>2. Range(e) = lo..(lo + k - 1)
    BY <1>1, RangeOfSpan
  <2>3. e \in Seq(Heights) \ {<<>>}
    <3>1. e \in Seq(Int) /\ Len(e) = k /\ \A i \in 1..k : e[i] = lo + i - 1
      BY <1>1, SpanIsSeq
    <3>2. \A i \in 1..k : e[i] \in Heights
      <4> SUFFICES ASSUME NEW i \in 1..k PROVE e[i] \in Heights
        OBVIOUS
      <4>1. lo + i - 1 \in lo..(lo + k - 1)
        BY <1>1
      <4> QED
        BY <3>1, <4>1
    <3>3. e \in [1..k -> Heights]
      BY <3>2 DEF Span
    <3>4. e \in Seq(Heights)
      BY <1>1, <3>3
    <3>5. e # <<>>
      BY <1>3, <3>1
    <3> QED
      BY <3>4, <3>5
  <2>4. \E c, x \in Heights : e = Span(c, x)
    BY <2>1
  <2>5. L \in Nat /\ DOMAIN s = 1..L
    BY <1>0
  <2> HIDE DEF e, L
  <2>6. /\ t \in Seq(Seq(Heights) \ {<<>>}) /\ DOMAIN t = 1..(L + 1)
        /\ \A i \in 1..L : t[i] = s[i] 
        /\ t[L + 1] = e
    <3> DEFINE T == Seq(Heights) \ {<<>>}
    <3>1. s \in Seq(T) /\ e \in T
      BY <1>0, <2>3
    <3> HIDE DEF T
    <3>2. /\ Append(s, e) \in Seq(T)
          /\ DOMAIN Append(s, e) = 1..(Len(s) + 1)
          /\ \A i \in 1..Len(s) : Append(s, e)[i] = s[i]
          /\ Append(s, e)[Len(s) + 1] = e
      BY <3>1, Appending
    <3> QED
      BY <2>1, <3>2, Zenon DEF L, T
  <2>7. \A i \in 1..(L + 1) : i \in 1..L \/ i = L + 1
    BY <2>5
  <2>7a. 1..L \subseteq 1..(L + 1) /\ L + 1 \in 1..(L + 1)
    BY <2>5
  <2>8. \A i \in DOMAIN t : \E c, x \in Heights : t[i] = Span(c, x)
    BY <1>0, <2>4, <2>5, <2>6, <2>7, Zenon
  <2>9. \A i, j \in DOMAIN t : i # j => Range(t[i]) \cap Range(t[j]) = {}
    <3>1. \A i \in 1..L : Range(s[i]) \cap Range(e) = {}
      BY <2>2, <2>5 DEF HeadersOf
    <3> QED
      BY <1>0, <2>5, <2>6, <2>7, <3>1, Zenon
  <2>10. HeadersOf(t) = HeadersOf(s) \cup Range(e)
    <3>1. \A i \in DOMAIN t : Range(t[i]) = Range(e) \/ \E j \in DOMAIN s : Range(t[i]) = Range(s[j])
      BY <2>5, <2>6, <2>7, Zenon
    <3>2. \A j \in DOMAIN s : \E i \in DOMAIN t : Range(t[i]) = Range(s[j])
      BY <2>5, <2>6, <2>7a, Zenon
    <3>3. \E i \in DOMAIN t : Range(t[i]) = Range(e)
      BY <2>6, <2>7a
    <3>4. \A h : h \in HeadersOf(t) => h \in HeadersOf(s) \/ h \in Range(e)
      <4> SUFFICES ASSUME NEW h \in HeadersOf(t) PROVE h \in HeadersOf(s) \/ h \in Range(e)
        OBVIOUS
      <4>1. PICK i \in DOMAIN t : h \in Range(t[i])
        BY InHeadersOf
      <4>2. CASE Range(t[i]) = Range(e)
        BY <4>1, <4>2
      <4>3. CASE \E j \in DOMAIN s : Range(t[i]) = Range(s[j])
        BY <4>1, <4>3, InHeadersOf
      <4> QED
        BY <3>1, <4>2, <4>3
    <3>5. \A h : h \in HeadersOf(s) \/ h \in Range(e) => h \in HeadersOf(t)
      BY <3>2, <3>3, InHeadersOf
    <3> QED
      BY <3>4, <3>5
  <2>11. AreSpans(t)
    BY <2>6, <2>8, <2>9, Zenon DEF AreSpans
  <2> QED
    BY <2>2, <2>10, <2>11 DEF t
<1> QED
  BY <1>2, <1>3

\* An answer leaves the range partitioned, and with the last one the headers of the
\* session are its range.
LEMMA OnAnswerStep ==
    ASSUME RequestsInv, SessionInv, OnAnswer
    PROVE  RequestsInv' /\ SessionInv'
<1>1. PICK r \in requests :
          /\ r.got # ChannelClosed
          /\ toFetch' = toFetch \ AfterAnswer(r)
          /\ requests' = (requests \ {r}) \cup RequestFor(AfterAnswer(r))
          /\ responses' = IF r.got > 0 THEN Append(responses, Span(r.lo, r.got)) ELSE responses
  BY DEF OnAnswer
<1>2. /\ session = "running"
      /\ IF requests' = {} THEN session' = "done" /\ result' = Collect(responses')
                          ELSE UNCHANGED <<session, result>>
      /\ UNCHANGED <<range, closed, callers, headBatch, connected, asked, worker, failures>>
  BY DEF OnAnswer
<1> DEFINE next == AfterAnswer(r)
           got == r.lo..(r.lo + r.got - 1)
           others == requests \ {r}
           rest == UNION {Requested(q) : q \in others}
<1>3. /\ r.lo \in Heights /\ r.got \in 0..r.n /\ r.n \in Heights
      /\ IsBlockRange(next) /\ IsBlockRange(toFetch \ next)
      /\ next \cup got \cup (toFetch \ next) = toFetch \cup Requested(r)
      /\ next \cap got = {} /\ (toFetch \ next) \cap got = {}
      /\ next = {} => toFetch = {}
  BY <1>1, <1>2, AnswerSplits, Zenon
<1>4. /\ toFetch' = toFetch \ next /\ requests' = others \cup RequestFor(next)
  BY <1>1
<1>5. /\ SessionTypeOK /\ IsBlockRange(range) /\ ~closed /\ range # {} /\ IsFiniteSet(requests)
      /\ toFetch \cup AllRequested \cup AllReceived = range
      /\ toFetch \cap AllRequested = {} /\ (toFetch \cup AllRequested) \cap AllReceived = {}
      /\ \A q, x \in requests : q # x => Requested(q) \cap Requested(x) = {}
      /\ \A i, j \in DOMAIN responses : i # j => Range(responses[i]) \cap Range(responses[j]) = {}
      /\ Cardinality(requests) <= MaxConcurrent
      /\ toFetch # {} => Cardinality(requests) = MaxConcurrent
      /\ \A i \in DOMAIN responses : \E lo, n \in Heights : responses[i] = Span(lo, n)
  BY <1>2, Zenon DEF SessionInv, RangeIsPartitioned
<1>6. AllRequested = rest \cup Requested(r) /\ rest \cap Requested(r) = {}
  BY <1>5 DEF AllRequested
<1>7. \A q \in others : RequestOK(q) /\ Requested(q) \subseteq rest
  BY DEF RequestsInv
<1>8. \A q, x \in others : q # x => Requested(q) \cap Requested(x) = {}
  BY <1>5
<1>9. RequestFor(next) = {} \/ \E q : RequestFor(next) = {q} /\ RequestOK(q) /\ Requested(q) = next
  BY <1>3, RequestForOK, Zenon DEF RequestFor
<1>10. next = {} <=> RequestFor(next) = {}
  BY <1>3, RequestForOK DEF RequestFor
<1>11. range \subseteq Heights
  BY <1>5, BlockRangeFinite
<1>12. UNION {Requested(q) : q \in others} = rest
  OBVIOUS
<1>13. IsFiniteSet(others) /\ Cardinality(others) = Cardinality(requests) - 1 /\ Cardinality(requests) \in Nat
  BY <1>5, FS_RemoveElement, FS_CardinalityType
<1> HIDE DEF next, got, others, rest
<1>14. next \cap rest = {} /\ got \cap rest = {}
  BY <1>3, <1>5, <1>6, Zenon
<1>15. /\ \A q \in requests' : RequestOK(q)
       /\ AllRequested' = rest \cup next
       /\ \A q, x \in requests' : q # x => Requested(q) \cap Requested(x) = {}
       /\ IsFiniteSet(requests')
       /\ Cardinality(requests') <= MaxConcurrent
       /\ next # {} => Cardinality(requests') = Cardinality(requests)
  <2>1. CASE next = {}
    <3>1. requests' = others
      BY <1>4, <1>10, <2>1
    <3>2. AllRequested' = rest
      BY <1>12, <3>1 DEF AllRequested
    <3>3. Cardinality(requests') <= MaxConcurrent
      BY <1>5, <1>13, <3>1, SessionAssumption
    <3> QED
      BY <1>7, <1>8, <1>13, <2>1, <3>1, <3>2, <3>3
  <2>2. CASE next # {}
    <3>1. PICK q : RequestFor(next) = {q} /\ RequestOK(q) /\ Requested(q) = next
      BY <1>9, <1>10, <2>2
    <3>2. requests' = others \cup {q}
      BY <1>4, <3>1
    <3>3. \A x \in others : Requested(q) \cap Requested(x) = {}
      BY <1>7, <1>14, <3>1
    <3>4. q \notin others
      BY <2>2, <3>1, <3>3
    <3>5. AllRequested' = rest \cup next
      <4>1. \A h : h \in UNION {Requested(x) : x \in others \cup {q}}
                      <=> h \in UNION {Requested(x) : x \in others} \/ h \in Requested(q)
        BY Zenon
      <4> QED
        BY <1>12, <3>1, <3>2, <4>1 DEF AllRequested
    <3>6. IsFiniteSet(requests') /\ Cardinality(requests') = Cardinality(others) + 1
      BY <1>13, <3>2, <3>4, FS_AddElement
    <3>7. Cardinality(requests') = Cardinality(requests)
      BY <1>13, <3>6
    <3>8. \A y, x \in requests' : y # x => Requested(y) \cap Requested(x) = {}
      BY <1>8, <3>2, <3>3
    <3>9. Cardinality(requests') <= MaxConcurrent
      BY <1>5, <3>7
    <3> QED
      BY <1>7, <2>2, <3>1, <3>2, <3>5, <3>6, <3>7, <3>8, <3>9
  <2> QED
    BY <2>1, <2>2
<1>16. /\ responses' \in Seq(Seq(Heights) \ {<<>>})
       /\ \A i \in DOMAIN responses' : \E c, x \in Heights : responses'[i] = Span(c, x)
       /\ \A i, j \in DOMAIN responses' : i # j => Range(responses'[i]) \cap Range(responses'[j]) = {}
       /\ AllReceived' = AllReceived \cup got
  <2>1. AreSpans(responses) /\ AllReceived = HeadersOf(responses)
    BY <1>5 DEF SessionTypeOK, AreSpans, AllReceived, HeadersOf
  <2>2. r.got \in 0..MaxHeight
    BY <1>3, ClientAssumption DEF Heights
  <2>3. got \subseteq Heights /\ got \cap AllReceived = {}
    BY <1>3, <1>5, <1>6, <1>11, Zenon
  <2>4. AreSpans(responses') /\ HeadersOf(responses') = HeadersOf(responses) \cup got
    <3>1. PICK lo \in Heights, k \in 0..MaxHeight : lo = r.lo /\ k = r.got
      BY <1>3, <2>2
    <3>2. got = SpanHeaders(lo, k)
      BY <3>1 DEF got, SpanHeaders
    <3>3. responses' = WithSpan(responses, lo, k)
      BY <1>1, <3>1 DEF WithSpan
    <3>4. SpanHeaders(lo, k) \subseteq Heights /\ SpanHeaders(lo, k) \cap HeadersOf(responses) = {}
      BY <2>1, <2>3, <3>2
    <3>5. AreSpans(responses') /\ HeadersOf(responses') = HeadersOf(responses) \cup SpanHeaders(lo, k)
      BY <2>1, <3>3, <3>4, ReceivedSpan
    <3> QED
      BY <3>2, <3>5
  <2>5. AllReceived' = HeadersOf(responses')
    BY DEF AllReceived, HeadersOf
  <2> QED
    BY <2>1, <2>4, <2>5 DEF AreSpans
<1>17. /\ toFetch' \cup AllRequested' \cup AllReceived' = range
       /\ toFetch' \cap AllRequested' = {}
       /\ (toFetch' \cup AllRequested') \cap AllReceived' = {}
  BY <1>3, <1>4, <1>5, <1>6, <1>14, <1>15, <1>16, Zenon
<1>18. RequestsInv'
  <2>1. requests' \subseteq Requests
    BY <1>15 DEF RequestOK
  <2>2. ClientTypeOK'
    BY <1>2, <2>1 DEF RequestsInv, ClientTypeOK
  <2> QED
    BY <1>15, <2>2 DEF RequestsInv
<1>19. toFetch' # {} => Cardinality(requests') = MaxConcurrent
  BY <1>3, <1>4, <1>5, <1>15, Zenon
<1>20. CASE requests' # {}
  <2>1. session' = "running" /\ result' = result
    BY <1>2, <1>20
  <2>2. SessionTypeOK'
    BY <1>2, <1>4, <1>5, <1>16, <2>1, Zenon DEF SessionTypeOK
  <2>3. RangeIsPartitioned'
    BY <1>2, <1>15, <1>16, <1>17, <1>19, <2>1, <2>2, Zenon DEF RangeIsPartitioned
  <2>4. ResultIsTheRange'
    BY <2>1 DEF ResultIsTheRange
  <2> QED
    BY <1>2, <1>3, <1>4, <1>5, <1>15, <1>16, <1>18, <2>1, <2>3, <2>4, Zenon DEF SessionInv, IsBlockRange
<1>21. CASE requests' = {}
  <2>1. session' = "done" /\ result' = Collect(responses')
    BY <1>2, <1>21
  <2>2. SessionTypeOK'
    BY <1>2, <1>4, <1>5, <1>16, <2>1, Zenon DEF SessionTypeOK
  <2>3. RangeIsPartitioned'
    BY <2>1, <2>2 DEF RangeIsPartitioned
  <2>4. next = {} /\ toFetch' = {} /\ AllRequested' = {}
    BY <1>3, <1>4, <1>10, <1>21, Zenon DEF AllRequested
  <2>5. AllReceived' = range
    BY <1>17, <2>4
  <2>6. PICK lo \in Heights, hi \in 0..MaxHeight : range = lo..hi
    BY <1>5 DEF IsBlockRange
  <2>7. lo \in Int /\ hi \in Int /\ lo <= hi /\ hi \in Heights /\ lo \in lo..hi
    <3>1. lo \in Int /\ hi \in Int /\ lo >= 1 /\ hi <= MaxHeight /\ MaxHeight \in Int
      BY ClientAssumption DEF Heights
    <3>2. lo <= hi
      BY <1>5, <2>6, <3>1
    <3> QED
      BY <3>1, <3>2 DEF Heights
  <2>8. responses' \in Seq(Seq(Heights))
    BY <1>16
  <2>9. Collect(responses') = Span(lo, hi - lo + 1)
    <3>1. UNION {Range(responses'[i]) : i \in DOMAIN responses'} = lo..hi
      BY <2>5, <2>6 DEF AllReceived
    <3> QED
      BY <1>16, <2>7, <2>8, <3>1, CollectIsRange, Zenon
  <2>10. Min(range) = lo
    <3>1. range \in SUBSET (1..MaxHeight) /\ range # {} /\ MaxHeight \in Nat
      BY <1>5, <1>11, ClientAssumption, Zenon DEF Heights
    <3>2. Min(range) \in range /\ \A y \in range : Min(range) <= y
      BY <3>1, MinOfInterval, Zenon
    <3> QED
      BY <2>6, <2>7, <3>2
  <2>11. Cardinality(range) = hi - lo + 1
    BY <2>6, <2>7, FS_Interval
  <2>12. ResultIsTheRange'
    BY <1>2, <2>1, <2>9, <2>10, <2>11 DEF ResultIsTheRange
  <2> QED
    BY <1>2, <1>3, <1>4, <1>5, <1>16, <1>18, <2>1, <2>3, <2>12, Zenon DEF SessionInv, IsBlockRange
<1> QED
  BY <1>20, <1>21

-----------------------------------------------------------------------------
(* The theorems                                                            *)

LEMMA InitHolds ==
    ASSUME Init
    PROVE  RequestsInv /\ SessionInv
<1>1. PICK w \in Workloads :
          /\ range = w.range
          /\ callers = [c \in Callers |-> [state |-> IF c \in w.callers THEN "idle" ELSE "gone"]]
  BY DEF Init
<1>2. /\ requests = {} /\ closed = FALSE /\ headBatch = <<>> /\ connected \in SUBSET Peers
      /\ asked = {} /\ worker = "running" /\ failures = 0
  BY DEF Init, ClientInit
<1>3. toFetch = {} /\ responses = <<>> /\ session = "idle" /\ result = <<>>
  BY DEF Init, SessionInit
<1>4. callers \in [Callers -> CallerStates]
  <2>1. [state |-> "idle"] \in CallerStates /\ [state |-> "gone"] \in CallerStates
    BY DEF CallerStates
  <2> QED
    BY <1>1, <2>1
<1>5. DOMAIN headBatch = {} /\ DOMAIN responses = {}
  BY <1>2, <1>3
<1>6. 0 \in 0..MaxFailures
  BY ClientAssumption
<1>7. RequestsInv
  BY <1>2, <1>4, <1>5, <1>6, Zenon DEF RequestsInv, ClientTypeOK
<1>8. IsBlockRange(range)
  BY <1>1, WorkloadsAssumption DEF IsBlockRange
<1>9. IsBlockRange({})
  <2>1. 1 \in Heights /\ 0 \in 0..MaxHeight /\ 1..0 = {}
    BY ClientAssumption DEF Heights
  <2> QED
    BY <2>1 DEF IsBlockRange
<1>10. range \subseteq Heights
  <2>1. PICK lo \in Heights, hi \in 0..MaxHeight : range = lo..hi
    BY <1>8 DEF IsBlockRange
  <2> QED
    BY <2>1, ClientAssumption DEF Heights
<1>11. <<>> \in Seq(Seq(Heights) \ {<<>>}) /\ <<>> \in Seq(Heights)
  OBVIOUS
<1>12. SessionTypeOK
  BY <1>3, <1>10, <1>11 DEF SessionTypeOK
<1>13. RangeIsPartitioned /\ ResultIsTheRange
  BY <1>3, <1>12 DEF RangeIsPartitioned, ResultIsTheRange
<1> QED
  BY <1>2, <1>3, <1>5, <1>7, <1>8, <1>9, <1>13 DEF SessionInv

LEMMA StepHolds ==
    ASSUME RequestsInv, SessionInv, [Next]_vars
    PROVE  RequestsInv' /\ SessionInv'
<1>1. CASE ClientNext /\ UNCHANGED sessionVars
  <2>1. RequestsInv'
    BY <1>1, ClientTypeStep, ClientStep DEF RequestsStep, RequestsInv
  <2>2. SessionInv'
    BY <1>1, ClientKeepsSession
  <2> QED
    BY <2>1, <2>2
<1>2. CASE StartSession
  BY <1>2, StartSessionStep
<1>3. CASE OnAnswer
  BY <1>3, OnAnswerStep
<1>4. CASE OnChannelClosed
  BY <1>4, AbandonStep DEF OnChannelClosed
<1>5. CASE SessionDropped
  BY <1>5, AbandonStep DEF SessionDropped
<1>6. CASE UNCHANGED vars
  <2>1. UNCHANGED <<requests, closed, callers, headBatch, connected, asked, worker, failures>>
        /\ UNCHANGED <<range, toFetch, responses, session, result>>
    BY <1>6 DEF vars, clientVars, sessionVars
  <2>2. RequestsInv'
    BY <2>1, Zenon DEF RequestsInv, ClientTypeOK
  <2>3. SessionTypeOK' /\ AllRequested' = AllRequested /\ AllReceived' = AllReceived
    <3>1. SessionTypeOK'
      BY <2>1, Zenon DEF SessionInv, RangeIsPartitioned, SessionTypeOK
    <3>2. AllRequested' = AllRequested
      BY <2>1, Zenon DEF AllRequested
    <3>3. AllReceived' = AllReceived
      BY <2>1, Zenon DEF AllReceived
    <3> QED
      BY <3>1, <3>2, <3>3, Zenon
  <2>4. RangeIsPartitioned'
    BY <2>1, <2>3, Zenon DEF SessionInv, RangeIsPartitioned
  <2>5. ResultIsTheRange'
    BY <2>1 DEF SessionInv, ResultIsTheRange
  <2> QED
    BY <2>1, <2>2, <2>4, <2>5, Zenon DEF SessionInv, IsBlockRange
<1> QED
  BY <1>1, <1>2, <1>3, <1>4, <1>5, <1>6 DEF Next, SessionNext

\* What the client knows of its requests and what the session made of its range
\* are an inductive invariant.
THEOREM ExchangeInvariant == Spec => [](RequestsInv /\ SessionInv)
<1>1. Init => RequestsInv /\ SessionInv
  BY InitHolds
<1>2. (RequestsInv /\ SessionInv) /\ [Next]_vars => (RequestsInv /\ SessionInv)'
  BY StepHolds
<1> QED
  BY <1>1, <1>2, PTL DEF Spec

\* HeaderSession::run loses no header and fetches none twice, for a range, a number
\* of peers and bounds of any size.
THEOREM SessionPartitionsRange == Spec => []RangeIsPartitioned
<1>1. SessionInv => RangeIsPartitioned
  BY DEF SessionInv
<1> QED
  BY <1>1, ExchangeInvariant, PTL

\* A session that is done returns the headers of its range in order, each once.
THEOREM SessionReturnsRange == Spec => []ResultIsTheRange
<1>1. SessionInv => ResultIsTheRange
  BY DEF SessionInv
<1> QED
  BY <1>1, ExchangeInvariant, PTL

\* A request without tries left is with an archival node (next_peer_kind).
THEOREM LastTryGoesToArchival == Spec => []LastTryIsArchival
<1>1. RequestsInv => LastTryIsArchival
  BY DEF RequestsInv, LastTryIsArchival, RequestOK
<1> QED
  BY <1>1, ExchangeInvariant, PTL

\* Only the answer of schedule_head_request's task answers a caller of the head.
LEMMA OnlyTheTaskAnswers ==
    ASSUME ClientTypeOK, Next, NEW c \in Callers,
           callers[c].state # "answered", callers'[c].state = "answered"
    PROVE  \E best \in BestHeads(headBatch) : callers'[c].head = best
<1>1. CASE OnHeadTaskDone
  <2>1. callers' = callers \/ \E best \in BestHeads(headBatch) : callers' = AnswerHeadReqs(best)
    BY <1>1, Zenon DEF OnHeadTaskDone
  <2>2. PICK best \in BestHeads(headBatch) : callers' = AnswerHeadReqs(best)
    BY <2>1
  <2>3. callers'[c] \in {[state |-> "answered", head |-> best], [state |-> "gone"], callers[c]}
    BY <2>2 DEF AnswerHeadReqs
  <2>4. callers'[c] # [state |-> "gone"] /\ callers'[c] # callers[c]
    OBVIOUS
  <2>5. callers'[c].head = best
    BY <2>3, <2>4
  <2> QED
    BY <2>5, Zenon
<1>2. CASE OnStop
  <2>1. callers'[c] \in {[state |-> "failed"], [state |-> "gone"], callers[c]}
    BY <1>2 DEF OnStop, CancelHeadReqs
  <2> QED
    BY <2>1
<1>3. CASE WorkerDies
  <2>1. callers'[c] \in {[state |-> "failed"], callers[c]}
    BY <1>3, Zenon DEF WorkerDies
  <2> QED
    BY <2>1
<1>4. CASE SchedulePendingRequests
  <2>1. callers'[c] \in {[state |-> "gone"], callers[c]}
    BY <1>4 DEF SchedulePendingRequests, ScheduleHead
  <2> QED
    BY <2>1
<1>5. CASE AskHead \/ OnSendHeadRequest \/ CallerLeaves
  <2>1. PICK d \in Callers, s \in {"failed", "cmd", "queued", "left"} :
            callers' = [callers EXCEPT ![d] = [state |-> s]]
    BY <1>5, Zenon DEF AskHead, OnSendHeadRequest, CallerLeaves
  <2>2. callers'[c] \in {[state |-> s], callers[c]}
    <3>1. DOMAIN callers = Callers
      BY DEF ClientTypeOK
    <3> QED
      BY <2>1, <3>1, Zenon
  <2> QED
    BY <2>2
<1>6. CASE SessionNext
  BY <1>6, Zenon DEF SessionNext, StartSession, OnAnswer, OnChannelClosed, SessionDropped, Abandon
<1>7. CASE \/ OnSendRequest \/ NeedMorePeersAgain \/ OnResponseReceived \/ OnFailure
           \/ OnHeadResponse \/ PeerConnects \/ PeerDisconnects \/ PeerFound
  BY <1>7, Zenon DEF OnSendRequest, NeedMorePeersAgain, OnResponseReceived, OnFailure, OnHeadResponse,
              PeerConnects, PeerDisconnects, PeerFound
<1> QED
  BY <1>1, <1>2, <1>3, <1>4, <1>5, <1>6, <1>7, Zenon DEF Next, ClientNext

\* A best head is among those enough peers reported, if there are any, and no
\* other candidate is higher.
LEMMA BestHeadIsAgreed ==
    ASSUME ClientTypeOK, NEW head \in BestHeads(headBatch), NEW h \in Reported(headBatch)
    PROVE  /\ Reporters(headBatch, h) >= MinHeadResponses
                 => Reporters(headBatch, head) >= MinHeadResponses
           /\ Reporters(headBatch, h) >= MinHeadResponses
                  \/ ~(Reporters(headBatch, head) >= MinHeadResponses)
                 => h.height <= head.height
<1> DEFINE reported == Reported(headBatch)
           Enough(g) == Reporters(headBatch, g) >= MinHeadResponses
           agreed == {g \in reported : Enough(g)}
           candidates == IF agreed # {} THEN agreed ELSE reported
<1>1. head \in candidates /\ \A g \in candidates : ~SortedBefore(headBatch, g, head)
  BY Zenon DEF BestHeads
<1>2. head \in reported /\ h \in reported
  BY <1>1
<1>3. Reported(headBatch) \subseteq Heads
  BY DEF ClientTypeOK, Reported
<1>4. h.height \in Int /\ head.height \in Int
  BY <1>2, <1>3, ClientAssumption
<1>5. Enough(h) => Enough(head)
  BY <1>1, <1>2
<1>6. ASSUME Enough(h) \/ ~Enough(head) PROVE h \in candidates
  BY <1>1, <1>2, <1>6
<1> HIDE DEF candidates, Enough
<1>7. ASSUME Enough(h) \/ ~Enough(head) PROVE h.height <= head.height
  <2>1. ~(h.height > head.height)
    BY <1>1, <1>6, <1>7 DEF SortedBefore
  <2> QED
    BY <1>4, <2>1
<1> QED
  BY <1>5, <1>7 DEF Enough

\* schedule_head_request: the head a caller gets is the highest one that enough peers
\* reported, and the highest of all only if there is no such head.
THEOREM CallersGetTheAgreedHead == Spec => HeadIsAgreed
<1>1. RequestsInv => ClientTypeOK
  BY DEF RequestsInv
<1>2. ASSUME ClientTypeOK, [Next]_vars, NEW c \in Callers,
             callers[c].state # "answered", callers'[c].state = "answered",
             NEW h \in Reported(headBatch)
      PROVE  /\ Reporters(headBatch, h) >= MinHeadResponses
                   => Reporters(headBatch, callers'[c].head) >= MinHeadResponses
             /\ Reporters(headBatch, h) >= MinHeadResponses
                    \/ ~(Reporters(headBatch, callers'[c].head) >= MinHeadResponses)
                   => h.height <= callers'[c].head.height
  <2>1. Next
    BY <1>2, Zenon DEF vars, clientVars
  <2>2. callers'[c].head \in BestHeads(headBatch)
    BY <1>2, <2>1, OnlyTheTaskAnswers, Zenon
  <2> QED
    BY <1>2, <2>2, BestHeadIsAgreed, Zenon
<1>3. ClientTypeOK /\ [Next]_vars =>
         [\A c \in Callers :
             callers[c].state # "answered" /\ callers'[c].state = "answered" =>
                LET head == callers'[c].head
                    Enough(h) == Reporters(headBatch, h) >= MinHeadResponses
                IN  \A h \in Reported(headBatch) :
                       /\ Enough(h) => Enough(head)
                       /\ Enough(h) \/ ~Enough(head) => h.height <= head.height]_vars
  BY <1>2, Zenon
<1> QED
  BY <1>1, <1>3, ExchangeInvariant, PTL DEF Spec, HeadIsAgreed

=============================================================================
