---------------------------- MODULE HeaderSession ----------------------------
(***************************************************************************)
(* HeaderSession (p2p/header_session.rs): fetches a range of headers with  *)
(* several requests of the header exchange client at a time.               *)
(***************************************************************************)
EXTENDS HeaderExClient

CONSTANTS
    MinAmount,          \* MIN_AMOUNT_PER_REQ
    MaxAmount,          \* MAX_AMOUNT_PER_REQ
    MaxConcurrent       \* MAX_CONCURRENT_REQS

ASSUME SessionAssumption ==
    /\ MinAmount \in Nat \ {0}
    /\ MaxAmount \in Nat /\ MinAmount <= MaxAmount
    /\ MaxConcurrent \in Nat \ {0}

VARIABLES
    range,          \* the range the session was created with
    toFetch,        \* to_fetch: the part of it not yet requested
    responses,      \* the spans of headers received, in the order of arrival
    session,        \* idle, running, done, failed or dropped
    result          \* the headers returned

sessionVars == <<range, toFetch, responses, session, result>>

Span(lo, n) == [i \in 1..n |-> lo + i - 1]

SessionTypeOK ==
    /\ range \subseteq Heights /\ toFetch \subseteq Heights
    /\ responses \in Seq(Seq(Heights) \ {<<>>})
    /\ session \in {"idle", "running", "done", "failed", "dropped"}
    /\ session # "done" => result = <<>>

SessionInit ==
    /\ toFetch = {}
    /\ responses = <<>>
    /\ session = "idle"
    /\ result = <<>>

-----------------------------------------------------------------------------

\* The size of a batch: the range shared evenly, within the two bounds.
BatchSize ==
    LET even == (Cardinality(range) + MaxConcurrent - 1) \div MaxConcurrent
    IN  Min({Max({even, MinAmount}), MaxAmount})

\* The next batch is the top of what is left.
TakeNextBatchOverlap(left) ==   \* mutation: one header too many
    {h \in left : Cardinality({g \in left : g > h}) <= BatchSize}
TakeNextBatch(left) ==
    {h \in left : Cardinality({g \in left : g > h}) < BatchSize}

\* A request as it is sent: the channel of a dead worker is closed.
NewRequest(lo, n) ==
    [lo |-> lo, n |-> n, stage |-> IF worker = "dead" THEN "answered" ELSE "cmd",
     kind |-> "any", tries |-> 0, peer |-> NoPeer,
     got |-> IF worker = "dead" THEN ChannelClosed ELSE 0]

RequestFor(batch) ==
    IF batch = {} THEN {} ELSE {NewRequest(Min(batch), Cardinality(batch))}

\* What is left of the range after k batches were taken.
LeftAfter(left, k) == {h \in left : Cardinality({g \in left : g > h}) >= k * BatchSize}

\* The span that i - 1 others start before: sort_unstable_by_key, on spans that
\* have no header in common.
SortedSpan(spans, i) ==
    spans[CHOOSE j \in DOMAIN spans :
              Cardinality({k \in DOMAIN spans : spans[k][1] < spans[j][1]}) = i - 1]

\* into_iter().flatten()
Flatten(spans) ==
    LET upTo[i \in 0..Len(spans)] == IF i = 0 THEN <<>> ELSE upTo[i - 1] \o spans[i]
    IN  upTo[Len(spans)]

\* The spans are sorted by their first header and put together.
CollectUnsorted(spans) == Flatten(spans)     \* mutation: in the order of arrival
Collect(spans) == Flatten([i \in DOMAIN spans |-> SortedSpan(spans, i)])

-----------------------------------------------------------------------------

\* new, and the first MaxConcurrent requests of run
StartSession ==
    /\ session = "idle"
    /\ range # {}
    /\ session' = "running"
    /\ toFetch' = LeftAfter(range, MaxConcurrent)
    /\ requests' = UNION {RequestFor(TakeNextBatch(LeftAfter(range, k))) : k \in 0..(MaxConcurrent - 1)}
    /\ UNCHANGED <<range, responses, result>>
    /\ UNCHANGED <<closed, callers, headBatch, connected, asked, worker, failures>>

\* What is requested after an answer: the missing part, or else the next batch.
AfterAnswer(r) ==
    IF r.got < r.n THEN (r.lo + r.got)..(r.lo + r.n - 1) ELSE TakeNextBatch(toFetch)

\* run: the next answer.  The session is done when nothing is requested any more.
OnAnswer ==
    /\ session = "running"
    /\ \E r \in requests :
          /\ r.stage = "answered" /\ r.got # ChannelClosed
          /\ LET next == AfterAnswer(r) IN
                /\ toFetch' = toFetch \ next
                /\ requests' = (requests \ {r}) \cup RequestFor(next)
          /\ responses' = IF r.got > 0 THEN Append(responses, Span(r.lo, r.got)) ELSE responses
    /\ IF requests' = {}
       THEN session' = "done" /\ result' = Collect(responses')
       ELSE UNCHANGED <<session, result>>
    /\ UNCHANGED range
    /\ UNCHANGED <<closed, callers, headBatch, connected, asked, worker, failures>>

\* The session ends, and nobody reads the answers of its requests any more.
Abandon(outcome) ==
    /\ session' = outcome
    /\ closed' = TRUE
    /\ requests' = {r \in requests : r.stage # "answered"}
    /\ UNCHANGED <<range, toFetch, responses, result>>
    /\ UNCHANGED <<callers, headBatch, connected, asked, worker, failures>>

\* run: an error that is not the header exchange's is returned.
OnChannelClosed ==
    /\ session = "running"
    /\ \E r \in requests : r.stage = "answered" /\ r.got = ChannelClosed
    /\ Abandon("failed")

\* The one who runs the session drops it.
SessionDropped ==
    /\ session = "running"
    /\ Abandon("dropped")

SessionNext == StartSession \/ OnAnswer \/ OnChannelClosed \/ SessionDropped

=============================================================================
