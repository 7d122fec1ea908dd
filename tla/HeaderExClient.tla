--------------------------- MODULE HeaderExClient ---------------------------
(***************************************************************************)
(* The client of the header exchange protocol (p2p/header_ex/client.rs),   *)
(* which the P2p worker drives, and the peers that answer it               *)
(* (p2p/header_ex/server.rs).                                              *)
(*                                                                         *)
(* A request asks for n headers from height lo on.  Its stage is where it  *)
(* is: in the worker's command channel, in the queue of its PeerKind in    *)
(* pending_reqs, in reqs (sent to a peer), or answered and not yet read.   *)
(* The order of a queue only decides which of its requests share a peer,   *)
(* and the peers are shuffled, so a queue is a set.  Decoding a response   *)
(* is part of receiving it: nothing but on_stop, which treats both stages  *)
(* alike, touches a request between the two.  Requests by hash and the     *)
(* kinds Trusted and TrustedArchival, which on_send_request never gives to *)
(* a request of heights, are left out.                                     *)
(***************************************************************************)
EXTENDS Integers, FiniteSets, FiniteSetsExt, Sequences

CONSTANTS
    MaxHeight,          \* bound on heights
    Peers,              \* the peers there are, fewer than MAX_PEERS
    Trusted,            \* those that are trusted (bootnodes)
    Archival,           \* those that are archival nodes
    Held,               \* the heights each peer has in its store
    Heads,              \* the headers a trusted peer may report as the head
    Callers,            \* those who ask for the head of the network
    NoPeer,             \* the peer of a request that is not sent
    MaxTries,           \* MAX_TRIES
    MinHeadResponses,   \* MIN_HEAD_RESPONSES
    MaxFailures         \* bound on failed requests and lost connections

ASSUME ClientAssumption ==
    /\ MaxHeight \in Nat \ {0}
    /\ Trusted \subseteq Peers /\ Archival \subseteq Peers
    /\ NoPeer \notin Peers
    /\ Held \in [Peers -> SUBSET (1..MaxHeight)]
    /\ \A h \in Heads : h.height \in 1..MaxHeight
    /\ MaxTries \in Nat \ {0, 1}
    /\ MinHeadResponses \in Nat \ {0}
    /\ MaxFailures \in Nat

VARIABLES
    requests,       \* requests for heights that are not yet read as answers
    closed,         \* did the one who waits for these answers go away?
    callers,        \* what each caller of the head is doing, or its answer
    headBatch,      \* the answers of the peers asked for the head, while head_req_scheduled
    connected,      \* the connected peers
    asked,          \* kinds of peers asked for in the last SEND_NEED_MORE_PEERS_AFTER
    worker,         \* the P2p worker: running, stopped (on_stop was called) or dead
    failures        \* how often something failed so far

clientVars == <<requests, closed, callers, headBatch, connected, asked, worker, failures>>

Heights == 1..MaxHeight

\* What an answer brings besides a number of headers.
HeaderExError == 0
ChannelClosed == -1

\* What a peer asked for the head answers besides one of Heads.
Waiting == [height |-> 0, hash |-> "waiting"]
NoHead == [height |-> 0, hash |-> "failed"]

Requests ==
    [lo : Heights, n : Heights, stage : {"cmd", "pending", "sent", "answered"},
     kind : {"any", "archival"}, tries : 0..MaxTries, peer : Peers \cup {NoPeer},
     got : ChannelClosed..MaxHeight]

CallerStates == [state : {"idle", "cmd", "queued", "left", "gone", "failed"}]
                    \cup [state : {"answered"}, head : Heads]

ClientTypeOK ==
    /\ requests \subseteq Requests
    /\ closed \in BOOLEAN
    /\ callers \in [Callers -> CallerStates]
    /\ DOMAIN headBatch \subseteq Trusted
    /\ \A p \in DOMAIN headBatch : headBatch[p] \in Heads \cup {Waiting, NoHead}
    /\ connected \subseteq Peers
    /\ asked \subseteq {"trusted", "archival"}
    /\ worker \in {"running", "stopped", "dead"}
    /\ failures \in 0..MaxFailures

ClientInit ==
    /\ requests = {}
    /\ closed = FALSE
    /\ headBatch = <<>>
    /\ connected \in SUBSET Peers
    /\ asked = {}
    /\ worker = "running"
    /\ failures = 0

-----------------------------------------------------------------------------
(* Requests                                                                *)

Requested(r) == r.lo..(r.lo + r.n - 1)

\* The answer to a request; nobody reads it once the channel is closed.
Answer(r, got) ==
    IF closed THEN {}
    ELSE {[r EXCEPT !.stage = "answered", !.kind = "any", !.tries = 0, !.peer = NoPeer,
                    !.got = got]}

\* The last try is for archival nodes.
NextPeerKindSame(r) == r.kind       \* mutation: the last try is like the others
NextPeerKind(r) == IF r.tries = 1 THEN "archival" ELSE r.kind

CanRetry(r) == r.tries > 0 /\ ~closed

\* on_failure, and poll for a response that is no answer.
AfterFailure(r) ==
    IF CanRetry(r)
    THEN {[r EXCEPT !.stage = "pending", !.kind = NextPeerKind(r), !.peer = NoPeer]}
    ELSE Answer(r, HeaderExError)

\* The server sends the headers it has from lo on up to the first one it lacks.
Served(p, r) == Max({k \in 0..r.n : r.lo..(r.lo + k - 1) \subseteq Held[p]})

\* Peers a request of this kind may go to.
Eligible(kind) == IF kind = "archival" THEN connected \cap Archival ELSE connected

Queue(kind) == {r \in requests : r.stage = "pending" /\ r.kind = kind}

\* The i-th request of a queue goes to the i-th peer, and round again.
Assignments(reqs, peers) ==
    {f \in [reqs -> peers] :
        \A p, q \in peers : Cardinality({r \in reqs : f[r] = p})
                                <= Cardinality({r \in reqs : f[r] = q}) + 1}

\* What may become of a queue when pending requests are scheduled: without a
\* peer it stays, otherwise the closed requests go and the others are sent.
Scheduled(kind) ==
    IF Eligible(kind) = {} THEN {Queue(kind)}
    ELSE IF closed THEN {{}}
    ELSE {{[r EXCEPT !.stage = "sent", !.tries = @ - 1, !.peer = f[r]] : r \in Queue(kind)}
             : f \in Assignments(Queue(kind), Eligible(kind))}

-----------------------------------------------------------------------------
(* The head of the network                                                 *)

HeadReqs == {c \in Callers : callers[c].state \in {"queued", "left"}}

HasPendingHead == HeadReqs # {} /\ headBatch = <<>>

HasPending == HasPendingHead \/ \E r \in requests : r.stage = "pending"

Reporters(batch, h) == Cardinality({p \in DOMAIN batch : batch[p] = h})
Reported(batch) == {batch[p] : p \in DOMAIN batch} \ {NoHead, Waiting}

\* The order of the responses: by height and then by number of peers, descending.
SortedBefore(batch, g, h) ==
    \/ g.height > h.height
    \/ g.height = h.height /\ Reporters(batch, g) > Reporters(batch, h)

\* Any first one of those that enough peers reported, or else of all.
BestHeadsHighest(batch) ==      \* mutation: a single report is enough
    {h \in Reported(batch) : \A g \in Reported(batch) : ~SortedBefore(batch, g, h)}
BestHeads(batch) ==
    LET agreed == {h \in Reported(batch) : Reporters(batch, h) >= MinHeadResponses}
        candidates == IF agreed # {} THEN agreed ELSE Reported(batch)
    IN  {h \in candidates : \A g \in candidates : ~SortedBefore(batch, g, h)}

-----------------------------------------------------------------------------
(* Actions                                                                 *)

\* on_send_request with a request of heights
OnSendRequest ==
    /\ worker = "running"
    /\ \E r \in requests :
          /\ r.stage = "cmd"
          /\ requests' = (requests \ {r}) \cup {[r EXCEPT !.stage = "pending", !.tries = MaxTries]}
    /\ UNCHANGED <<closed, callers, headBatch, connected, asked, worker, failures>>

\* get_head_header: a caller sends its command; a dead worker's channel is closed.
AskHead ==
    /\ \E c \in Callers :
          /\ callers[c].state = "idle"
          /\ callers' = [callers EXCEPT
                            ![c] = [state |-> IF worker = "dead" THEN "failed" ELSE "cmd"]]
    /\ UNCHANGED <<requests, closed, headBatch, connected, asked, worker, failures>>

\* on_send_request with a head request
OnSendHeadRequest ==
    /\ worker = "running"
    /\ \E c \in Callers :
          /\ callers[c].state = "cmd"
          /\ callers' = [callers EXCEPT ![c] = [state |-> "queued"]]
    /\ UNCHANGED <<requests, closed, headBatch, connected, asked, worker, failures>>

\* A caller no longer waits; its request stays in head_reqs.
CallerLeaves ==
    /\ \E c \in Callers :
          /\ callers[c].state = "queued"
          /\ callers' = [callers EXCEPT ![c] = [state |-> "left"]]
    /\ UNCHANGED <<requests, closed, headBatch, connected, asked, worker, failures>>

\* schedule_head_request
ScheduleHead ==
    LET remaining == {c \in HeadReqs : callers[c].state = "queued"}
        peers == connected \cap Trusted
    IN  IF HasPendingHead
        THEN /\ callers' = [c \in Callers |-> IF c \in HeadReqs \ remaining
                                              THEN [state |-> "gone"] ELSE callers[c]]
             /\ headBatch' = IF remaining = {} THEN <<>> ELSE [p \in peers |-> Waiting]
        ELSE UNCHANGED <<callers, headBatch>>

\* needs_trusted_peers, needs_archival_peers of the state after scheduling
NeedsNoArchival == IF HasPendingHead' THEN {"trusted"} ELSE {}  \* mutation: archival not asked for
Needs ==
    {k \in {"trusted", "archival"} :
        IF k = "trusted" THEN HasPendingHead' ELSE Queue("archival")' # {}}

\* schedule_pending_requests, on a tick of schedule_pending_interval
SchedulePendingRequests ==
    /\ worker = "running"
    /\ HasPending
    /\ ScheduleHead
    /\ \E a \in Scheduled("archival"), b \in Scheduled("any") :
          requests' = (requests \ (Queue("archival") \cup Queue("any"))) \cup a \cup b
    /\ asked' = asked \cup Needs
    /\ UNCHANGED <<closed, connected, worker, failures>>

\* SEND_NEED_MORE_PEERS_AFTER elapses since the last request for peers of a kind.
NeedMorePeersAgain ==
    /\ \E k \in asked : asked' = asked \ {k}
    /\ UNCHANGED <<requests, closed, callers, headBatch, connected, worker, failures>>

\* A response: the headers the peer has or, when one of them is not valid, those
\* before it; a peer that does not have the first header answers not found.
OnResponseReceived ==
    /\ worker = "running"
    /\ \E r \in requests :
          /\ r.stage = "sent"
          /\ \/ /\ Served(r.peer, r) = 0
                /\ requests' = (requests \ {r}) \cup AfterFailure(r)
             \/ \E k \in 1..Served(r.peer, r) :
                    requests' = (requests \ {r}) \cup Answer(r, k)
    /\ UNCHANGED <<closed, callers, headBatch, connected, asked, worker, failures>>

\* An outbound failure or a response that is not valid.
OnFailure ==
    /\ worker = "running"
    /\ failures < MaxFailures
    /\ failures' = failures + 1
    /\ \E r \in requests :
          /\ r.stage = "sent"
          /\ requests' = (requests \ {r}) \cup AfterFailure(r)
    /\ UNCHANGED <<closed, callers, headBatch, connected, asked, worker>>

\* A peer asked for the head reports one, or its request fails.
OnHeadResponse ==
    /\ worker = "running"
    /\ \E p \in DOMAIN headBatch :
          /\ headBatch[p] = Waiting
          /\ \/ /\ \E h \in Heads : headBatch' = [headBatch EXCEPT ![p] = h]
                /\ UNCHANGED failures
             \/ /\ failures < MaxFailures
                /\ failures' = failures + 1
                /\ headBatch' = [headBatch EXCEPT ![p] = NoHead]
    /\ UNCHANGED <<requests, closed, callers, connected, asked, worker>>

\* TaskResult::Head: every caller in head_reqs gets the head, or head_req_scheduled
\* is reset and the next tick asks again.
AfterNoHeadForgotten == headBatch       \* mutation: head_req_scheduled is not reset
AfterNoHead == <<>>

\* Every caller of head_reqs gets the head.
AnswerHeadReqs(best) ==
    [c \in Callers |-> CASE callers[c].state = "queued" -> [state |-> "answered", head |-> best]
                         [] callers[c].state = "left" -> [state |-> "gone"]
                         [] OTHER -> callers[c]]

OnHeadTaskDone ==
    /\ worker = "running"
    /\ headBatch # <<>>
    /\ \A p \in DOMAIN headBatch : headBatch[p] # Waiting
    /\ IF Reported(headBatch) = {}
       THEN headBatch' = AfterNoHead /\ UNCHANGED callers
       ELSE /\ headBatch' = <<>>
            /\ \E best \in BestHeads(headBatch) : callers' = AnswerHeadReqs(best)
    /\ UNCHANGED <<requests, closed, connected, asked, worker, failures>>

PeerConnects ==
    /\ worker = "running"
    /\ \E p \in Peers \ connected : connected' = connected \cup {p}
    /\ UNCHANGED <<requests, closed, callers, headBatch, asked, worker, failures>>

\* A connection is lost, and with it the requests sent to the peer (on_failure).
PeerDisconnects ==
    /\ worker = "running"
    /\ failures < MaxFailures
    /\ failures' = failures + 1
    /\ \E p \in connected :
          /\ connected' = connected \ {p}
          /\ requests' = UNION {IF r.stage = "sent" /\ r.peer = p THEN AfterFailure(r) ELSE {r}
                                  : r \in requests}
          /\ headBatch' = [q \in DOMAIN headBatch |->
                             IF q = p /\ headBatch[q] = Waiting THEN NoHead ELSE headBatch[q]]
    /\ UNCHANGED <<closed, callers, asked, worker>>

\* connect_to_bootnodes and start_archival_node_kad_query find a peer: one asked for,
\* or a bootnode when peer_health_check finds no peer connected.
PeerFound ==
    /\ worker = "running"
    /\ \E p \in Peers \ connected :
          /\ \/ ("trusted" \in asked \/ connected = {}) /\ p \in Trusted
             \/ "archival" \in asked /\ p \in Archival
          /\ connected' = connected \cup {p}
    /\ UNCHANGED <<requests, closed, callers, headBatch, asked, worker, failures>>

\* head_reqs is cleared.
CancelHeadReqs ==
    [c \in Callers |-> CASE callers[c].state = "queued" -> [state |-> "failed"]
                         [] callers[c].state = "left" -> [state |-> "gone"]
                         [] OTHER -> callers[c]]

\* The worker is cancelled: on_stop drops every request, which answers it with
\* RequestCancelled.  Commands in the channel are no longer read.
OnStop ==
    /\ worker = "running"
    /\ worker' = "stopped"
    /\ requests' = UNION {IF r.stage \in {"pending", "sent"} THEN Answer(r, HeaderExError) ELSE {r}
                            : r \in requests}
    /\ callers' = CancelHeadReqs
    /\ headBatch' = <<>>
    /\ UNCHANGED <<closed, connected, asked, failures>>

\* Its connections are closed and the worker is dropped, and with it the commands
\* in the channel.
WorkerDies ==
    /\ worker = "stopped"
    /\ worker' = "dead"
    /\ requests' = UNION {IF r.stage = "cmd" THEN Answer(r, ChannelClosed) ELSE {r}
                            : r \in requests}
    /\ callers' = [c \in Callers |->
                     IF callers[c].state = "cmd" THEN [state |-> "failed"] ELSE callers[c]]
    /\ connected' = {}
    /\ UNCHANGED <<closed, headBatch, asked, failures>>

ClientNext ==
    \/ OnSendRequest
    \/ AskHead
    \/ OnSendHeadRequest
    \/ CallerLeaves
    \/ SchedulePendingRequests
    \/ NeedMorePeersAgain
    \/ OnResponseReceived
    \/ OnFailure
    \/ OnHeadResponse
    \/ OnHeadTaskDone
    \/ PeerConnects
    \/ PeerDisconnects
    \/ PeerFound
    \/ OnStop
    \/ WorkerDies

=============================================================================
