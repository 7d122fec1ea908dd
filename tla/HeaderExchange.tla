--------------------------- MODULE HeaderExchange ---------------------------
(***************************************************************************)
(* A header session, callers who ask for the head of the network, and the  *)
(* header exchange client that serves both (p2p.rs, p2p/header_session.rs, *)
(* p2p/header_ex.rs).                                                      *)
(***************************************************************************)
EXTENDS HeaderSession

CONSTANT
    Workloads       \* what is asked of the client: a range to fetch and the callers of the head

ASSUME WorkloadsAssumption ==
    \A w \in Workloads : \E lo \in Heights, hi \in 0..MaxHeight : w.range = lo..hi

vars == <<clientVars, sessionVars>>

Init ==
    /\ ClientInit
    /\ SessionInit
    /\ \E w \in Workloads :
          /\ range = w.range
          /\ callers = [c \in Callers |-> [state |-> IF c \in w.callers THEN "idle" ELSE "gone"]]

Next ==
    \/ ClientNext /\ UNCHANGED sessionVars
    \/ SessionNext

Spec == Init /\ [][Next]_vars

(***************************************************************************)
(* The worker is polled for as long as it runs, its interval ticks while   *)
(* requests are pending, a session that is not dropped is polled, libp2p   *)
(* answers or fails every request, and a search for peers that is repeated *)
(* for ever finds one.  Nobody has to leave, fail, disconnect or stop.     *)
(***************************************************************************)
FairSpec ==
    /\ Spec
    /\ WF_vars(OnSendRequest /\ UNCHANGED sessionVars)
    /\ WF_vars(OnSendHeadRequest /\ UNCHANGED sessionVars)
    /\ WF_vars(SchedulePendingRequests /\ UNCHANGED sessionVars)
    /\ WF_vars(NeedMorePeersAgain /\ UNCHANGED sessionVars)
    /\ WF_vars(OnResponseReceived /\ UNCHANGED sessionVars)
    /\ WF_vars(OnHeadResponse /\ UNCHANGED sessionVars)
    /\ WF_vars(OnHeadTaskDone /\ UNCHANGED sessionVars)
    /\ WF_vars(WorkerDies /\ UNCHANGED sessionVars)
    /\ SF_vars(PeerFound /\ UNCHANGED sessionVars)
    /\ WF_vars(OnAnswer)
    /\ WF_vars(OnChannelClosed)

-----------------------------------------------------------------------------

\* HeaderSession::run loses no header and fetches none twice: what is left to
\* request, what is requested and what was received are the range, without overlap,
\* whatever answers are short, fail, or arrive out of order.  It never has more than
\* MAX_CONCURRENT_REQS requests, and that many while part of the range is not requested.
AllRequested == UNION {Requested(r) : r \in requests}
AllReceived == UNION {Range(responses[i]) : i \in DOMAIN responses}
RangeIsPartitioned ==
    /\ SessionTypeOK
    /\ session = "running" =>
          /\ toFetch \cup AllRequested \cup AllReceived = range
          /\ toFetch \cap AllRequested = {} /\ (toFetch \cup AllRequested) \cap AllReceived = {}
          /\ \A q, r \in requests : q # r => Requested(q) \cap Requested(r) = {}
          /\ \A i, j \in DOMAIN responses :
                i # j => Range(responses[i]) \cap Range(responses[j]) = {}
          /\ Cardinality(requests) <= MaxConcurrent
          /\ toFetch # {} => Cardinality(requests) = MaxConcurrent

\* The session returns the headers of its range in order, each once, which is
\* what verify_adjacent_range of the caller expects.
ResultIsTheRange ==
    session = "done" => result = Span(Min(range), Cardinality(range))

\* "The last try always reaches archival nodes" (next_peer_kind): a request that
\* has no try left is with an archival node, so the session is told that a header
\* was not found only after such a node was asked for it.
LastTryIsArchival ==
    /\ ClientTypeOK
    /\ \A r \in requests : r.stage = "sent" /\ r.tries = 0 => r.peer \in Archival

\* schedule_head_request: the head a caller gets is the highest one that enough
\* peers reported, and the highest of all only if there is no such head.
HeadIsAgreed ==
    [][\A c \in Callers :
          callers[c].state # "answered" /\ callers'[c].state = "answered" =>
             LET head == callers'[c].head
                 Enough(h) == Reporters(headBatch, h) >= MinHeadResponses
             IN  \A h \in Reported(headBatch) :
                    /\ Enough(h) => Enough(head)
                    /\ Enough(h) \/ ~Enough(head) => h.height <= head.height]_vars

\* A session ends, and the client forgets its requests: it returns its headers,
\* since the last try reaches the archival nodes, or an error once the worker is
\* gone, although it sends every cancelled request again; and what is left of a
\* dropped session does not stay in pending_reqs (closed channels).
SessionEnds == session = "running" ~> session # "running" /\ requests = {}

\* Everyone who asks for the head gets it or an error, failed head requests and
\* callers who join or leave while the head is requested included.
Settled(c) == callers[c].state \notin {"cmd", "queued", "left"}
HeadCallersAreAnswered ==
    (\E c \in Callers : ~Settled(c)) ~> (\A c \in Callers : Settled(c))

-----------------------------------------------------------------------------
(* The inductive invariants of the proofs.                                 *)

\* A request without tries left waits for, or is with, an archival node, and an
\* answer has no more headers than were requested.
RequestOK(r) ==
    /\ r \in Requests
    /\ Requested(r) \subseteq Heights
    /\ r.got <= r.n
    /\ r.stage = "pending" => r.tries > 0 /\ (r.tries = 1 => r.kind = "archival")
    /\ r.stage = "sent" => r.peer \in Peers /\ (r.tries = 0 => r.peer \in Archival)

RequestsInv == ClientTypeOK /\ \A r \in requests : RequestOK(r)

IsBlockRange(S) == \E lo \in Heights, hi \in 0..MaxHeight : S = lo..hi

SessionInv ==
    /\ RangeIsPartitioned
    /\ ResultIsTheRange
    /\ IsBlockRange(range) /\ IsBlockRange(toFetch)
    /\ session = "idle" => responses = <<>> /\ ~closed
    /\ session = "running" => ~closed /\ range # {} /\ IsFiniteSet(requests)
    /\ \A i \in DOMAIN responses : \E lo, n \in Heights : responses[i] = Span(lo, n)

=============================================================================
