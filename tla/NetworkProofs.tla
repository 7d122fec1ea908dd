--------------------------- MODULE NetworkProofs ---------------------------
(***************************************************************************)
(* Proofs about the peers of the node together with the shrex protocol.    *)
(***************************************************************************)
EXTENDS Shrex, PeersProofs, IntervalLemmas

-----------------------------------------------------------------------------
(* The tracker                                                             *)

LEMMA TrackerInit ==
    ASSUME Init
    PROVE  TrackerInv
<1>1. CASE AllConnected
  <2>0. /\ peers = [p \in Peers |-> [NewPeer EXCEPT
                !.connections = {1}, !.full = TRUE, !.trusted = p \in Bootnodes,
                !.protected = IF p \in Bootnodes THEN {BootnodeTag} ELSE {}]]
        /\ info = Recount(peers)
        /\ protectCounter = [t \in Tags |-> IF t = BootnodeTag THEN Cardinality(Bootnodes) ELSE 0]
        /\ announced = [p \in Peers |-> 1]
        /\ open = [p \in Peers |-> {1}] /\ keepAliveEvents = {}
        /\ keepAlive = [p \in Peers |-> IF p \in Bootnodes THEN {1} ELSE {}]
        /\ swarmEvents = <<>> /\ dialing = {} /\ blocked = {}
        /\ phase = "running"
    BY <1>1, Zenon DEF AllConnected
  <2>0a. /\ announced = [p \in Peers |-> 1] /\ open = [p \in Peers |-> {1}]
         /\ keepAlive = [p \in Peers |-> IF p \in Bootnodes THEN {1} ELSE {}]
         /\ dialing = {} /\ blocked = {} /\ phase = "running"
    BY <2>0, Zenon
  <2>1. ASSUME NEW p \in Peers
        PROVE  /\ peers[p] \in PeerEntry /\ peers[p].known /\ peers[p].connections = {1}
               /\ peers[p].pinged = {}
               /\ peers[p].protected = IF p \in Bootnodes THEN {BootnodeTag} ELSE {}
    <3>1. PICK b \in BOOLEAN : b = (p \in Bootnodes)
      BY MemberIsBoolean
    <3>2. PICK g : g = IF p \in Bootnodes THEN {BootnodeTag} ELSE {}
      BY Zenon
    <3>3. peers[p] = [NewPeer EXCEPT !.connections = {1}, !.full = TRUE, !.trusted = b, !.protected = g]
      BY <2>0, <3>1, <3>2, Zenon
    <3>4. g \subseteq Tags
      BY <3>2 DEF Tags
    <3>5. 1 \in AllConns
      BY ShrexAssumption DEF AllConns
    <3>5a. PICK o \in SUBSET AllConns : o = {1}
      BY <3>5, Zenon
    <3>5b. PICK n \in PeerEntry : n = NewPeer /\ n.known /\ n.pinged = {}
      BY NewPeerFacts
    <3>5c. peers[p] = [n EXCEPT !.connections = o, !.full = TRUE, !.trusted = b, !.protected = g]
      BY <3>3, <3>5a, <3>5b
    <3>6. /\ peers[p] \in PeerEntry /\ peers[p].known /\ peers[p].connections = o
          /\ peers[p].pinged = {} /\ peers[p].protected = g
      BY <3>4, <3>5b, <3>5c, Zenon DEF PeerEntry
    <3> QED
      BY <3>2, <3>5a, <3>6
  <2>1a. \A p \in Peers : /\ peers[p] \in PeerEntry /\ peers[p].known /\ peers[p].connections = {1}
                          /\ peers[p].pinged = {}
                          /\ peers[p].protected = IF p \in Bootnodes THEN {BootnodeTag} ELSE {}
    BY <2>1, Zenon
  <2>2. /\ Counted(protectCounter, peers) /\ protectCounter \in [Tags -> 0..Cardinality(Peers)]
        /\ \A t \in {FullTag, ArchivalTag} : protectCounter[t] <= ProtectLimit
    <3>1. protectCounter = [t \in Tags |-> IF t = BootnodeTag THEN Cardinality(Bootnodes) ELSE 0]
      BY <2>0, Zenon
    <3>2. \A p \in Peers : peers[p].protected = IF p \in Bootnodes THEN {BootnodeTag} ELSE {}
      BY <2>1a, Zenon
    <3> QED
      BY <3>1, <3>2, FirstCounts, Zenon
  <2>3. PeersTypeOK
    <3>1. 1 \in AllConns \/ Peers = {}
      BY ShrexAssumption DEF AllConns
    <3>2. peers = [p \in Peers |-> peers[p]]
      BY <2>0, Zenon
    <3>3. peers \in [Peers -> PeerEntry]
      BY <2>1a, <3>2
    <3>4. open \in [Peers -> SUBSET AllConns] /\ keepAlive \in [Peers -> SUBSET AllConns]
      BY <2>0, <3>1, Zenon
    <3>5. TableOK(peers)
      BY <2>1a, <3>3 DEF TableOK
    <3>6. announced \in [Peers -> Int] /\ dialing \subseteq Peers /\ blocked \subseteq Peers
          /\ phase \in {"running", "stopping", "stopped"}
      BY <2>0a
    <3>7. OthersOK
      BY <2>2, <3>4, <3>6 DEF OthersOK
    <3> QED
      BY <3>5, <3>7, TypeParts
  <2>4. CountersAgree
    <3>1. Peers \ Connected = {}
      BY <2>1a DEF Connected, IsConnected
    <3>2. \A p \in Bootnodes : BootnodeTag \in peers[p].protected
      BY <2>1a, PeersAssumption
    <3> QED
      BY <2>2, <3>1, <3>2 DEF CountersAgree, Counted
  <2>5. PeersAreReported
    BY <2>0, <2>1a, Zenon DEF PeersAreReported, IsConnected
  <2>6. InStep(swarmEvents, Tracked, open) /\ swarmEvents \in Seq(SwarmEvent)
    <3>1. \A p \in Peers : open[p] \subseteq Tracked[p]
      BY <2>0, <2>1a, Zenon DEF Tracked
    <3> QED
      BY <2>0, <3>1, InStepAtFirst, Zenon
  <2>7. \A p \in Peers : /\ open[p] = {1} /\ peers[p].connections = {1}
                         /\ keepAlive[p] = IF p \in Bootnodes THEN {1} ELSE {}
                         /\ IsProtected(p) <=> p \in Bootnodes
    BY <2>0a, <2>1a, Zenon DEF IsProtected
  <2>8. ToldOfProtected /\ KeptAreTracked
    BY <2>0, <2>7, Zenon DEF ToldOfProtected, KeptAreTracked
  <2>9. KeepAliveAgrees
    BY <2>7 DEF KeepAliveAgrees
  <2>10. /\ keepAliveEvents \subseteq [peer : Peers, conn : AllConns, value : {TRUE}]
         /\ \A p \in Peers : peers[p].pinged \subseteq peers[p].connections
    BY <2>0, <2>1a, Zenon
  <2> QED
    BY <2>3, <2>4, <2>5, <2>6, <2>8, <2>9, <2>10, Zenon DEF TrackerInv
<1>2. CASE PeersInit
  BY <1>2, TrackerAtFirst
<1> QED
  BY <1>1, <1>2 DEF Init

\* The steps of shrex change who is blocked, and make entries of peers.
LEMMA ShrexKeepsTracker ==
    ASSUME TrackerInv, poolEvents \in Seq(PoolEvent), RequestsInv, ShrexNext
    PROVE  TrackerInv'
<1>0. OthersOK
  BY TypeParts DEF TrackerInv
<1>1. CASE UNCHANGED peersVars
  <2>1. OthersOK'
    BY <1>0, <1>1 DEF OthersOK, peersVars
  <2> QED
    BY <1>1, <2>1, UntouchedStep DEF peersVars, trackerVars
<1>2. CASE OnPoolEvent
  <2> DEFINE ev == Head(poolEvents)
  <2>0. /\ UNCHANGED <<protectCounter, info, announced, open, keepAlive, keepAliveEvents, swarmEvents, phase>>
        /\ \/ /\ blocked' = blocked \cup ev.peers /\ dialing' = dialing \ ev.peers /\ UNCHANGED peers
           \/ /\ peers' = [p \in Peers |-> IF p \in ev.peers THEN Entry(p) ELSE peers[p]]
              /\ UNCHANGED <<blocked, dialing>>
    BY <1>2 DEF OnPoolEvent
  <2>1. ev.peers \subseteq Peers
    <3>1. ev \in PoolEvent
      BY <1>2, TailFacts DEF OnPoolEvent
    <3> QED
      BY <3>1 DEF PoolEvent
  <2> HIDE DEF ev
  <2>2. OthersOK'
    BY <1>0, <2>0, <2>1 DEF OthersOK
  <2>3. CASE UNCHANGED peers
    BY <2>0, <2>2, <2>3, UntouchedStep DEF trackerVars
  <2>4. CASE peers' = [p \in Peers |-> IF p \in ev.peers THEN Entry(p) ELSE peers[p]]
    <3>1. /\ peers' = [p \in Peers |-> peers'[p]]
          /\ \A p \in Peers : peers'[p] = peers[p] \/ peers'[p] = Entry(p)
      BY <2>4
    <3> QED
      BY <2>0, <2>2, <3>1, ForgetStep
  <2> QED
    BY <2>0, <2>3, <2>4
<1>3. ASSUME NEW r \in Requests, OnResult(r) PROVE TrackerInv'
  <2>1. UNCHANGED <<peers, protectCounter, info, announced, open, keepAlive, keepAliveEvents,
                    swarmEvents, phase>>
    BY <1>3 DEF OnResult
  <2>2. requests[r].peer \in Peers
    BY <1>3 DEF OnResult, RequestsInv
  <2>3. \/ UNCHANGED <<blocked, dialing>>
        \/ blocked' = blocked \cup {requests[r].peer} /\ dialing' = dialing \ {requests[r].peer}
    BY <1>3 DEF OnResult
  <2>4. OthersOK'
    BY <1>0, <2>1, <2>2, <2>3 DEF OthersOK
  <2> QED
    BY <2>1, <2>4, UntouchedStep DEF trackerVars
<1>4. CASE StopAll \/ StoppedAll
  BY <1>4, QuietActions DEF StopAll, StoppedAll
<1>5. CASE SwarmStep
  BY <1>5, EventActions, ClosingActions DEF SwarmStep
<1>6. ASSUME NEW p \in Peers, NEW c \in Conns[p], CloseBlocked(p, c) PROVE TrackerInv'
  <2>1. CloseNow(p, c) /\ UNCHANGED <<peers, protectCounter, info, announced, dialing, blocked, phase>>
    BY <1>6 DEF CloseBlocked, trackerVars
  <2> QED
    BY <2>1, ClosedQuietly
<1>7. CASE InsertHeader \/ PruneHeader \/ OnHeadTask \/ SchedulePendingRequests
  BY <1>1, <1>7, Zenon DEF InsertHeader, PruneHeader, OnHeadTask, SchedulePendingRequests
<1>8. ASSUME NEW h \in Heights, HeaderFound(h) \/ OnHeaderTask(h) PROVE TrackerInv'
  BY <1>1, <1>8 DEF HeaderFound, OnHeaderTask
<1>9. ASSUME NEW r \in Requests,
             OnCommand(r) \/ Abandon(r) \/ \E h \in workload.asked : Request(r, h)
      PROVE  TrackerInv'
  BY <1>1, <1>9, Zenon DEF OnCommand, Abandon, Request
<1>10. ASSUME NEW p \in Peers, CooldownExpires(p) \/ \E h \in Heights : OnShrexSub(p, h)
       PROVE  TrackerInv'
  BY <1>1, <1>10 DEF CooldownExpires, OnShrexSub
<1> QED
  BY <1>2, <1>3, <1>4, <1>5, <1>6, <1>7, <1>8, <1>9, <1>10 DEF ShrexNext, PoolStep, ClientStep

-----------------------------------------------------------------------------
(* The requests                                                            *)

\* What RequestsInv says of each request.
RequestOK(e) ==
    /\ e \in RequestEntry
    /\ e.at # "none" => e.height \in Heights
    /\ e.at = "pending" => e.tries > 0
    /\ e.at = "ongoing" => e.peer \in Peers
    /\ e.at \in {"pending", "ongoing"} => e.height \notin EmptyHeights

LEMMA RequestFacts ==
    ASSUME RequestsInv, NEW r \in Requests
    PROVE  RequestOK(requests[r])
  BY DEF RequestsInv, RequestOK

LEMMA RequestsKept ==
    ASSUME RequestsInv, UNCHANGED requests
    PROVE  RequestsInv'
  BY DEF RequestsInv

LEMMA AnsweredOK ==
    ASSUME NEW e, RequestOK(e), e.at # "none", NEW answer \in Answers
    PROVE  RequestOK(Answered(e, answer))
<1>1. /\ Answered(e, answer) \in RequestEntry /\ Answered(e, answer).at = "done"
      /\ Answered(e, answer).height = e.height
  BY Zenon DEF RequestOK, Answered, RequestEntry
<1> QED
  BY <1>1 DEF RequestOK

LEMMA AnswerFacts ==
    \A a \in {"none", "ok", "HeaderPruned", "HeaderNotSynced", "MaxTriesReached", "abandoned",
            "RequestCancelled", "WorkerDied"} : a \in Answers
  BY DEF Answers

LEMMA RequestSet ==
    ASSUME RequestsInv, NEW r \in Requests, NEW e, RequestOK(e),
           requests' = [requests EXCEPT ![r] = e]
    PROVE  RequestsInv'
<1>1. requests' \in [Requests -> RequestEntry]
  BY DEF RequestsInv, RequestOK
<1>2. ASSUME NEW q \in Requests PROVE RequestOK(requests'[q])
  BY RequestFacts DEF RequestsInv
<1> QED
  BY <1>1, <1>2 DEF RequestsInv, RequestOK

LEMMA RequestsSet ==
    ASSUME requests' = [r \in Requests |-> requests'[r]],
           \A r \in Requests : RequestOK(requests'[r])
    PROVE  RequestsInv'
<1>1. requests' \in [Requests -> RequestEntry]
  BY DEF RequestOK
<1> QED
  BY <1>1 DEF RequestsInv, RequestOK

LEMMA NoRequestOK == RequestOK(NoRequest)
<1>1. 0 \in 0..MaxHeight /\ 0 \in 0..MaxTries /\ "none" \in Answers
  BY ShrexAssumption, AnswerFacts
<1>2. NoRequest \in RequestEntry /\ NoRequest.at = "none"
  BY <1>1 DEF NoRequest, RequestEntry
<1> QED
  BY <1>2 DEF RequestOK

LEMMA FailedOK ==
    ASSUME RequestsInv, NEW r \in Requests, requests[r].at = "ongoing"
    PROVE  RequestOK(Failed(r))
<1>1. RequestOK(requests[r])
  BY RequestFacts
<1>2. CASE requests[r].tries > 0
  <2>1. Failed(r) = [requests[r] EXCEPT !.at = "pending", !.peer = "none"]
    BY <1>2 DEF Failed
  <2>2. /\ Failed(r) \in RequestEntry /\ Failed(r).at = "pending"
        /\ Failed(r).height = requests[r].height /\ Failed(r).tries = requests[r].tries
    BY <1>1, <2>1, Zenon DEF RequestOK, RequestEntry
  <2> QED
    BY <1>1, <1>2, <2>2 DEF RequestOK
<1>3. CASE ~(requests[r].tries > 0)
  <2>1. Failed(r) = Answered(requests[r], "MaxTriesReached")
    BY <1>3 DEF Failed
  <2> QED
    BY <1>1, <2>1, AnsweredOK, AnswerFacts
<1> QED
  BY <1>2, <1>3

\* Every step of the client, and stopping, keeps requests in order.
LEMMA RequestsStep ==
    ASSUME RequestsInv, workload \in Workloads, ShrexNext
    PROVE  RequestsInv'
<1>1. CASE UNCHANGED requests
  BY <1>1, RequestsKept
<1>2. ASSUME NEW r \in Requests, NEW h \in workload.asked, Request(r, h) PROVE RequestsInv'
  <2> DEFINE new == [NoRequest EXCEPT !.at = "queued", !.height = h]
  <2>1. h \in Heights
    BY ShrexAssumption DEF Heights
  <2>2. RequestOK(new) /\ new.at # "none"
    <3>1. h \in 0..MaxHeight /\ NoRequest \in RequestEntry
      BY <2>1, NoRequestOK DEF Heights, RequestOK
    <3>2. new \in RequestEntry /\ new.at = "queued" /\ new.height = h
      BY <3>1, Zenon DEF RequestEntry
    <3> QED
      BY <2>1, <3>2 DEF RequestOK
  <2>3. RequestOK(Answered(new, "WorkerDied"))
    BY <2>2, AnsweredOK, AnswerFacts, Zenon
  <2>4. \/ requests' = [requests EXCEPT ![r] = new]
        \/ requests' = [requests EXCEPT ![r] = Answered(new, "WorkerDied")]
    BY <1>2, Zenon DEF Request
  <2> HIDE DEF new
  <2> QED
    BY <2>2, <2>3, <2>4, RequestSet
<1>3. ASSUME NEW r \in Requests, OnCommand(r) PROVE RequestsInv'
  <2>1. RequestOK(requests[r]) /\ requests[r].at = "queued" /\ requests \in [Requests -> RequestEntry]
    BY <1>3, RequestFacts DEF OnCommand, RequestsInv
  <2> DEFINE go == [requests[r] EXCEPT !.at = "pending", !.tries = workload.tries]
  <2>2. \/ \E answer \in Answers : requests' = [requests EXCEPT ![r] = Answered(requests[r], answer)]
        \/ requests[r].height \notin EmptyHeights /\ requests' = [requests EXCEPT ![r] = go]
    <3>1. requests' = [requests EXCEPT ![r] =
              IF requests[r].height \notin headers
              THEN Answered(requests[r], IF requests[r].height \in prunedHeaders
                                         THEN "HeaderPruned" ELSE "HeaderNotSynced")
              ELSE IF requests[r].height \in EmptyHeights THEN Answered(requests[r], "ok") ELSE go]
      BY <1>3, <2>1 DEF OnCommand
    <3> HIDE DEF go
    <3>2. CASE requests[r].height \notin headers
      BY <3>1, <3>2, AnswerFacts, Zenon
    <3>3. CASE requests[r].height \in headers
      BY <3>1, <3>3, AnswerFacts, Zenon
    <3> QED
      BY <3>2, <3>3
  <2>3. ASSUME requests[r].height \notin EmptyHeights PROVE RequestOK(go)
    <3>1. workload.tries \in 0..MaxTries /\ workload.tries > 0
      BY ShrexAssumption
    <3>2. /\ go \in RequestEntry /\ go.at = "pending" /\ go.tries = workload.tries
          /\ go.height = requests[r].height
      BY <2>1, <3>1, Zenon DEF RequestEntry
    <3> QED
      BY <2>1, <2>3, <3>1, <3>2 DEF RequestOK
  <2> HIDE DEF go
  <2>4. \A answer \in Answers : RequestOK(Answered(requests[r], answer))
    BY <2>1, AnsweredOK
  <2> QED
    BY <2>2, <2>3, <2>4, RequestSet
<1>4. CASE SchedulePendingRequests
  <2>1. PICK choice \in [Requests -> Peers] :
            requests' = [r \in Requests |->
                 IF r \in Pending /\ Schedulable(r)
                 THEN [requests[r] EXCEPT !.at = "ongoing", !.peer = choice[r], !.tries = TriesLeft(r)]
                 ELSE requests[r]]
    BY <1>4, Zenon DEF SchedulePendingRequests
  <2>2. ASSUME NEW r \in Requests PROVE RequestOK(requests'[r])
    <3>1. RequestOK(requests[r])
      BY RequestFacts
    <3>2. CASE r \in Pending /\ Schedulable(r)
      <4>1. requests'[r] = [requests[r] EXCEPT !.at = "ongoing", !.peer = choice[r], !.tries = TriesLeft(r)]
        BY <2>1, <3>2, Zenon
      <4>2. requests[r].at = "pending" /\ requests[r] \in RequestEntry /\ requests[r].tries > 0
        BY <3>1, <3>2 DEF Pending, RequestOK
      <4>3. TriesLeft(r) \in 0..MaxTries
        <5>1. requests[r].tries \in 0..MaxTries
          BY <4>2 DEF RequestEntry
        <5> QED
          BY <4>2, <5>1, ShrexAssumption DEF TriesLeft
      <4>4. /\ requests'[r] \in RequestEntry /\ requests'[r].at = "ongoing"
            /\ requests'[r].peer = choice[r] /\ requests'[r].height = requests[r].height
        BY <4>1, <4>2, <4>3, Zenon DEF RequestEntry
      <4> QED
        BY <3>1, <4>2, <4>4 DEF RequestOK
    <3>3. CASE ~(r \in Pending /\ Schedulable(r))
      BY <2>1, <3>1, <3>3, Zenon
    <3> QED
      BY <3>2, <3>3
  <2>3. requests' = [r \in Requests |-> requests'[r]]
    BY <2>1, Zenon
  <2> QED
    BY <2>2, <2>3, RequestsSet
<1>5. ASSUME NEW r \in Requests, OnResult(r) PROVE RequestsInv'
  <2>1. RequestOK(requests[r]) /\ requests[r].at = "ongoing" /\ requests \in [Requests -> RequestEntry]
    BY <1>5, RequestFacts DEF OnResult, RequestsInv
  <2>2. RequestOK(Failed(r)) /\ RequestOK(Answered(requests[r], "ok"))
    BY <2>1, FailedOK, AnsweredOK, AnswerFacts
  <2>3. \/ requests' = [requests EXCEPT ![r] = Answered(requests[r], "ok")]
        \/ requests' = [requests EXCEPT ![r] = Failed(r)]
    BY <1>5, <2>1 DEF OnResult
  <2> QED
    BY <2>2, <2>3, RequestSet
<1>6. ASSUME NEW r \in Requests, Abandon(r) PROVE RequestsInv'
  <2>1. RequestOK(requests[r]) /\ requests[r].at # "none" /\ requests \in [Requests -> RequestEntry]
    BY <1>6, RequestFacts DEF Abandon, RequestsInv, Pending, Ongoing
  <2>2. requests' = [requests EXCEPT ![r] = Answered(requests[r], "abandoned")]
    BY <1>6, <2>1 DEF Abandon
  <2>3. RequestOK(Answered(requests[r], "abandoned"))
    BY <2>1, AnsweredOK, AnswerFacts
  <2> QED
    BY <2>2, <2>3, RequestSet, Zenon
<1>7. CASE StopAll \/ StoppedAll
  <2>1. /\ requests' = [r \in Requests |-> requests'[r]]
        /\ \A r \in Requests :
              \/ requests'[r] = requests[r]
              \/ requests[r].at # "none" /\ requests'[r] = Answered(requests[r], "RequestCancelled")
              \/ requests[r].at # "none" /\ requests'[r] = Answered(requests[r], "WorkerDied")
    <3>1. CASE StopAll
      BY <3>1 DEF StopAll, StoppedRequests, Pending, Ongoing
    <3>2. CASE StoppedAll
      BY <3>2 DEF StoppedAll
    <3> QED
      BY <1>7, <3>1, <3>2
  <2>2. ASSUME NEW r \in Requests PROVE RequestOK(requests'[r])
    BY <2>1, RequestFacts, AnsweredOK, AnswerFacts
  <2> QED
    BY <2>1, <2>2, RequestsSet
<1>8. CASE InsertHeader \/ PruneHeader \/ PoolStep \/ SwarmStep
  <2>1. UNCHANGED requests
    BY <1>8 DEF InsertHeader, PruneHeader, PoolStep, SwarmStep, OnHeadTask, OnPoolEvent, HeaderFound,
                OnHeaderTask, clientVars, shrexVars
  <2> QED
    BY <1>1, <2>1
<1>9. ASSUME NEW p \in Peers,
             \/ CooldownExpires(p) \/ \E h \in Heights : OnShrexSub(p, h)
             \/ \E c \in Conns[p] : CloseBlocked(p, c)
      PROVE  RequestsInv'
  <2>1. UNCHANGED requests
    BY <1>9 DEF CooldownExpires, OnShrexSub, CloseBlocked, clientVars, shrexVars
  <2> QED
    BY <1>1, <2>1
<1> QED
  BY <1>2, <1>3, <1>4, <1>5, <1>6, <1>7, <1>8, <1>9 DEF ShrexNext, ClientStep

-----------------------------------------------------------------------------
(* The pools                                                               *)

LEMMA PoolFacts ==
    /\ NoPool \in Pools /\ NoPool.kind = "none"
    /\ \A votes : Candidate(votes).kind = "candidates" /\ Candidate(votes).votes = votes
    /\ \A votes \in Votes : Candidate(votes) \in Pools
    /\ \A hash : Validated(hash).kind = "validated" /\ Validated(hash).hash = hash
    /\ \A hash \in Hashes : Validated(hash) \in Pools
    /\ \A pool \in Pools : /\ pool.kind \in {"none", "candidates", "validated"}
                           /\ pool.kind = "candidates" => pool.votes \in Votes
                           /\ pool.kind = "validated" => pool.hash \in Hashes
<1>1. NoPool \in Pools /\ NoPool.kind = "none"
  BY DEF NoPool, Pools
<1>2. \A votes : Candidate(votes).kind = "candidates" /\ Candidate(votes).votes = votes
  BY DEF Candidate
<1>3. \A hash : Validated(hash).kind = "validated" /\ Validated(hash).hash = hash
  BY DEF Validated
<1>4. /\ \A votes \in Votes : Candidate(votes) \in Pools
      /\ \A hash \in Hashes : Validated(hash) \in Pools
  BY DEF Pools
<1>5. ASSUME NEW pool \in Pools
      PROVE  /\ pool.kind \in {"none", "candidates", "validated"}
             /\ pool.kind = "candidates" => pool.votes \in Votes
             /\ pool.kind = "validated" => pool.hash \in Hashes
  <2>1. pool = NoPool \/ (\E votes \in Votes : pool = Candidate(votes))
        \/ (\E hash \in Hashes : pool = Validated(hash))
    BY DEF Pools
  <2> QED
    BY <1>1, <1>2, <1>3, <2>1
<1> QED
  BY <1>1, <1>2, <1>3, <1>4, <1>5

LEMMA HashFacts ==
    /\ WrongHash \in Hashes /\ EmptyHash \in Hashes
    /\ \A h \in Heights : DataHash(h) \in Hashes /\ (h \notin EmptyHeights => DataHash(h) = h)
    /\ \A g, h \in Heights : DataHash(g) = h => g = h
<1>1. MaxHeight \in Nat
  BY ShrexAssumption
<1> QED
  BY <1>1 DEF WrongHash, EmptyHash, Hashes, Heights, DataHash

\* What PoolsInv says of the pool of a height.
PoolOK(h, pool, task, head, domain) ==
    /\ pool \in Pools
    /\ pool.kind # "none" => head # 0 /\ h > StaleHeightThreshold(head)
    /\ pool.kind = "candidates" => task # "none"
    /\ pool.kind = "validated" => /\ pool.hash = DataHash(h)
                                  /\ h \notin EmptyHeights => h \in domain

\* PoolsInv but for the peers and the requests.
TablesInv ==
    /\ workload \in Workloads /\ headers \subseteq Heights
    /\ poolEvents \in Seq(PoolEvent)
    /\ subjectiveHead \in 0..MaxHeight
    /\ poolTasks \in [Heights -> {"none", "waiting", "found"}]
    /\ DOMAIN validatedPools \subseteq Hashes
    /\ pools \in [Heights -> Pools]
    /\ \A h \in Heights : PoolOK(h, pools[h], poolTasks[h], subjectiveHead, DOMAIN validatedPools)

LEMMA PoolsParts ==
    ASSUME PoolsInv
    PROVE  TablesInv /\ RequestsInv /\ HeadTaskInv
<1>1. \A h \in Heights : PoolOK(h, pools[h], poolTasks[h], subjectiveHead, DOMAIN validatedPools)
  <2> SUFFICES ASSUME NEW h \in Heights
               PROVE  PoolOK(h, pools[h], poolTasks[h], subjectiveHead, DOMAIN validatedPools)
    OBVIOUS
  <2>1. pools[h] \in Pools
    BY DEF PoolsInv
  <2>2. /\ pools[h].kind # "none" => h > StaleHeightThreshold(subjectiveHead)
        /\ pools[h].kind = "candidates" => poolTasks[h] # "none"
    BY DEF PoolsInv, PoolsAgree
  <2>3. /\ subjectiveHead = 0 => pools[h].kind = "none"
        /\ pools[h].kind = "validated" =>
              /\ pools[h].hash = DataHash(h)
              /\ h \notin EmptyHeights => h \in DOMAIN validatedPools
    BY DEF PoolsInv
  <2> QED
    BY <2>1, <2>2, <2>3 DEF PoolOK
<1> QED
  BY <1>1 DEF TablesInv, PoolsInv, PoolsAgree, TypeOK

LEMMA PoolsFromParts ==
    ASSUME TablesInv', RequestsInv', HeadTaskInv', PeersTypeOK'
    PROVE  PoolsInv'
<1>1. \A h \in Heights : PoolOK(h, pools'[h], poolTasks'[h], subjectiveHead', DOMAIN validatedPools')
  BY DEF TablesInv
<1>2. \A h \in Heights :
          /\ pools'[h] \in Pools
          /\ pools'[h].kind # "none" => subjectiveHead' # 0 /\ h > StaleHeightThreshold(subjectiveHead')
          /\ pools'[h].kind = "candidates" => poolTasks'[h] # "none"
          /\ pools'[h].kind = "validated" =>
                /\ pools'[h].hash = DataHash(h)
                /\ h \notin EmptyHeights => h \in DOMAIN validatedPools'
  BY <1>1 DEF PoolOK
<1>3. ASSUME NEW r \in Requests
      PROVE  /\ requests'[r].at \in {"none", "queued", "pending", "ongoing", "done"}
             /\ requests'[r].tries \in 0..MaxTries
             /\ requests'[r].at = "pending" =>
                   requests'[r].height \in Heights /\ requests'[r].height \notin EmptyHeights
  <2>1. requests'[r] \in RequestEntry
    BY DEF RequestsInv
  <2>2. /\ requests'[r].at # "none" => requests'[r].height \in Heights
        /\ requests'[r].at \in {"pending", "ongoing"} => requests'[r].height \notin EmptyHeights
    BY DEF RequestsInv
  <2> QED
    BY <2>1, <2>2 DEF RequestEntry
<1>4. TypeOK'
  <2>1. \A h \in Heights : pools'[h].kind \in {"none", "candidates", "validated"}
    BY <1>2, PoolFacts
  <2> QED
    BY <1>3, <2>1 DEF TypeOK, TablesInv
<1>5. ASSUME NEW r \in Requests, requests'[r].at = "pending",
             pools'[requests'[r].height].kind = "validated"
      PROVE  pools'[requests'[r].height].hash \in DOMAIN validatedPools'
  <2>1. requests'[r].height \in Heights /\ requests'[r].height \notin EmptyHeights
    BY <1>3, <1>5
  <2>2. /\ pools'[requests'[r].height].hash = DataHash(requests'[r].height)
        /\ requests'[r].height \in DOMAIN validatedPools'
    BY <1>2, <1>5, <2>1
  <2> QED
    BY <2>1, <2>2, HashFacts
<1>6. PoolsAgree'
  BY <1>2, <1>4, <1>5 DEF PoolsAgree, Pending
<1> QED
  BY <1>2, <1>6 DEF PoolsInv, TablesInv

\* A step that leaves the tracker of pools alone.
LEMMA TablesKept ==
    ASSUME TablesInv, workload' = workload, headers' \subseteq Heights,
           poolEvents' \in Seq(PoolEvent), poolTasks' \in [Heights -> {"none", "waiting", "found"}],
           \A g \in Heights : poolTasks'[g] = "none" => poolTasks[g] = "none",
           UNCHANGED <<subjectiveHead, pools, validatedPools>>
    PROVE  TablesInv'
<1>1. ASSUME NEW g \in Heights
      PROVE  PoolOK(g, pools'[g], poolTasks'[g], subjectiveHead', DOMAIN validatedPools')
  <2>1. PoolOK(g, pools[g], poolTasks[g], subjectiveHead, DOMAIN validatedPools)
    BY DEF TablesInv
  <2> QED
    BY <2>1 DEF PoolOK
<1> QED
  BY <1>1 DEF TablesInv

LEMMA AddPeerStep ==
    ASSUME TablesInv, NEW p \in Peers, NEW h \in Heights, NEW hash \in Hashes,
           AddPeerForHash(p, h, hash), UNCHANGED <<workload, headers, subjectiveHead>>
    PROVE  TablesInv'
<1>0. /\ poolEvents \in Seq(PoolEvent) /\ subjectiveHead \in 0..MaxHeight
      /\ poolTasks \in [Heights -> {"none", "waiting", "found"}]
      /\ DOMAIN validatedPools \subseteq Hashes /\ pools \in [Heights -> Pools]
      /\ \A g \in Heights : PoolOK(g, pools[g], poolTasks[g], subjectiveHead, DOMAIN validatedPools)
  BY DEF TablesInv
<1>1. subjectiveHead # 0 /\ h > StaleHeightThreshold(subjectiveHead)
  <2>1. ~(h <= StaleHeightThreshold(subjectiveHead)) /\ subjectiveHead # 0
    BY Zenon DEF AddPeerForHash, Stale
  <2>2. StaleHeightThreshold(subjectiveHead) \in Int /\ h \in Int
    BY <1>0, ShrexAssumption DEF StaleHeightThreshold, Heights
  <2> QED
    BY <2>1, <2>2
<1> DEFINE pool == IF pools[h].kind = "none" THEN Candidate(NoVotes) ELSE pools[h]
<1>2. poolTasks' = [poolTasks EXCEPT ![h] = IF pools[h].kind = "none" THEN "waiting" ELSE @]
  BY Zenon DEF AddPeerForHash
<1>3. /\ poolTasks' \in [Heights -> {"none", "waiting", "found"}]
      /\ \A g \in Heights : poolTasks'[g] = "none" => poolTasks[g] = "none"
      /\ pools[h].kind = "none" => poolTasks'[h] # "none"
  BY <1>0, <1>2
<1>4. \/ /\ pool.kind = "candidates"
         /\ pools' = [pools EXCEPT ![h] = Candidate([pool.votes EXCEPT ![hash] = @ \cup {p}])]
         /\ UNCHANGED <<validatedPools, poolEvents>>
      \/ /\ UNCHANGED pools
         /\ \/ UNCHANGED validatedPools \/ validatedPools' = With(hash, PoolOf(hash) \cup {p})
         /\ \E type \in {"AddPeers", "BlockPeers"} : poolEvents' = Append(poolEvents, Event(type, {p}))
  BY Zenon DEF AddPeerForHash
<1>5. poolEvents' \in Seq(PoolEvent)
  <2>1. \A type \in {"AddPeers", "BlockPeers"} : Event(type, {p}) \in PoolEvent
    BY DEF Event, PoolEvent
  <2>2. poolEvents' = poolEvents
        \/ \E type \in {"AddPeers", "BlockPeers"} : poolEvents' = Append(poolEvents, Event(type, {p}))
    BY <1>4, Zenon
  <2>3. \A e \in PoolEvent : Append(poolEvents, e) \in Seq(PoolEvent)
    BY <1>0, AppendFacts, Zenon
  <2> QED
    BY <1>0, <2>1, <2>2, <2>3, Zenon
<1>6. DOMAIN validatedPools' \subseteq Hashes /\ DOMAIN validatedPools \subseteq DOMAIN validatedPools'
  BY <1>0, <1>4 DEF With
<1>7. CASE UNCHANGED pools
  <2>1. ASSUME NEW g \in Heights
        PROVE  PoolOK(g, pools'[g], poolTasks'[g], subjectiveHead', DOMAIN validatedPools')
    BY <1>0, <1>3, <1>6, <1>7 DEF PoolOK
  <2> QED
    BY <1>0, <1>3, <1>5, <1>6, <1>7, <2>1, Zenon DEF TablesInv
<1>8. CASE /\ pool.kind = "candidates"
           /\ pools' = [pools EXCEPT ![h] = Candidate([pool.votes EXCEPT ![hash] = @ \cup {p}])]
  <2>1. pool.votes \in Votes
    <3>1. NoVotes \in Votes
      BY DEF NoVotes, Votes
    <3>2. CASE pools[h].kind = "none"
      BY <3>1, <3>2, PoolFacts
    <3>3. CASE pools[h].kind # "none"
      BY <1>0, <1>8, <3>3, PoolFacts, Zenon
    <3> QED
      BY <3>2, <3>3, Zenon
  <2>1a. pools[h].kind \in {"none", "candidates"}
    BY <1>0, <1>8, PoolFacts, Zenon
  <2> HIDE DEF pool
  <2>2. PICK votes \in Votes : votes = [pool.votes EXCEPT ![hash] = @ \cup {p}]
    BY <2>1, Zenon DEF Votes
  <2>3. pools' = [pools EXCEPT ![h] = Candidate(votes)] /\ Candidate(votes) \in Pools
        /\ Candidate(votes).kind = "candidates"
    BY <1>8, <2>2, PoolFacts, Zenon
  <2>4. pools' \in [Heights -> Pools]
    BY <1>0, <2>3
  <2>5. ASSUME NEW g \in Heights
        PROVE  PoolOK(g, pools'[g], poolTasks'[g], subjectiveHead', DOMAIN validatedPools')
    <3>1. CASE g = h
      <4>1. pools'[g] = Candidate(votes)
        BY <1>0, <2>3, <3>1
      <4>2. poolTasks'[h] # "none"
        BY <1>0, <1>3, <2>1a DEF PoolOK
      <4> QED
        BY <1>1, <2>3, <3>1, <4>1, <4>2 DEF PoolOK
    <3>2. CASE g # h
      <4>1. pools'[g] = pools[g]
        BY <1>0, <2>3, <3>2
      <4> QED
        BY <1>0, <1>3, <1>6, <4>1, Zenon DEF PoolOK
    <3> QED
      BY <3>1, <3>2
  <2> QED
    BY <1>0, <1>3, <1>5, <1>6, <2>4, <2>5, Zenon DEF TablesInv
<1> QED
  BY <1>4, <1>7, <1>8, Zenon

LEMMA WithoutStep ==
    ASSUME TablesInv, NEW ps, WithoutPeers(ps), poolEvents' \in Seq(PoolEvent),
           UNCHANGED <<workload, headers, subjectiveHead, poolTasks>>
    PROVE  TablesInv'
<1>0. /\ DOMAIN validatedPools' = DOMAIN validatedPools /\ pools \in [Heights -> Pools]
      /\ \A g \in Heights : PoolOK(g, pools[g], poolTasks[g], subjectiveHead, DOMAIN validatedPools)
      /\ pools' = [h \in Heights |-> pools'[h]]
  BY Zenon DEF TablesInv, WithoutPeers
<1>1. ASSUME NEW g \in Heights
      PROVE  PoolOK(g, pools'[g], poolTasks'[g], subjectiveHead', DOMAIN validatedPools')
             /\ pools'[g] \in Pools
  <2>1. CASE pools[g].kind = "candidates"
    <3>1. pools[g].votes \in Votes
      BY <1>0, <2>1, PoolFacts
    <3>2. PICK votes \in Votes : votes = [hash \in Hashes |-> pools[g].votes[hash] \ ps]
      BY <3>1, Zenon DEF Votes
    <3>3. pools'[g] = Candidate(votes)
      BY <2>1, <3>2, Zenon DEF WithoutPeers
    <3>4. Candidate(votes) \in Pools /\ Candidate(votes).kind = "candidates"
      BY PoolFacts
    <3> QED
      BY <1>0, <2>1, <3>3, <3>4 DEF PoolOK
  <2>2. CASE pools[g].kind # "candidates"
    <3>1. pools'[g] = pools[g]
      BY <2>2 DEF WithoutPeers
    <3> QED
      BY <1>0, <3>1
  <2> QED
    BY <2>1, <2>2, Zenon
<1>2. pools' \in [Heights -> Pools]
  BY <1>0, <1>1
<1> QED
  BY <1>0, <1>1, <1>2, Zenon DEF TablesInv

\* Of a pool's events only the one of its bad peers blocks.
SaidOf(es, bad) ==
    /\ es \in Seq(PoolEvent)
    /\ \A i \in 1..Len(es) : es[i].type = "BlockPeers" => es[i].peers = bad

\* What the tracker has to say of the peers of a pool.
LEMMA SaidOfPool ==
    ASSUME NEW good \in SUBSET Peers, NEW bad \in SUBSET Peers, NEW es,
           es = <<>> \o (IF good = {} THEN <<>> ELSE <<Event("AddPeers", good)>>)
                     \o (IF bad = {} THEN <<>> ELSE <<Event("BlockPeers", bad)>>)
    PROVE  SaidOf(es, bad)
<1>1. PICK e \in PoolEvent : e = Event("AddPeers", good) /\ e.type # "BlockPeers"
  BY DEF Event, PoolEvent
<1>2. PICK f \in PoolEvent : f = Event("BlockPeers", bad) /\ f.peers = bad
  BY DEF Event, PoolEvent
<1>3. /\ <<>> \in Seq(PoolEvent) /\ Len(<<>>) = 0
      /\ <<e>> \in Seq(PoolEvent) /\ Len(<<e>>) = 1 /\ <<e>>[1] = e
      /\ <<f>> \in Seq(PoolEvent) /\ Len(<<f>>) = 1 /\ <<f>>[1] = f
  OBVIOUS
<1>4. PICK a : a = IF good = {} THEN <<>> ELSE <<e>>
  BY Zenon
<1>5. PICK b : b = IF bad = {} THEN <<>> ELSE <<f>>
  BY Zenon
<1>6. a \in Seq(PoolEvent) /\ Len(a) \in Nat /\ \A i \in 1..Len(a) : a[i].type # "BlockPeers"
  BY <1>1, <1>3, <1>4
<1>7. b \in Seq(PoolEvent) /\ Len(b) \in Nat /\ \A i \in 1..Len(b) : b[i].peers = bad
  BY <1>2, <1>3, <1>5
<1>8. es = a \o b
  <2>1. es = (<<>> \o a) \o b
    BY <1>1, <1>2, <1>4, <1>5
  <2>2. <<>> \o a = a
    BY <1>6
  <2> QED
    BY <2>1, <2>2
<1>9. /\ es \in Seq(PoolEvent) /\ Len(es) = Len(a) + Len(b)
      /\ \A i \in 1..(Len(a) + Len(b)) : es[i] = IF i <= Len(a) THEN a[i] ELSE b[i - Len(a)]
  BY <1>6, <1>7, <1>8
<1>10. ASSUME NEW i \in 1..Len(es), es[i].type = "BlockPeers" PROVE es[i].peers = bad
  <2>1. CASE i <= Len(a)
    <3>1. i \in 1..Len(a) /\ es[i] = a[i]
      BY <1>6, <1>7, <1>9, <2>1
    <3> QED
      BY <1>6, <1>10, <3>1
  <2>2. CASE ~(i <= Len(a))
    <3>1. i - Len(a) \in 1..Len(b) /\ es[i] = b[i - Len(a)]
      BY <1>6, <1>7, <1>9, <2>2
    <3> QED
      BY <1>7, <3>1
  <2> QED
    BY <2>1, <2>2
<1> QED
  BY <1>9, <1>10, Zenon DEF SaidOf

\* The heights that are evicted are those that become stale.
LEMMA EvictedAreStale ==
    ASSUME NEW head \in 0..MaxHeight, NEW h \in Heights, NEW g \in Heights,
           head # 0, g > StaleHeightThreshold(head),
           h <= head \/ g \notin StaleHeightThreshold(head)..StaleHeightThreshold(h)
    PROVE  /\ g > StaleHeightThreshold(Max({head, h})) /\ Max({head, h}) # 0
           /\ Max({head, h}) \in 0..MaxHeight
<1>0. /\ head \in Int /\ h \in Int /\ g \in Int /\ h >= 1 /\ g >= 1 /\ h <= MaxHeight
      /\ MaxHeight \in Nat /\ Window \in Nat /\ Window # 0
  BY ShrexAssumption DEF Heights
<1>1. Max({head, h}) \in {head, h} /\ Max({head, h}) >= head /\ Max({head, h}) >= h
  BY <1>0, MaxOfPair
<1>2. CASE h <= head
  <2>1. Max({head, h}) = head
    BY <1>0, <1>1, <1>2
  <2> QED
    BY <2>1
<1>3. CASE h > head
  <2>1. Max({head, h}) = h
    BY <1>0, <1>1, <1>3
  <2>2. g > StaleHeightThreshold(h)
    BY <1>0, <1>3 DEF StaleHeightThreshold
  <2> QED
    BY <1>0, <2>1, <2>2
<1> QED
  BY <1>0, <1>2, <1>3

LEMMA UpdateStep ==
    ASSUME TablesInv, NEW h \in Heights, UpdateAndValidate(h), poolEvents = <<>>,
           poolTasks' \in [Heights -> {"none", "waiting", "found"}],
           \A g \in Heights \ {h} : poolTasks'[g] = poolTasks[g],
           UNCHANGED <<workload, headers>>
    PROVE  TablesInv'
<1>0. /\ poolEvents \in Seq(PoolEvent) /\ subjectiveHead \in 0..MaxHeight
      /\ DOMAIN validatedPools \subseteq Hashes /\ pools \in [Heights -> Pools]
      /\ \A g \in Heights : PoolOK(g, pools[g], poolTasks[g], subjectiveHead, DOMAIN validatedPools)
  BY DEF TablesInv
<1> DEFINE evicted == IF subjectiveHead # 0 /\ h > subjectiveHead THEN Evicted(h) ELSE {}
           dropped == {pools[g].hash : g \in {g \in Heights \cap evicted : pools[g].kind = "validated"}}
           left == [g \in Heights |-> IF g \in evicted THEN NoPool ELSE pools[g]]
           hash == DataHash(h)
           good == left[h].votes[hash]
           bad == BadPeers(left[h], hash)
<1>1. /\ subjectiveHead' = Max({subjectiveHead, h})
      /\ IF left[h].kind # "candidates"
         THEN /\ pools' = left
              /\ validatedPools' = Restrict(validatedPools, DOMAIN validatedPools \ dropped)
              /\ UNCHANGED poolEvents
         ELSE /\ pools' = [left EXCEPT ![h] = Validated(hash)]
              /\ validatedPools' = LET all == Promoted(hash, good)
                                   IN  Restrict(all, DOMAIN all \ (dropped \ {hash}))
              /\ poolEvents' = poolEvents
                     \o (IF good = {} THEN <<>> ELSE <<Event("AddPeers", good)>>)
                     \o (IF bad = {} THEN <<>> ELSE <<Event("BlockPeers", bad)>>)
  BY Zenon DEF UpdateAndValidate
<1>2. ASSUME NEW g \in Heights
      PROVE  /\ left[g] \in Pools
             /\ left[g].kind # "none" => left[g] = pools[g] /\ g \notin evicted
  BY <1>0, PoolFacts, Zenon
<1>3. subjectiveHead' \in 0..MaxHeight
  <2>1. subjectiveHead \in Int /\ h \in Int /\ h \in 0..MaxHeight
    <3>1. subjectiveHead \in 0..MaxHeight /\ h \in 1..MaxHeight /\ MaxHeight \in Nat
      BY <1>0, ShrexAssumption, Zenon DEF Heights
    <3> QED
      BY <3>1
  <2>2. Max({subjectiveHead, h}) \in {subjectiveHead, h}
    BY <2>1, MaxOfPair, Zenon
  <2> QED
    BY <1>0, <1>1, <2>1, <2>2, Zenon
<1>4. ASSUME NEW g \in Heights, left[g].kind # "none"
      PROVE  subjectiveHead' # 0 /\ g > StaleHeightThreshold(subjectiveHead')
  <2>1. pools[g].kind # "none" /\ g \notin evicted
    BY <1>2, <1>4, Zenon
  <2>2. subjectiveHead # 0 /\ g > StaleHeightThreshold(subjectiveHead)
    BY <1>0, <2>1 DEF PoolOK
  <2>3. h <= subjectiveHead \/ g \notin StaleHeightThreshold(subjectiveHead)..StaleHeightThreshold(h)
    <3>1. subjectiveHead \in Int /\ h \in Int
      <4>1. subjectiveHead \in 0..MaxHeight /\ h \in 1..MaxHeight /\ MaxHeight \in Nat
        BY <1>0, ShrexAssumption, Zenon DEF Heights
      <4> QED
        BY <4>1
    <3>2. h <= subjectiveHead \/ h > subjectiveHead
      BY <3>1
    <3> QED
      BY <2>1, <2>2, <3>2 DEF Evicted
  <2> HIDE DEF evicted, left
  <2>4. /\ g > StaleHeightThreshold(Max({subjectiveHead, h})) /\ Max({subjectiveHead, h}) # 0
    BY <1>0, <2>2, <2>3, EvictedAreStale
  <2> QED
    BY <1>1, <2>4, Zenon
<1>5. ASSUME NEW g \in Heights, left[g].kind = "validated"
      PROVE  /\ left[g].hash = DataHash(g)
             /\ g \notin EmptyHeights => g \in DOMAIN validatedPools /\ g \notin dropped
  <2>1. left[g] = pools[g] /\ g \notin evicted
    BY <1>2, <1>5, Zenon
  <2>2. left[g].hash = DataHash(g) /\ (g \notin EmptyHeights => g \in DOMAIN validatedPools)
    BY <1>0, <1>5, <2>1 DEF PoolOK
  <2>3. g \notin dropped
    <3> SUFFICES ASSUME g \in dropped PROVE FALSE
      BY Zenon
    <3> HIDE DEF evicted, left
    <3>1. PICK x \in Heights : x \in evicted /\ pools[x].kind = "validated" /\ g = pools[x].hash
      BY Zenon
    <3>2. pools[x].hash = DataHash(x)
      BY <1>0, <3>1 DEF PoolOK
    <3>3. x = g
      BY <3>1, <3>2, HashFacts, Zenon
    <3> QED
      BY <2>1, <3>1, <3>3, Zenon
  <2> QED
    BY <2>2, <2>3, Zenon
<1>6. \A g \in Heights \ {h} : left[g].kind = "candidates" => poolTasks'[g] # "none"
  BY <1>0, <1>2 DEF PoolOK
<1>7. left = [g \in Heights |-> left[g]]
  OBVIOUS
<1> HIDE DEF evicted, dropped, left
<1>7a. left \in [Heights -> Pools]
  BY <1>2, <1>7
<1>8. CASE left[h].kind # "candidates"
  <2>1. /\ pools' = left /\ poolEvents' = poolEvents
        /\ validatedPools' = Restrict(validatedPools, DOMAIN validatedPools \ dropped)
    BY <1>1, <1>8, Zenon
  <2>2. DOMAIN validatedPools' = DOMAIN validatedPools \ dropped
    BY <2>1 DEF Restrict
  <2>3. ASSUME NEW g \in Heights
        PROVE  PoolOK(g, pools'[g], poolTasks'[g], subjectiveHead', DOMAIN validatedPools')
    <3>1. left[g].kind = "candidates" => poolTasks'[g] # "none"
      BY <1>6, <1>8, Zenon
    <3> QED
      BY <1>2, <1>4, <1>5, <2>1, <2>2, <3>1, Zenon DEF PoolOK
  <2>4. DOMAIN validatedPools' \subseteq Hashes /\ pools' \in [Heights -> Pools]
        /\ poolEvents' \in Seq(PoolEvent)
    BY <1>0, <1>7a, <2>1, <2>2, Zenon
  <2> QED
    BY <1>3, <2>3, <2>4, Zenon DEF TablesInv
<1>9. CASE left[h].kind = "candidates"
  <2>1. /\ pools' = [left EXCEPT ![h] = Validated(hash)]
        /\ validatedPools' = LET all == Promoted(hash, good)
                             IN  Restrict(all, DOMAIN all \ (dropped \ {hash}))
        /\ poolEvents' = poolEvents
               \o (IF good = {} THEN <<>> ELSE <<Event("AddPeers", good)>>)
               \o (IF bad = {} THEN <<>> ELSE <<Event("BlockPeers", bad)>>)
    BY <1>1, <1>9, Zenon
  <2>2. hash \in Hashes /\ (h \notin EmptyHeights => hash = h)
    BY HashFacts
  <2>3. DOMAIN validatedPools' = (DOMAIN validatedPools \cup {hash}) \ (dropped \ {hash})
    <3> HIDE DEF good, hash
    <3> QED
      BY <2>1 DEF Restrict, Promoted, With
  <2>4. good \subseteq Peers /\ bad \subseteq Peers
    <3>1. left[h].votes \in Votes
      BY <1>2, <1>9, PoolFacts
    <3> QED
      BY <2>2, <3>1 DEF Votes, BadPeers
  <2>5. poolEvents' \in Seq(PoolEvent)
    <3>1. poolEvents' = <<>> \o (IF good = {} THEN <<>> ELSE <<Event("AddPeers", good)>>)
                             \o (IF bad = {} THEN <<>> ELSE <<Event("BlockPeers", bad)>>)
      BY <2>1, Zenon
    <3> HIDE DEF good, bad
    <3>2. PICK x \in SUBSET Peers, y \in SUBSET Peers, es \in {poolEvents'} :
              /\ y = bad /\ es = poolEvents'
              /\ es = <<>> \o (IF x = {} THEN <<>> ELSE <<Event("AddPeers", x)>>)
                           \o (IF y = {} THEN <<>> ELSE <<Event("BlockPeers", y)>>)
      BY <2>4, <3>1
    <3>3. SaidOf(es, y)
      BY <3>2, SaidOfPool, Zenon
    <3> QED
      BY <3>2, <3>3, Zenon DEF SaidOf
  <2> HIDE DEF hash
  <2>6. Validated(hash) \in Pools /\ Validated(hash).kind = "validated" /\ Validated(hash).hash = hash
    BY <2>2, PoolFacts
  <2>7. pools' \in [Heights -> Pools]
    BY <1>7a, <2>1, <2>6, Zenon
  <2>8. ASSUME NEW g \in Heights
        PROVE  PoolOK(g, pools'[g], poolTasks'[g], subjectiveHead', DOMAIN validatedPools')
    <3>1. CASE g = h
      <4>1. pools'[g] = Validated(hash)
        BY <1>7a, <2>1, <3>1, Zenon
      <4>2. subjectiveHead' # 0 /\ g > StaleHeightThreshold(subjectiveHead')
        BY <1>4, <1>9, <3>1, Zenon
      <4>3. hash = DataHash(g) /\ (g \notin EmptyHeights => g \in DOMAIN validatedPools')
        BY <2>2, <2>3, <3>1, Zenon DEF hash
      <4> QED
        BY <2>6, <4>1, <4>2, <4>3, Zenon DEF PoolOK
    <3>2. CASE g # h
      <4>1. pools'[g] = left[g]
        BY <1>7a, <2>1, <3>2, Zenon
      <4>2. left[g].kind = "candidates" => poolTasks'[g] # "none"
        BY <1>6, <3>2
      <4> QED
        BY <1>2, <1>4, <1>5, <2>3, <4>1, <4>2, Zenon DEF PoolOK
    <3> QED
      BY <3>1, <3>2, Zenon
  <2>9. DOMAIN validatedPools' \subseteq Hashes
    BY <1>0, <2>2, <2>3, Zenon
  <2> QED
    BY <1>3, <2>5, <2>7, <2>8, <2>9, Zenon DEF TablesInv
<1> QED
  BY <1>8, <1>9

\* A height whose pool is given up.
LEMMA DropStep ==
    ASSUME TablesInv, NEW h \in Heights, pools' = [pools EXCEPT ![h] = NoPool],
           poolTasks' = [poolTasks EXCEPT ![h] = "none"], poolEvents' \in Seq(PoolEvent),
           UNCHANGED <<workload, headers, subjectiveHead, validatedPools>>
    PROVE  TablesInv'
<1>0. /\ poolTasks \in [Heights -> {"none", "waiting", "found"}] /\ pools \in [Heights -> Pools]
      /\ \A g \in Heights : PoolOK(g, pools[g], poolTasks[g], subjectiveHead, DOMAIN validatedPools)
      /\ NoPool \in Pools /\ NoPool.kind = "none"
  BY PoolFacts, Zenon DEF TablesInv
<1>1. pools' \in [Heights -> Pools] /\ poolTasks' \in [Heights -> {"none", "waiting", "found"}]
  BY <1>0
<1>2. ASSUME NEW g \in Heights
      PROVE  PoolOK(g, pools'[g], poolTasks'[g], subjectiveHead', DOMAIN validatedPools')
  <2>1. CASE g = h
    BY <1>0, <2>1 DEF PoolOK
  <2>2. CASE g # h
    <3>1. pools'[g] = pools[g] /\ poolTasks'[g] = poolTasks[g]
      BY <1>0, <2>2
    <3> QED
      BY <1>0, <3>1
  <2> QED
    BY <2>1, <2>2
<1> QED
  BY <1>1, <1>2 DEF TablesInv

\* Nothing is tracked.
LEMMA NothingTracked ==
    /\ NoPools \in [Heights -> Pools] /\ NoTasks \in [Heights -> {"none", "waiting", "found"}]
    /\ <<>> \in Seq(PoolEvent) /\ DOMAIN <<>> = {} /\ 0 \in 0..MaxHeight
    /\ \A h \in Heights : PoolOK(h, NoPools[h], NoTasks[h], 0, DOMAIN <<>>)
<1>1. /\ NoPool \in Pools /\ NoPool.kind = "none" /\ 0 \in 0..MaxHeight
      /\ <<>> \in Seq(PoolEvent) /\ DOMAIN <<>> = {}
  BY PoolFacts, ShrexAssumption
<1>2. \A h \in Heights : NoPools[h] = NoPool
  BY DEF NoPools
<1>3. NoPools \in [Heights -> Pools] /\ NoTasks \in [Heights -> {"none", "waiting", "found"}]
  BY <1>1 DEF NoPools, NoTasks
<1>4. ASSUME NEW h \in Heights PROVE PoolOK(h, NoPools[h], NoTasks[h], 0, DOMAIN <<>>)
  BY <1>1, <1>2 DEF PoolOK
<1> QED
  BY <1>1, <1>3, <1>4

\* The head of a store that is not empty.
LEMMA HeadOfStore ==
    ASSUME headers \subseteq Heights, headers # {}
    PROVE  /\ Max(headers) \in headers /\ Max(headers) \in Heights /\ Max(headers) # 0
           /\ StaleHeightThreshold(Max(headers)) < Max(headers)
           /\ Heights \subseteq Int
<1>0. Heights \subseteq Int /\ Heights = 1..MaxHeight /\ MaxHeight \in Int
  BY ShrexAssumption DEF Heights
<1>1. Max(headers) \in headers
  <2>1. headers \in SUBSET (1..MaxHeight) /\ MaxHeight \in Nat
    BY <1>0, ShrexAssumption, Zenon
  <2> QED
    BY <2>1, MaxOfInterval, Zenon
<1>2. PICK m \in Heights : m = Max(headers)
  BY <1>1
<1>3. m \in Int /\ m >= 1
  BY <1>0
<1>4. StaleHeightThreshold(m) < m
  BY <1>3, ShrexAssumption DEF StaleHeightThreshold
<1> QED
  BY <1>0, <1>1, <1>2, <1>3, <1>4

LEMMA HeadTaskStep ==
    ASSUME TablesInv, HeadTaskInv, ShrexNext
    PROVE  HeadTaskInv'
<1>0. headers \subseteq Heights /\ headTask \in HeadTasks /\ (headTask.from = 0 \/ headers # {})
  BY DEF TablesInv, HeadTaskInv
<1>1. CASE headTask' = headTask /\ (headers # {} => headers' # {})
  BY <1>0, <1>1 DEF HeadTaskInv
<1>2. CASE InsertHeader
  <2>1. headTask' = headTask /\ headers' # {}
    BY <1>2 DEF InsertHeader, trackerOfPools
  <2> QED
    BY <1>1, <2>1
<1>3. CASE PruneHeader
  <2>1. /\ headTask' = headTask /\ headers # {} /\ headers' = headers \ {Min(headers)}
        /\ Min(headers) <= StaleHeightThreshold(Max(headers))
    BY <1>3 DEF PruneHeader, trackerOfPools
  <2>2. /\ Max(headers) \in headers /\ Max(headers) \in Int
        /\ StaleHeightThreshold(Max(headers)) < Max(headers)
        /\ StaleHeightThreshold(Max(headers)) \in Int
    <3>1. Max(headers) \in headers /\ Max(headers) \in Int /\ StaleHeightThreshold(Max(headers)) < Max(headers)
      BY <1>0, <2>1, HeadOfStore
    <3> QED
      BY <3>1, ShrexAssumption DEF StaleHeightThreshold
  <2>3. Min(headers) # Max(headers)
    BY <2>1, <2>2
  <2>4. Max(headers) \in headers'
    BY <2>1, <2>2, <2>3
  <2> QED
    BY <1>1, <2>1, <2>4
<1>4. CASE OnHeadTask
  <2> DEFINE head == IF headers = {} THEN 0 ELSE Max(headers)
  <2>0. headers' = headers /\ (\/ headTask' = [headTask EXCEPT !.at = "empty"]
                               \/ headTask' = [headTask EXCEPT !.at = "done"]
                               \/ headTask' = [at |-> "wait", from |-> head])
    BY <1>4 DEF OnHeadTask
  <2>1. head \in 0..MaxHeight /\ (head = 0 \/ headers # {})
    <3>1. CASE headers = {}
      BY <3>1, ShrexAssumption
    <3>2. CASE headers # {}
      <4>1. Max(headers) \in Heights
        BY <1>0, <3>2, HeadOfStore
      <4> QED
        BY <3>2, <4>1, ShrexAssumption DEF Heights
    <3> QED
      BY <3>1, <3>2
  <2> HIDE DEF head
  <2>2. CASE headTask' = [at |-> "wait", from |-> head]
    <3>1. headTask' \in HeadTasks /\ headTask'.from = head
      BY <2>1, <2>2 DEF HeadTasks
    <3> QED
      BY <2>0, <2>1, <3>1 DEF HeadTaskInv
  <2>3. ASSUME NEW at \in {"empty", "done"}, headTask' = [headTask EXCEPT !.at = at]
        PROVE  HeadTaskInv'
    <3>1. headTask' \in HeadTasks /\ headTask'.from = headTask.from
      BY <1>0, <2>3 DEF HeadTasks
    <3> QED
      BY <1>0, <2>0, <3>1 DEF HeadTaskInv
  <2> QED
    BY <2>0, <2>2, <2>3
<1>5. CASE StopAll
  <2>1. headTask' = [at |-> "get", from |-> 0]
    BY <1>5 DEF StopAll, NoHeadTask
  <2>2. headTask' \in HeadTasks /\ headTask'.from = 0
    BY <2>1, ShrexAssumption DEF HeadTasks
  <2> QED
    BY <2>2 DEF HeadTaskInv
<1>6. ASSUME NEW h \in Heights, HeaderFound(h) \/ OnHeaderTask(h) PROVE HeadTaskInv'
  BY <1>1, <1>6 DEF HeaderFound, OnHeaderTask
<1>7. CASE OnPoolEvent
  BY <1>1, <1>7 DEF OnPoolEvent
<1>8. CASE SchedulePendingRequests \/ StoppedAll
  BY <1>1, <1>8, Zenon DEF SchedulePendingRequests, StoppedAll, trackerOfPools
<1>9. ASSUME NEW r \in Requests,
             OnCommand(r) \/ OnResult(r) \/ Abandon(r) \/ \E h \in workload.asked : Request(r, h)
      PROVE  HeadTaskInv'
  BY <1>1, <1>9, Zenon DEF OnCommand, OnResult, Abandon, Request, trackerOfPools
<1>10. CASE SwarmStep
  BY <1>1, <1>10 DEF SwarmStep, shrexVars, trackerOfPools
<1>11. ASSUME NEW p \in Peers,
              \/ CooldownExpires(p) \/ \E h \in Heights : OnShrexSub(p, h)
              \/ \E c \in Conns[p] : CloseBlocked(p, c)
       PROVE  HeadTaskInv'
  BY <1>1, <1>11 DEF CooldownExpires, OnShrexSub, CloseBlocked, shrexVars, trackerOfPools
<1> QED
  BY <1>2, <1>3, <1>4, <1>5, <1>6, <1>7, <1>8, <1>9, <1>10, <1>11, Zenon DEF ShrexNext, PoolStep, ClientStep

LEMMA TablesStep ==
    ASSUME TablesInv, HeadTaskInv, workload' = workload, ShrexNext
    PROVE  TablesInv'
<1>0. /\ headers \subseteq Heights /\ workload \in Workloads /\ poolEvents \in Seq(PoolEvent)
      /\ poolTasks \in [Heights -> {"none", "waiting", "found"}]
      /\ pools \in [Heights -> Pools]
  BY DEF TablesInv
<1>1. CASE UNCHANGED <<subjectiveHead, pools, validatedPools, poolTasks, poolEvents>>
           /\ headers' \subseteq Heights
  BY <1>0, <1>1, TablesKept
<1>2. CASE InsertHeader \/ PruneHeader
  <2>1. headers' \subseteq Heights
    BY <1>0, <1>2 DEF InsertHeader, PruneHeader
  <2> QED
    BY <1>1, <1>2, <2>1, Zenon DEF InsertHeader, PruneHeader, trackerOfPools
<1>3. CASE OnHeadTask
  <2>1. /\ UNCHANGED <<headers, poolTasks>>
        /\ \/ UNCHANGED <<subjectiveHead, pools, validatedPools, poolEvents>>
           \/ /\ headTask.from # 0 \/ headers # {}
              /\ poolEvents = <<>> /\ UpdateAndValidate(IF headers = {} THEN 0 ELSE Max(headers))
    BY <1>3 DEF OnHeadTask
  <2>2. CASE UNCHANGED <<subjectiveHead, pools, validatedPools, poolEvents>>
    BY <1>0, <1>1, <2>1, <2>2
  <2>3. CASE /\ headTask.from # 0 \/ headers # {}
             /\ poolEvents = <<>> /\ UpdateAndValidate(IF headers = {} THEN 0 ELSE Max(headers))
    <3>1. headers # {}
      BY <2>3 DEF HeadTaskInv
    <3>2. Max(headers) \in Heights
      BY <1>0, <3>1, HeadOfStore
    <3>3. UpdateAndValidate(Max(headers))
      BY <2>3, <3>1
    <3> QED
      BY <1>0, <2>1, <2>3, <3>2, <3>3, UpdateStep
  <2> QED
    BY <2>1, <2>2, <2>3
<1>4. CASE OnPoolEvent
  <2>1. /\ poolEvents # <<>> /\ poolEvents' = Tail(poolEvents)
        /\ UNCHANGED <<headers, subjectiveHead, poolTasks>>
        /\ \/ WithoutPeers(Head(poolEvents).peers) \/ UNCHANGED <<pools, validatedPools>>
    BY <1>4 DEF OnPoolEvent
  <2>2. poolEvents' \in Seq(PoolEvent)
    BY <1>0, <2>1, TailFacts
  <2> QED
    BY <1>0, <2>1, <2>2, WithoutStep, TablesKept
<1>5. ASSUME NEW h \in Heights, HeaderFound(h) PROVE TablesInv'
  <2>1. /\ poolTasks' = [poolTasks EXCEPT ![h] = "found"]
        /\ UNCHANGED <<headers, subjectiveHead, pools, validatedPools, poolEvents>>
    BY <1>5 DEF HeaderFound
  <2>2. /\ poolTasks' \in [Heights -> {"none", "waiting", "found"}]
        /\ \A g \in Heights : poolTasks'[g] = "none" => poolTasks[g] = "none"
    BY <1>0, <2>1
  <2> QED
    BY <1>0, <2>1, <2>2, TablesKept
<1>6. ASSUME NEW h \in Heights, OnHeaderTask(h) PROVE TablesInv'
  <2>1. /\ poolEvents = <<>> /\ poolTasks' = [poolTasks EXCEPT ![h] = "none"] /\ headers' = headers
        /\ \/ UpdateAndValidate(h)
           \/ /\ pools' = [pools EXCEPT ![h] = NoPool]
              /\ UNCHANGED <<subjectiveHead, validatedPools>>
              /\ \/ UNCHANGED poolEvents \/ poolEvents' = <<>>
                 \/ pools[h].kind = "candidates" /\ poolEvents' = <<Event("BlockPeers", Voted(pools[h]))>>
    BY <1>6 DEF OnHeaderTask
  <2>2. /\ poolTasks' \in [Heights -> {"none", "waiting", "found"}]
        /\ \A g \in Heights \ {h} : poolTasks'[g] = poolTasks[g]
    BY <1>0, <2>1
  <2>3. CASE UpdateAndValidate(h)
    BY <2>1, <2>2, <2>3, UpdateStep
  <2>4. CASE /\ pools' = [pools EXCEPT ![h] = NoPool]
             /\ UNCHANGED <<subjectiveHead, validatedPools>>
             /\ \/ UNCHANGED poolEvents \/ poolEvents' = <<>>
                \/ pools[h].kind = "candidates" /\ poolEvents' = <<Event("BlockPeers", Voted(pools[h]))>>
    <3>1. CASE pools[h].kind = "candidates"
      <4>1. pools[h].votes \in Votes
        BY <1>0, <3>1, PoolFacts
      <4>2. Voted(pools[h]) \subseteq Peers
        BY <4>1 DEF Voted, Votes
      <4>3. PICK e \in PoolEvent : e = Event("BlockPeers", Voted(pools[h]))
        BY <4>2, Zenon DEF Event, PoolEvent
      <4>4. <<e>> \in Seq(PoolEvent) /\ <<>> \in Seq(PoolEvent)
        OBVIOUS
      <4>5. poolEvents' \in Seq(PoolEvent)
        BY <1>0, <2>4, <4>3, <4>4, Zenon
      <4> QED
        BY <2>1, <2>4, <4>5, DropStep, Zenon
    <3>2. CASE pools[h].kind # "candidates"
      <4>0. poolEvents \in Seq(PoolEvent) /\ <<>> \in Seq(PoolEvent)
        BY <1>0
      <4>1. poolEvents' \in Seq(PoolEvent)
        BY <2>4, <3>2, <4>0, Zenon
      <4> QED
        BY <2>1, <2>4, <4>1, DropStep, Zenon
    <3> QED
      BY <3>1, <3>2
  <2> QED
    BY <2>1, <2>3, <2>4
<1>7. ASSUME NEW r \in Requests, OnResult(r) PROVE TablesInv'
  <2>1. /\ UNCHANGED <<headers, subjectiveHead, poolTasks, poolEvents>>
        /\ \/ UNCHANGED <<pools, validatedPools>> \/ WithoutPeers({requests[r].peer})
    BY <1>7, Zenon DEF OnResult
  <2> QED
    BY <1>0, <1>1, <2>1, WithoutStep
<1>8. CASE SchedulePendingRequests \/ StoppedAll
  BY <1>0, <1>1, <1>8, Zenon DEF SchedulePendingRequests, StoppedAll, trackerOfPools
<1>9. ASSUME NEW r \in Requests,
             OnCommand(r) \/ Abandon(r) \/ \E h \in workload.asked : Request(r, h)
      PROVE  TablesInv'
  BY <1>0, <1>1, <1>9, Zenon DEF OnCommand, Abandon, Request, trackerOfPools
<1>10. CASE SwarmStep
  BY <1>0, <1>1, <1>10, Zenon DEF SwarmStep, shrexVars, trackerOfPools
<1>11. CASE StopAll
  <2>1. /\ headers' = workload.stored /\ subjectiveHead' = 0 /\ pools' = NoPools
        /\ validatedPools' = <<>> /\ poolTasks' = NoTasks /\ poolEvents' = <<>>
    BY <1>11 DEF StopAll
  <2>2. headers' \subseteq Heights
    BY <1>0, <2>1, ShrexAssumption DEF Heights
  <2> QED
    BY <1>0, <2>1, <2>2, NothingTracked, Zenon DEF TablesInv
<1>12. ASSUME NEW p \in Peers,
              \/ CooldownExpires(p) \/ \E c \in Conns[p] : CloseBlocked(p, c)
       PROVE  TablesInv'
  BY <1>0, <1>1, <1>12, Zenon DEF CooldownExpires, CloseBlocked, shrexVars, trackerOfPools
<1>13. ASSUME NEW p \in Peers, NEW h \in Heights, OnShrexSub(p, h) PROVE TablesInv'
  <2>1. /\ \E hash \in {DataHash(h), WrongHash} : AddPeerForHash(p, h, hash)
        /\ UNCHANGED <<headers, subjectiveHead>>
    BY <1>13 DEF OnShrexSub
  <2>2. DataHash(h) \in Hashes /\ WrongHash \in Hashes
    BY HashFacts
  <2> QED
    BY <2>1, <2>2, AddPeerStep
<1> QED
  BY <1>2, <1>3, <1>4, <1>5, <1>6, <1>7, <1>8, <1>9, <1>10, <1>11, <1>12, <1>13, Zenon
     DEF ShrexNext, PoolStep, ClientStep

-----------------------------------------------------------------------------
(* Honest peers                                                            *)

\* What HonestInv says of a pool and of the events that wait.
VotesHonest(h, pool, tellings) ==
    pool.kind = "candidates" =>
        \A hash \in Hashes : \A p \in Honest \cap pool.votes[hash] :
            hash = DataHash(h) /\ tellings[p][h] > 0
EventsHonest(events) ==
    \A i \in 1..Len(events) : events[i].type = "BlockPeers" => Honest \cap events[i].peers = {}

LEMMA HonestParts ==
    ASSUME HonestInv, workload.shrex, phase = "running"
    PROVE  /\ ~timedOut => Honest \cap blocked = {}
           /\ ~timedOut => EventsHonest(poolEvents)
           /\ \A h \in Heights : VotesHonest(h, pools[h], told)
  BY Zenon DEF HonestInv, EventsHonest, VotesHonest

LEMMA HonestFromParts ==
    ASSUME told' \in [Peers -> [Heights -> Nat]],
           workload'.shrex /\ phase' = "running" =>
              /\ ~timedOut' => Honest \cap blocked' = {}
              /\ ~timedOut' => EventsHonest(poolEvents')
              /\ \A h \in Heights : VotesHonest(h, pools'[h], told')
    PROVE  HonestInv'
  BY Zenon DEF HonestInv, EventsHonest, VotesHonest

\* Nothing that honest peers are judged by changes.
LEMMA HonestKept ==
    ASSUME HonestInv, workload.shrex, phase' = "running" => phase = "running",
           UNCHANGED <<workload, told, timedOut, pools, poolEvents, blocked>>
    PROVE  HonestInv'
<1>1. told' \in [Peers -> [Heights -> Nat]]
  BY DEF HonestInv
<1>2. phase' = "running" =>
          /\ ~timedOut => Honest \cap blocked = {}
          /\ ~timedOut => EventsHonest(poolEvents)
          /\ \A h \in Heights : VotesHonest(h, pools[h], told)
  BY HonestParts
<1> QED
  BY <1>1, <1>2, HonestFromParts

\* Peers leave the pools.
LEMMA WithoutHonest ==
    ASSUME TablesInv, NEW ps, WithoutPeers(ps), NEW h \in Heights, VotesHonest(h, pools[h], told)
    PROVE  VotesHonest(h, pools'[h], told)
<1>1. CASE pools[h].kind = "candidates"
  <2>1. PICK votes : votes = [hash \in Hashes |-> pools[h].votes[hash] \ ps]
    BY Zenon
  <2>2. pools'[h] = Candidate(votes)
    BY <1>1, <2>1, Zenon DEF WithoutPeers
  <2>3. pools'[h].votes = votes /\ \A hash \in Hashes : votes[hash] \subseteq pools[h].votes[hash]
    BY <2>1, <2>2, PoolFacts, Zenon
  <2> QED
    BY <1>1, <2>3 DEF VotesHonest
<1>2. CASE pools[h].kind # "candidates"
  <2>1. pools'[h] = pools[h]
    BY <1>2, Zenon DEF WithoutPeers
  <2> QED
    BY <2>1
<1> QED
  BY <1>1, <1>2

\* A header settles a pool: those that announced another hash are no honest peers.
LEMMA UpdateHonest ==
    ASSUME TablesInv, NEW h \in Heights, UpdateAndValidate(h), poolEvents = <<>>,
           \A g \in Heights : VotesHonest(g, pools[g], told)
    PROVE  /\ \A g \in Heights : VotesHonest(g, pools'[g], told)
           /\ EventsHonest(poolEvents')
<1> DEFINE evicted == IF subjectiveHead # 0 /\ h > subjectiveHead THEN Evicted(h) ELSE {}
           left == [g \in Heights |-> IF g \in evicted THEN NoPool ELSE pools[g]]
           hash == DataHash(h)
           good == left[h].votes[hash]
           bad == BadPeers(left[h], hash)
<1>1. IF left[h].kind # "candidates"
      THEN /\ pools' = left
           /\ UNCHANGED poolEvents
      ELSE /\ pools' = [left EXCEPT ![h] = Validated(hash)]
           /\ poolEvents' = poolEvents
                  \o (IF good = {} THEN <<>> ELSE <<Event("AddPeers", good)>>)
                  \o (IF bad = {} THEN <<>> ELSE <<Event("BlockPeers", bad)>>)
  BY Zenon DEF UpdateAndValidate
<1>2. ASSUME NEW g \in Heights
      PROVE  left[g] = pools[g] \/ left[g].kind = "none"
  BY PoolFacts, Zenon
<1>3. left = [g \in Heights |-> left[g]] /\ pools \in [Heights -> Pools]
  BY DEF TablesInv
<1> HIDE DEF evicted, left
<1>4. ASSUME NEW g \in Heights PROVE VotesHonest(g, left[g], told)
  BY <1>2, Zenon DEF VotesHonest
<1>5. CASE left[h].kind # "candidates"
  <2>1. pools' = left /\ poolEvents' = <<>> /\ Len(<<>>) = 0 /\ 1..0 = {}
    BY <1>1, <1>5
  <2> QED
    BY <1>4, <2>1, Zenon DEF EventsHonest
<1>6. CASE left[h].kind = "candidates"
  <2>1. /\ pools' = [left EXCEPT ![h] = Validated(hash)]
        /\ poolEvents' = poolEvents
               \o (IF good = {} THEN <<>> ELSE <<Event("AddPeers", good)>>)
               \o (IF bad = {} THEN <<>> ELSE <<Event("BlockPeers", bad)>>)
    BY <1>1, <1>6, Zenon
  <2>2. ASSUME NEW g \in Heights PROVE VotesHonest(g, pools'[g], told)
    <3>1. pools'[g] = left[g] \/ pools'[g] = Validated(hash)
      BY <1>3, <2>1
    <3>2. Validated(hash).kind = "validated"
      BY PoolFacts
    <3>3. CASE pools'[g] = left[g]
      BY <1>4, <3>3
    <3>4. CASE pools'[g] = Validated(hash)
      BY <3>2, <3>4, Zenon DEF VotesHonest
    <3> QED
      BY <3>1, <3>3, <3>4, Zenon
  <2>3. left[h].votes \in Votes /\ hash \in Hashes
    BY <1>2, <1>3, <1>6, PoolFacts, HashFacts, Zenon
  <2>4. good \subseteq Peers /\ bad \subseteq Peers
    BY <2>3, Zenon DEF Votes, BadPeers
  <2>5. Honest \cap bad = {}
    <3> SUFFICES ASSUME NEW p \in Honest, p \in bad PROVE FALSE
      BY Zenon
    <3>1. PICK other \in Hashes : other # hash /\ p \in left[h].votes[other]
      BY Zenon DEF BadPeers
    <3>2. VotesHonest(h, left[h], told)
      BY <1>4, Zenon
    <3> HIDE DEF bad
    <3> QED
      BY <1>6, <3>1, <3>2, Zenon DEF VotesHonest
  <2> HIDE DEF good, bad
  <2>6. \A i \in 1..Len(poolEvents') : poolEvents'[i].type = "BlockPeers" => poolEvents'[i].peers = bad
    <3>1. poolEvents' = <<>> \o (IF good = {} THEN <<>> ELSE <<Event("AddPeers", good)>>)
                             \o (IF bad = {} THEN <<>> ELSE <<Event("BlockPeers", bad)>>)
      BY <2>1, Zenon
    <3>2. PICK x \in SUBSET Peers, y \in SUBSET Peers, es \in {poolEvents'} :
              /\ y = bad /\ es = poolEvents'
              /\ es = <<>> \o (IF x = {} THEN <<>> ELSE <<Event("AddPeers", x)>>)
                           \o (IF y = {} THEN <<>> ELSE <<Event("BlockPeers", y)>>)
      BY <2>4, <3>1
    <3>3. SaidOf(es, y)
      BY <3>2, SaidOfPool, Zenon
    <3> QED
      BY <3>2, <3>3, Zenon DEF SaidOf
  <2> QED
    BY <2>2, <2>5, <2>6 DEF EventsHonest
<1> QED
  BY <1>5, <1>6, Zenon

\* What is said of a peer after other events.
LEMMA AppendHonest ==
    ASSUME NEW s \in Seq(PoolEvent), EventsHonest(s), NEW e \in PoolEvent,
           e.type = "BlockPeers" => Honest \cap e.peers = {}
    PROVE  EventsHonest(Append(s, e))
<1>1. /\ Len(s) \in Nat /\ Len(Append(s, e)) = Len(s) + 1
      /\ \A i \in 1..Len(s) : Append(s, e)[i] = s[i]
      /\ Append(s, e)[Len(s) + 1] = e
  BY AppendFacts
<1>2. \A i \in 1..(Len(s) + 1) : i \in 1..Len(s) \/ i = Len(s) + 1
  BY <1>1
<1> QED
  BY <1>1, <1>2 DEF EventsHonest

\* An honest peer announces what it announces for the first time, and truly.
LEMMA AnnouncedHonest ==
    ASSUME TablesInv, HonestInv, workload.shrex, workload' = workload, phase = "running",
           NEW p \in Peers, NEW h \in Heights, OnShrexSub(p, h)
    PROVE  HonestInv'
<1>0. /\ told \in [Peers -> [Heights -> Nat]] /\ pools \in [Heights -> Pools]
      /\ poolEvents \in Seq(PoolEvent)
      /\ \A g \in Heights : PoolOK(g, pools[g], poolTasks[g], subjectiveHead, DOMAIN validatedPools)
  BY Zenon DEF HonestInv, TablesInv
<1>1. /\ ~timedOut => Honest \cap blocked = {}
      /\ ~timedOut => EventsHonest(poolEvents)
      /\ \A g \in Heights : VotesHonest(g, pools[g], told)
  BY HonestParts
<1>2. /\ p \in Honest => told[p][h] = 0
      /\ told' = [told EXCEPT ![p][h] = @ + 1]
      /\ UNCHANGED <<timedOut, blocked>>
  BY Zenon DEF OnShrexSub, peersVars
<1>3. PICK hash \in {DataHash(h), WrongHash} :
          AddPeerForHash(p, h, hash) /\ (p \in Honest => hash = DataHash(h))
  BY DEF OnShrexSub
<1>4. hash \in Hashes
  BY HashFacts
<1>5. /\ told' \in [Peers -> [Heights -> Nat]] /\ told'[p][h] > 0
      /\ \A q \in Peers : \A g \in Heights : told[q][g] > 0 => told'[q][g] > 0
  <2>1. told[p] \in [Heights -> Nat] /\ told[p][h] \in Nat
    BY <1>0
  <2>2. told' = [told EXCEPT ![p] = [told[p] EXCEPT ![h] = told[p][h] + 1]]
    BY <1>0, <1>2
  <2>2a. [told[p] EXCEPT ![h] = told[p][h] + 1] \in [Heights -> Nat]
    <3>1. \A n \in Nat : n + 1 \in Nat
      OBVIOUS
    <3> QED
      BY <2>1, <3>1, Zenon
  <2>3. PICK t \in [Heights -> Nat] : t = [told[p] EXCEPT ![h] = told[p][h] + 1]
    BY <2>2a, Zenon
  <2>4. t[h] > 0 /\ \A g \in Heights : told[p][g] > 0 => t[g] > 0
    <3>1. t[h] = told[p][h] + 1 /\ \A g \in Heights \ {h} : t[g] = told[p][g]
      BY <2>1, <2>3, Zenon
    <3>2. t[h] > 0
      BY <2>1, <3>1
    <3> QED
      BY <3>1, <3>2, Zenon
  <2>5. told' = [told EXCEPT ![p] = t]
    BY <2>2, <2>3
  <2> QED
    BY <1>0, <2>4, <2>5, Zenon
<1>6. ASSUME NEW g \in Heights, NEW pool \in Pools, VotesHonest(g, pool, told)
      PROVE  VotesHonest(g, pool, told')
  <2>1. pool.kind = "candidates" => \A x \in Hashes : pool.votes[x] \subseteq Peers
    BY PoolFacts, Zenon DEF Votes
  <2> QED
    BY <1>5, <1>6, <2>1, Zenon DEF VotesHonest
<1> DEFINE pool == IF pools[h].kind = "none" THEN Candidate(NoVotes) ELSE pools[h]
<1>7. ASSUME p \in Honest, pool.kind = "candidates" PROVE p \notin Voted(pool)
  <2>1. CASE pools[h].kind = "none"
    <3>1. pool.votes = NoVotes
      BY <2>1, PoolFacts, Zenon
    <3> QED
      BY <3>1, Zenon DEF Voted, NoVotes
  <2>2. CASE pools[h].kind # "none"
    <3>1. pool = pools[h]
      BY <2>2, Zenon
    <3> HIDE DEF pool
    <3>2. SUFFICES ASSUME p \in Voted(pool) PROVE FALSE
      OBVIOUS
    <3>3. PICK x \in Hashes : p \in pool.votes[x]
      BY <3>2 DEF Voted
    <3>4. told[p][h] > 0
      BY <1>1, <1>7, <3>1, <3>3, Zenon DEF VotesHonest
    <3> QED
      BY <1>2, <1>7, <3>4
  <2> QED
    BY <2>1, <2>2, Zenon
<1>8. ASSUME p \in Honest, pool.kind = "validated" PROVE pool.hash = hash
  <2>1. pool = pools[h]
    BY <1>8, PoolFacts, Zenon
  <2> QED
    BY <1>0, <1>3, <1>8, <2>1, Zenon DEF PoolOK
<1>9. \/ /\ pool.kind = "candidates"
         /\ pools' = [pools EXCEPT ![h] = Candidate([pool.votes EXCEPT ![hash] = @ \cup {p}])]
         /\ UNCHANGED poolEvents
      \/ /\ UNCHANGED pools /\ poolEvents' = Append(poolEvents, Event("AddPeers", {p}))
      \/ /\ UNCHANGED pools /\ poolEvents' = Append(poolEvents, Event("BlockPeers", {p}))
         /\ \/ pool.kind = "candidates" /\ p \in Voted(pool)
            \/ pool.kind = "validated" /\ pool.hash # hash
  BY <1>3, Zenon DEF AddPeerForHash
<1>10. ASSUME NEW g \in Heights PROVE VotesHonest(g, pools'[g], told')
  <2>1. CASE pools'[g] = pools[g]
    <3>1. pools[g] \in Pools /\ VotesHonest(g, pools[g], told)
      BY <1>0, <1>1
    <3> QED
      BY <1>6, <2>1, <3>1, Zenon
  <2>2. CASE /\ g = h /\ pool.kind = "candidates"
             /\ pools' = [pools EXCEPT ![h] = Candidate([pool.votes EXCEPT ![hash] = @ \cup {p}])]
    <3>1. pool \in Pools /\ pool.votes \in Votes /\ VotesHonest(h, pool, told)
      <4>1. NoVotes \in Votes /\ \A x \in Hashes : NoVotes[x] = {}
        BY DEF NoVotes, Votes
      <4>2. CASE pools[h].kind = "none"
        <5>1. pool = Candidate(NoVotes) /\ pool.votes = NoVotes /\ pool \in Pools
          BY <4>1, <4>2, PoolFacts, Zenon
        <5> HIDE DEF pool
        <5> QED
          BY <4>1, <5>1, Zenon DEF VotesHonest
      <4>3. CASE pools[h].kind # "none"
        <5>1. pool = pools[h]
          BY <4>3, Zenon
        <5> QED
          BY <1>0, <1>1, <2>2, <5>1, PoolFacts, Zenon
      <4> QED
        BY <4>2, <4>3, Zenon
    <3> HIDE DEF pool
    <3>2. VotesHonest(h, pool, told')
      BY <1>6, <3>1
    <3>3. PICK votes \in Votes : votes = [pool.votes EXCEPT ![hash] = @ \cup {p}]
      BY <1>4, <3>1, Zenon DEF Votes
    <3>4. pools'[g] = Candidate(votes) /\ Candidate(votes).votes = votes
      BY <1>0, <2>2, <3>3, PoolFacts, Zenon
    <3>5. ASSUME NEW x \in Hashes, NEW q \in Honest \cap votes[x]
          PROVE  x = DataHash(h) /\ told'[q][h] > 0
      <4>1. q \in pool.votes[x] \/ (x = hash /\ q = p)
        BY <3>1, <3>3, Zenon DEF Votes
      <4>2. CASE q \in pool.votes[x]
        BY <2>2, <3>2, <4>2, Zenon DEF VotesHonest
      <4>3. CASE x = hash /\ q = p
        BY <1>3, <1>5, <4>3, Zenon
      <4> QED
        BY <4>1, <4>2, <4>3, Zenon
    <3> QED
      BY <2>2, <3>4, <3>5, Zenon DEF VotesHonest
  <2> QED
    BY <1>0, <1>9, <2>1, <2>2, Zenon
<1>11. ~timedOut => EventsHonest(poolEvents')
  <2> SUFFICES ASSUME ~timedOut PROVE EventsHonest(poolEvents')
    OBVIOUS
  <2>1. CASE UNCHANGED poolEvents
    BY <1>1, <2>1
  <2>2. CASE poolEvents' = Append(poolEvents, Event("AddPeers", {p}))
    <3>1. Event("AddPeers", {p}) \in PoolEvent /\ Event("AddPeers", {p}).type # "BlockPeers"
      BY DEF Event, PoolEvent
    <3> QED
      BY <1>0, <1>1, <2>2, <3>1, AppendHonest, Zenon
  <2>3. CASE poolEvents' = Append(poolEvents, Event("BlockPeers", {p})) /\ p \notin Honest
    <3>1. Event("BlockPeers", {p}) \in PoolEvent /\ Event("BlockPeers", {p}).peers = {p}
      BY DEF Event, PoolEvent
    <3>2. Honest \cap {p} = {}
      BY <2>3
    <3> QED
      BY <1>0, <1>1, <2>3, <3>1, <3>2, AppendHonest, Zenon
  <2> HIDE DEF pool
  <2> QED
    BY <1>7, <1>8, <1>9, <2>1, <2>2, <2>3, Zenon
<1> QED
  BY <1>1, <1>2, <1>5, <1>10, <1>11, HonestFromParts, Zenon

LEMMA HonestStep ==
    ASSUME TablesInv, HeadTaskInv, HonestInv, workload.shrex, workload' = workload, ShrexNext
    PROVE  HonestInv'
<1>0. /\ headers \subseteq Heights /\ pools \in [Heights -> Pools] /\ poolEvents \in Seq(PoolEvent)
      /\ told \in [Peers -> [Heights -> Nat]]
  BY Zenon DEF TablesInv, HonestInv
<1>1. phase = "running" =>
          /\ ~timedOut => Honest \cap blocked = {}
          /\ ~timedOut => EventsHonest(poolEvents)
          /\ \A g \in Heights : VotesHonest(g, pools[g], told)
  BY HonestParts
<1>2. CASE InsertHeader \/ PruneHeader \/ SchedulePendingRequests
  BY <1>2, HonestKept, Zenon DEF InsertHeader, PruneHeader, SchedulePendingRequests, trackerOfPools, peersVars
<1>3. CASE OnHeadTask
  <2>1. /\ phase = "running" /\ UNCHANGED <<told, timedOut, blocked, phase>>
        /\ \/ UNCHANGED <<pools, poolEvents>>
           \/ /\ headTask.from # 0 \/ headers # {}
              /\ poolEvents = <<>> /\ UpdateAndValidate(IF headers = {} THEN 0 ELSE Max(headers))
    BY <1>3 DEF OnHeadTask, peersVars
  <2>2. CASE UNCHANGED <<pools, poolEvents>>
    BY <2>1, <2>2, HonestKept
  <2>3. CASE /\ headTask.from # 0 \/ headers # {}
             /\ poolEvents = <<>> /\ UpdateAndValidate(IF headers = {} THEN 0 ELSE Max(headers))
    <3>1. headers # {}
      BY <2>3 DEF HeadTaskInv
    <3>2. Max(headers) \in Heights /\ UpdateAndValidate(Max(headers))
      BY <1>0, <2>3, <3>1, HeadOfStore
    <3>3. EventsHonest(poolEvents') /\ \A g \in Heights : VotesHonest(g, pools'[g], told)
      BY <1>1, <2>1, <2>3, <3>2, UpdateHonest
    <3> QED
      BY <1>0, <1>1, <2>1, <3>3, HonestFromParts
  <2> QED
    BY <2>1, <2>2, <2>3
<1>4. CASE OnPoolEvent
  <2> DEFINE ev == Head(poolEvents)
  <2>1. /\ phase = "running" /\ UNCHANGED <<told, timedOut, phase>>
        /\ poolEvents # <<>> /\ poolEvents' = Tail(poolEvents)
        /\ \/ WithoutPeers(ev.peers) /\ ev.type = "BlockPeers" /\ blocked' = blocked \cup ev.peers
           \/ UNCHANGED <<pools, blocked>>
    BY <1>4 DEF OnPoolEvent
  <2>2. /\ Len(poolEvents) \in Nat /\ Len(poolEvents) > 0 /\ ev = poolEvents[1]
        /\ Len(Tail(poolEvents)) = Len(poolEvents) - 1
        /\ \A i \in 1..(Len(poolEvents) - 1) : Tail(poolEvents)[i] = poolEvents[i + 1]
    BY <1>0, <2>1, TailFacts
  <2> HIDE DEF ev
  <2>3. ~timedOut => EventsHonest(poolEvents')
    <3>1. \A i \in 1..(Len(poolEvents) - 1) : i + 1 \in 1..Len(poolEvents)
      BY <2>2
    <3> QED
      BY <1>1, <2>1, <2>2, <3>1, Zenon DEF EventsHonest
  <2>4. ~timedOut => Honest \cap blocked' = {}
    <3>1. 1 \in 1..Len(poolEvents)
      BY <2>2
    <3>2. ~timedOut /\ ev.type = "BlockPeers" => Honest \cap ev.peers = {}
      BY <1>1, <2>1, <2>2, <3>1, Zenon DEF EventsHonest
    <3> QED
      BY <1>1, <2>1, <3>2, Zenon
  <2>5. \A g \in Heights : VotesHonest(g, pools'[g], told)
    BY <1>1, <2>1, WithoutHonest, Zenon
  <2> QED
    BY <1>0, <2>1, <2>3, <2>4, <2>5, HonestFromParts, Zenon
<1>5. ASSUME NEW h \in Heights, HeaderFound(h) PROVE HonestInv'
  BY <1>5, HonestKept DEF HeaderFound, peersVars
<1>6. ASSUME NEW h \in Heights, OnHeaderTask(h) PROVE HonestInv'
  <2>1. /\ phase = "running" /\ poolEvents = <<>> /\ UNCHANGED <<told, blocked, phase>>
        /\ \/ UpdateAndValidate(h) /\ UNCHANGED timedOut
           \/ /\ pools' = [pools EXCEPT ![h] = NoPool]
              /\ timedOut' \/ UNCHANGED <<poolEvents, timedOut>>
    BY <1>6, Zenon DEF OnHeaderTask, peersVars
  <2>2. CASE UpdateAndValidate(h) /\ UNCHANGED timedOut
    <3>1. EventsHonest(poolEvents') /\ \A g \in Heights : VotesHonest(g, pools'[g], told)
      BY <1>1, <2>1, <2>2, UpdateHonest
    <3> QED
      BY <1>0, <1>1, <2>1, <2>2, <3>1, HonestFromParts, Zenon
  <2>3. CASE /\ pools' = [pools EXCEPT ![h] = NoPool]
             /\ timedOut' \/ UNCHANGED <<poolEvents, timedOut>>
    <3>1. ASSUME NEW g \in Heights PROVE VotesHonest(g, pools'[g], told)
      <4>1. pools'[g] = pools[g] \/ (pools'[g] = NoPool /\ NoPool.kind = "none")
        BY <1>0, <2>3, PoolFacts
      <4> QED
        BY <1>1, <2>1, <4>1, Zenon DEF VotesHonest
    <3> QED
      BY <1>0, <1>1, <2>1, <2>3, <3>1, HonestFromParts, Zenon
  <2> QED
    BY <2>1, <2>2, <2>3
<1>7. ASSUME NEW r \in Requests, OnResult(r) PROVE HonestInv'
  <2> DEFINE p == requests[r].peer
  <2>1. /\ phase = "running" /\ UNCHANGED <<told, timedOut, phase, poolEvents>>
        /\ \/ UNCHANGED <<pools, blocked>>
           \/ p \notin Honest /\ WithoutPeers({p}) /\ blocked' = blocked \cup {p}
    BY <1>7, Zenon DEF OnResult
  <2> HIDE DEF p
  <2>2. CASE UNCHANGED <<pools, blocked>>
    BY <2>1, <2>2, HonestKept
  <2>3. CASE p \notin Honest /\ WithoutPeers({p}) /\ blocked' = blocked \cup {p}
    <3>1. \A g \in Heights : VotesHonest(g, pools'[g], told)
      BY <1>1, <2>1, <2>3, WithoutHonest
    <3>2. ~timedOut => Honest \cap blocked' = {}
      BY <1>1, <2>1, <2>3
    <3> QED
      BY <1>0, <1>1, <2>1, <3>1, <3>2, HonestFromParts, Zenon
  <2> QED
    BY <2>1, <2>2, <2>3
<1>8. CASE StoppedAll
  <2>1. phase' # "running" /\ UNCHANGED told
    BY <1>8, Zenon DEF StoppedAll, Stopped, trackerOfPools
  <2> QED
    BY <1>0, <2>1, HonestFromParts
<1>9. ASSUME NEW r \in Requests,
             OnCommand(r) \/ Abandon(r) \/ \E h \in workload.asked : Request(r, h)
      PROVE  HonestInv'
  BY <1>9, HonestKept, Zenon DEF OnCommand, Abandon, Request, trackerOfPools, peersVars
<1>10. CASE SwarmStep
  <2>1. UNCHANGED <<phase, blocked>>
    BY <1>10, Zenon DEF SwarmStep, OnSwarmEvent, OnSwarmEventStopping, CloseOnStop
  <2>2. UNCHANGED shrexVars
    BY <1>10 DEF SwarmStep
  <2> QED
    BY <2>1, <2>2, HonestKept DEF shrexVars, trackerOfPools
<1>11. CASE StopAll
  <2>1. phase' # "running" /\ told' = NothingTold
    BY <1>11 DEF StopAll, Stop
  <2>2. NothingTold \in [Peers -> [Heights -> Nat]]
    BY DEF NothingTold
  <2> QED
    BY <2>1, <2>2, HonestFromParts
<1>12. ASSUME NEW p \in Peers, CooldownExpires(p) \/ \E c \in Conns[p] : CloseBlocked(p, c)
       PROVE  HonestInv'
  BY <1>12, HonestKept, Zenon DEF CooldownExpires, CloseBlocked, shrexVars, trackerOfPools, peersVars
<1>13. ASSUME NEW p \in Peers, NEW h \in Heights, OnShrexSub(p, h) PROVE HonestInv'
  <2>1. phase = "running"
    BY <1>13 DEF OnShrexSub
  <2> QED
    BY <1>13, <2>1, AnnouncedHonest
<1> QED
  BY <1>2, <1>3, <1>4, <1>5, <1>6, <1>7, <1>8, <1>9, <1>10, <1>11, <1>12, <1>13, Zenon
     DEF ShrexNext, PoolStep, ClientStep

-----------------------------------------------------------------------------
(* The network layer                                                       *)

NetworkInv == TrackerInv /\ PoolsInv /\ HonestInv

LEMMA NetworkInit == Init => NetworkInv
<1> SUFFICES ASSUME Init PROVE NetworkInv
  OBVIOUS
<1>0. /\ workload \in Workloads /\ headers = workload.stored
      /\ subjectiveHead = 0 /\ headTask = NoHeadTask
      /\ pools = NoPools /\ validatedPools = <<>> /\ poolTasks = NoTasks /\ poolEvents = <<>>
      /\ told = NothingTold /\ requests = [r \in Requests |-> NoRequest]
  BY DEF Init
<1>1. TrackerInv
  BY TrackerInit
<1>2. PoolsInv
  <2>1. headers \subseteq Heights
    BY <1>0, ShrexAssumption DEF Heights
  <2>2. /\ pools \in [Heights -> Pools] /\ poolTasks \in [Heights -> {"none", "waiting", "found"}]
        /\ poolEvents \in Seq(PoolEvent) /\ subjectiveHead \in 0..MaxHeight
        /\ DOMAIN validatedPools = {}
    BY <1>0, NothingTracked
  <2>3. ASSUME NEW h \in Heights PROVE pools[h].kind = "none"
    BY <1>0, PoolFacts DEF NoPools
  <2>4. ASSUME NEW r \in Requests
        PROVE  RequestOK(requests[r]) /\ requests[r].at = "none" /\ requests[r].tries = 0
    BY <1>0, NoRequestOK, Zenon DEF NoRequest
  <2>5. RequestsInv
    BY <1>0, <2>4 DEF RequestsInv, RequestOK
  <2>6. HeadTaskInv
    <3>1. NoHeadTask \in HeadTasks /\ NoHeadTask.from = 0
      BY <2>2, NothingTracked DEF NoHeadTask, HeadTasks
    <3> QED
      BY <1>0, <3>1 DEF HeadTaskInv
  <2>7. TypeOK
    <3>1. 0 \in 0..MaxTries
      BY ShrexAssumption
    <3> QED
      BY <1>1, <2>2, <2>3, <2>4, <3>1, Zenon DEF TypeOK, TrackerInv
  <2>8. PoolsAgree
    BY <2>3, <2>4, <2>7, Zenon DEF PoolsAgree, Pending
  <2> QED
    BY <1>0, <2>1, <2>2, <2>3, <2>5, <2>6, <2>8 DEF PoolsInv
<1>3. HonestInv
  <2>1. told \in [Peers -> [Heights -> Nat]]
    BY <1>0 DEF NothingTold
  <2>2. blocked = {}
    BY Zenon DEF Init, AllConnected, PeersInit
  <2>3. Len(poolEvents) = 0 /\ 1..0 = {}
    BY <1>0
  <2>4. ASSUME NEW h \in Heights PROVE pools[h].kind = "none"
    BY <1>0, PoolFacts DEF NoPools
  <2> QED
    BY <2>1, <2>2, <2>3, <2>4 DEF HonestInv
<1> QED
  BY <1>1, <1>2, <1>3 DEF NetworkInv

LEMMA NetworkStep == NetworkInv /\ [Next]_vars => NetworkInv'
<1> SUFFICES ASSUME NetworkInv, [Next]_vars PROVE NetworkInv'
  OBVIOUS
<1>0. /\ TrackerInv /\ PoolsInv /\ HonestInv
      /\ TablesInv /\ RequestsInv /\ HeadTaskInv /\ poolEvents \in Seq(PoolEvent)
      /\ workload \in Workloads
  BY PoolsParts DEF NetworkInv, PoolsInv
<1>1. ASSUME TrackerInv', UNCHANGED shrexVars, workload' = workload PROVE PoolsInv'
  <2>1. /\ UNCHANGED <<headers, subjectiveHead, headTask, pools, validatedPools, poolTasks>>
        /\ UNCHANGED <<poolEvents, requests>>
    BY <1>1 DEF shrexVars, trackerOfPools, clientVars
  <2>2. TablesInv'
    BY <1>0, <1>1, <2>1 DEF TablesInv
  <2>3. RequestsInv' /\ HeadTaskInv'
    BY <1>0, <2>1, RequestsKept DEF HeadTaskInv
  <2>4. PeersTypeOK'
    BY <1>1, Zenon DEF TrackerInv
  <2> QED
    BY <2>2, <2>3, <2>4, PoolsFromParts
<1>2. CASE ~workload.shrex /\ PeersNext /\ UNCHANGED shrexVars /\ workload' = workload
  <2>1. TrackerInv'
    BY <1>0, <1>2, PeersNextStep
  <2>2. PoolsInv'
    BY <1>1, <1>2, <2>1
  <2>3. HonestInv'
    <3>1. told' = told /\ told \in [Peers -> [Heights -> Nat]]
      BY <1>0, <1>2, Zenon DEF shrexVars, trackerOfPools, HonestInv
    <3> QED
      BY <1>2, <3>1, HonestFromParts
  <2> QED
    BY <2>1, <2>2, <2>3 DEF NetworkInv
<1>3. CASE workload.shrex /\ ShrexNext /\ workload' = workload
  <2>1. TrackerInv'
    BY <1>0, <1>3, ShrexKeepsTracker
  <2>2. TablesInv' /\ RequestsInv' /\ HeadTaskInv'
    BY <1>0, <1>3, TablesStep, RequestsStep, HeadTaskStep
  <2>3. PeersTypeOK'
    BY <2>1, Zenon DEF TrackerInv
  <2>4. PoolsInv'
    BY <2>2, <2>3, PoolsFromParts
  <2>5. HonestInv'
    BY <1>0, <1>3, HonestStep
  <2> QED
    BY <2>1, <2>4, <2>5 DEF NetworkInv
<1>4. CASE UNCHANGED vars
  <2>1. UNCHANGED peersVars /\ UNCHANGED shrexVars /\ workload' = workload
    BY <1>4 DEF vars, moving
  <2>2. TrackerInv'
    <3>1. OthersOK
      BY <1>0, TypeParts, Zenon DEF TrackerInv
    <3>2. OthersOK'
      BY <2>1, <3>1 DEF OthersOK, peersVars
    <3> QED
      BY <1>0, <2>1, <3>2, UntouchedStep DEF peersVars, trackerVars
  <2>3. PoolsInv'
    BY <1>1, <2>1, <2>2
  <2>4. HonestInv'
    BY <1>0, <2>1, Zenon DEF HonestInv, peersVars, shrexVars, trackerOfPools
  <2> QED
    BY <2>2, <2>3, <2>4 DEF NetworkInv
<1> QED
  BY <1>2, <1>3, <1>4 DEF Next

\* The tables of the peer tracker, of the pools of shrex and of its requests stay in step
\* with the swarm, whatever the order in which connections, announcements, headers,
\* answers, timeouts and the interval of the health check arrive.
THEOREM NetworkInvariant == Spec => []NetworkInv
  BY NetworkInit, NetworkStep, PTL DEF Spec

\* protect_counter is the number of peers that carry each tag, and never exceeds the limit.
THEOREM ProtectionIsCounted == Spec => []CountersAgree
<1>1. NetworkInv => CountersAgree
  BY DEF NetworkInv, TrackerInv
<1> QED
  BY <1>1, NetworkInvariant, PTL

\* The statistics and the PeerConnected and PeerDisconnected events tell of the peers that
\* are connected.
THEOREM ReportsAreTrue == Spec => []PeersAreReported
<1>1. NetworkInv => PeersAreReported
  BY DEF NetworkInv, TrackerInv
<1> QED
  BY <1>1, NetworkInvariant, PTL

\* The handler of a connection keeps it alive exactly when its peer is protected, but for
\* what it is still to be told.
THEOREM ProtectedAreKeptAlive == Spec => []KeepAliveAgrees
<1>1. NetworkInv => KeepAliveAgrees
  BY Zenon DEF NetworkInv, TrackerInv, KeepAliveAgrees
<1> QED
  BY <1>1, NetworkInvariant, PTL

\* Pools are of recent heights, those of candidates will be settled, and the lookup
\* get_pool expects to succeed does.
THEOREM PoolsStayInStep == Spec => []PoolsAgree
<1>1. NetworkInv => PoolsAgree
  BY DEF NetworkInv, PoolsInv
<1> QED
  BY <1>1, NetworkInvariant, PTL

\* No honest peer is blocked as long as headers come in time.
THEOREM HonestAreNotBlocked == Spec => []HonestPeersStay
<1>1. NetworkInv => HonestPeersStay
  BY Zenon DEF NetworkInv, HonestInv, HonestPeersStay
<1> QED
  BY <1>1, NetworkInvariant, PTL

=============================================================================
