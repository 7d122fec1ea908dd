------------------------------- MODULE Shrex -------------------------------
(***************************************************************************)
(* The shrex protocol, on the peers of module Peers: PoolTracker, which    *)
(* learns from announcements which peers hold the data of a height, and    *)
(* the client, which asks them.  A data hash is the height whose data it   *)
(* is of, EmptyHash or WrongHash.                                          *)
(***************************************************************************)
EXTENDS Peers, Functions, Folds

CONSTANTS
    MaxHeight,          \* bound on heights
    EmptyHeights,       \* the heights whose block is empty
    Honest,             \* the peers that announce the truth, once, and answer it
    Window,             \* ROOT_HASH_WINDOW
    Requests,           \* the requests of users
    MaxTries,           \* bound on MAX_TRIES
    MaxPoolEvents,      \* bound on the events that wait
    Workloads           \* what happens in a behaviour: shrex, FALSE when only the peers move;
                        \* announced, a bound per peer; asked, the heights requested;
                        \* tries, MAX_TRIES; stored, the headers there at first

ASSUME ShrexAssumption ==
    /\ MaxHeight \in Nat /\ MaxTries \in Nat /\ Window \in Nat \ {0}
    /\ \A p \in Peers : 1 \in Conns[p]
    /\ \A w \in Workloads : /\ w.asked \subseteq 1..MaxHeight /\ w.stored \subseteq 1..MaxHeight
                           /\ w.tries \in 1..MaxTries

VARIABLES
    headers,            \* the heights in the header store
    prunedHeaders,      \* and those pruned from it
    subjectiveHead,     \* PoolTracker.subjective_head, 0 when there is none
    headTask,           \* the task of PoolTracker::new
    pools,              \* PoolTracker.hash_pools
    validatedPools,     \* PoolTracker.validated_pools
    poolTasks,          \* the tasks of queue_get_header_from_store
    poolEvents,         \* PoolTracker.pending_events
    told,               \* how often which peer announced which height
    timedOut,           \* a header did not come in POOL_VALIDATION_TIMEOUT
    requests,           \* the requests: in the channel of commands, pending, ongoing or answered
    cooldowns,          \* Client.peers_cooldowns
    workload

trackerOfPools == <<subjectiveHead, headTask, pools, validatedPools, poolTasks, poolEvents, told, timedOut>>
clientVars == <<requests, cooldowns>>
shrexVars == <<headers, prunedHeaders, trackerOfPools, clientVars>>
moving == <<peersVars, shrexVars>>
vars == <<moving, workload>>

Heights == 1..MaxHeight
EmptyHash == 0
WrongHash == MaxHeight + 1
Hashes == 0..WrongHash
DataHash(h) == IF h \in EmptyHeights THEN EmptyHash ELSE h

NoPool == [kind |-> "none"]
Candidate(votes) == [kind |-> "candidates", votes |-> votes]
Validated(hash) == [kind |-> "validated", hash |-> hash]
Voted(pool) == UNION {pool.votes[hash] : hash \in Hashes}
NoPools == [h \in Heights |-> NoPool]
NoTasks == [h \in Heights |-> "none"]
NoHeadTask == [at |-> "get", from |-> 0]
NothingTold == [p \in Peers |-> [h \in Heights |-> 0]]
NoVotes == [hash \in Hashes |-> {}]

NoRequest == [at |-> "none", height |-> 0, tries |-> 0, peer |-> "none", answer |-> "none"]
Answered(r, answer) == [r EXCEPT !.at = "done", !.peer = "none", !.answer = answer]

TypeOK ==
    /\ PeersTypeOK
    /\ subjectiveHead \in 0..MaxHeight
    /\ \A h \in Heights : pools[h].kind \in {"none", "candidates", "validated"}
    /\ poolTasks \in [Heights -> {"none", "waiting", "found"}]
    /\ DOMAIN validatedPools \subseteq Hashes
    /\ \A r \in Requests : /\ requests[r].at \in {"none", "queued", "pending", "ongoing", "done"}
                           /\ requests[r].tries \in 0..MaxTries

\* stale_height_threshold
StaleHeightThreshold(head) == IF head > Window THEN head - Window ELSE 0

-----------------------------------------------------------------------------
(* The header store, as others change it                                   *)

InsertHeader ==
    /\ \E h \in Heights : /\ \A g \in headers \cup prunedHeaders : g < h
                          /\ headers' = headers \cup {h}
    /\ UNCHANGED <<peersVars, prunedHeaders, trackerOfPools, clientVars>>

\* Headers are pruned long after they have left the window of the tracker.
PruneHeader ==
    /\ headers # {} /\ Min(headers) <= StaleHeightThreshold(Max(headers))
    /\ headers' = headers \ {Min(headers)}
    /\ prunedHeaders' = prunedHeaders \cup {Min(headers)}
    /\ UNCHANGED <<peersVars, trackerOfPools, clientVars>>

-----------------------------------------------------------------------------
(* PoolTracker                                                             *)

\* Before the head is known, nothing is tracked.
Stale(h) == subjectiveHead = 0 \/ h <= StaleHeightThreshold(subjectiveHead)

\* The peers of a hash; a missing entry has none.
PoolOf(hash) == IF hash \in DOMAIN validatedPools THEN validatedPools[hash] ELSE {}
With(hash, ps) ==
    [x \in DOMAIN validatedPools \cup {hash} |-> IF x = hash THEN ps ELSE validatedPools[x]]

Event(type, ps) == [type |-> type, peers |-> ps]

\* add_peer_for_hash; an announcement that is not valid does not get here.
AddPeerForHash(p, h, hash) ==
    /\ Len(poolEvents) < MaxPoolEvents
    /\ ~Stale(h)
    /\ LET pool == IF pools[h].kind = "none" THEN Candidate(NoVotes) ELSE pools[h]
       IN  /\ poolTasks' = [poolTasks EXCEPT ![h] = IF pools[h].kind = "none" THEN "waiting" ELSE @]
           /\ \/ /\ pool.kind = "candidates" /\ p \notin Voted(pool)
                 /\ pools' = [pools EXCEPT ![h] = Candidate([pool.votes EXCEPT ![hash] = @ \cup {p}])]
                 /\ UNCHANGED <<validatedPools, poolEvents>>
              \/ /\ pool.kind = "candidates" /\ p \in Voted(pool)
                 /\ poolEvents' = Append(poolEvents, Event("BlockPeers", {p}))
                 /\ UNCHANGED <<pools, validatedPools>>
              \/ /\ pool.kind = "validated" /\ pool.hash = hash
                 /\ validatedPools' = With(hash, PoolOf(hash) \cup {p})
                 /\ poolEvents' = Append(poolEvents, Event("AddPeers", {p}))
                 /\ UNCHANGED pools
              \/ /\ pool.kind = "validated" /\ pool.hash # hash
                 /\ poolEvents' = Append(poolEvents, Event("BlockPeers", {p}))
                 /\ UNCHANGED <<pools, validatedPools>>

\* on_shrex_sub_event: an honest peer announces a block with data once, others anything.
OnShrexSub(p, h) ==
    /\ phase = "running"
    /\ SumFunction(told[p]) < workload.announced[p]
    /\ p \in Honest => told[p][h] = 0 /\ h \notin EmptyHeights
    /\ told' = [told EXCEPT ![p][h] = @ + 1]
    /\ \E hash \in (IF p \in Honest THEN {DataHash(h)} ELSE {DataHash(h), WrongHash} \ {EmptyHash}) :
          AddPeerForHash(p, h, hash)
    /\ UNCHANGED <<peersVars, headers, prunedHeaders, subjectiveHead, headTask, timedOut, clientVars>>

\* remove_peer, for each of ps.
WithoutPeers(ps) ==
    /\ pools' = [h \in Heights |->
           IF pools[h].kind = "candidates"
           THEN Candidate([hash \in Hashes |-> pools[h].votes[hash] \ ps]) ELSE pools[h]]
    /\ validatedPools' = [hash \in DOMAIN validatedPools |-> validatedPools[hash] \ ps]

\* wait_height has returned, in a task.
HeaderFound(h) ==
    /\ phase = "running" /\ poolTasks[h] = "waiting" /\ h \in headers
    /\ poolTasks' = [poolTasks EXCEPT ![h] = "found"]
    /\ UNCHANGED <<peersVars, headers, prunedHeaders, subjectiveHead, headTask, pools, validatedPools,
                   poolEvents, told, timedOut, clientVars>>

\* The heights try_update_subjective_head evicts.
Evicted(h) == StaleHeightThreshold(subjectiveHead)..StaleHeightThreshold(h)

\* Mutation: every peer that announced the height is reported.
BadPeersAll(pool, hash) == Voted(pool)

\* Those that announced another hash.
BadPeers(pool, hash) == UNION {pool.votes[other] : other \in Hashes \ {hash}}

\* Mutation: only a pool with peers is kept.
PromotedPeers(hash, good) == IF good = {} THEN validatedPools ELSE With(hash, good)

\* The peers that announced the hash of the header, if any, are the pool.
Promoted(hash, good) == With(hash, good)

\* try_update_subjective_head and validate_pool, with the header of h.
UpdateAndValidate(h) ==
    LET evicted == IF subjectiveHead # 0 /\ h > subjectiveHead THEN Evicted(h) ELSE {}
        dropped == {pools[g].hash : g \in {g \in Heights \cap evicted : pools[g].kind = "validated"}}
        left == [g \in Heights |-> IF g \in evicted THEN NoPool ELSE pools[g]]
        pool == left[h]
        hash == DataHash(h)
        good == pool.votes[hash]
        bad == BadPeers(pool, hash)
    IN  /\ subjectiveHead' = Max({subjectiveHead, h})
        /\ IF pool.kind # "candidates"
           THEN /\ pools' = left
                /\ validatedPools' = Restrict(validatedPools, DOMAIN validatedPools \ dropped)
                /\ UNCHANGED poolEvents
           ELSE /\ pools' = [left EXCEPT ![h] = Validated(hash)]
                /\ validatedPools' = LET all == Promoted(hash, good)
                                     IN  Restrict(all, DOMAIN all \ (dropped \ {hash}))
                /\ poolEvents' = poolEvents
                       \o (IF good = {} THEN <<>> ELSE <<Event("AddPeers", good)>>)
                       \o (IF bad = {} THEN <<>> ELSE <<Event("BlockPeers", bad)>>)

\* PoolTracker::poll with a task that has ended.  Events that wait go first.
OnHeaderTask(h) ==
    /\ phase = "running" /\ poolEvents = <<>> /\ poolTasks[h] # "none"
    /\ poolTasks' = [poolTasks EXCEPT ![h] = "none"]
    /\ \/ /\ poolTasks[h] = "found" /\ h \in headers
          /\ UpdateAndValidate(h)
          /\ UNCHANGED timedOut
       \/ /\ poolTasks[h] = "found" /\ h \notin headers                 \* StoreError
          /\ pools' = [pools EXCEPT ![h] = NoPool]
          /\ UNCHANGED <<subjectiveHead, validatedPools, poolEvents, timedOut>>
       \/ /\ poolTasks[h] = "waiting" /\ h \notin headers               \* Timeout
          /\ pools' = [pools EXCEPT ![h] = NoPool]
          /\ poolEvents' = IF pools[h].kind = "candidates"
                           THEN <<Event("BlockPeers", Voted(pools[h]))>> ELSE <<>>
          /\ timedOut' = TRUE
          /\ UNCHANGED <<subjectiveHead, validatedPools>>
    /\ UNCHANGED <<peersVars, headers, prunedHeaders, headTask, told, clientVars>>

\* The task of PoolTracker::new: get_head, then, for an empty store, wait_new_head, which
\* waits for a head other than the one it starts from, and get_head.
OnHeadTask ==
    /\ phase = "running"
    /\ LET head == IF headers = {} THEN 0 ELSE Max(headers)
       IN  \/ /\ headTask.at = "get" /\ head = 0
              /\ headTask' = [headTask EXCEPT !.at = "empty"]
              /\ UNCHANGED <<subjectiveHead, pools, validatedPools, poolEvents>>
           \/ /\ headTask.at = "empty"
              /\ headTask' = [at |-> "wait", from |-> head]
              /\ UNCHANGED <<subjectiveHead, pools, validatedPools, poolEvents>>
           \/ /\ \/ headTask.at = "get" /\ head # 0
                 \/ headTask.at = "wait" /\ head # headTask.from
              /\ poolEvents = <<>>
              /\ headTask' = [headTask EXCEPT !.at = "done"]
              /\ UpdateAndValidate(head)
    /\ UNCHANGED <<peersVars, headers, prunedHeaders, poolTasks, told, timedOut, clientVars>>

\* Events of the tracker go to the p2p worker.
OnPoolEvent ==
    /\ phase = "running" /\ poolEvents # <<>>
    /\ LET ev == Head(poolEvents)
       IN  \/ /\ ev.type = "BlockPeers"
              /\ WithoutPeers(ev.peers)
              /\ blocked' = blocked \cup ev.peers /\ dialing' = dialing \ ev.peers
              /\ UNCHANGED peers
           \/ /\ ev.type = "AddPeers"
              /\ peers' = [p \in Peers |-> IF p \in ev.peers THEN Entry(p) ELSE peers[p]]
              /\ UNCHANGED <<pools, validatedPools, blocked, dialing>>
    /\ poolEvents' = Tail(poolEvents)
    /\ UNCHANGED <<protectCounter, info, announced, open, keepAlive, keepAliveEvents, swarmEvents,
                   phase, closed, headers, prunedHeaders, subjectiveHead, headTask, poolTasks, told,
                   timedOut, clientVars>>

-----------------------------------------------------------------------------
(* The client                                                              *)

Pending == {r \in Requests : requests[r].at = "pending"}
Ongoing == {r \in Requests : requests[r].at = "ongoing"}

\* P2p::get_eds and its like: the command goes to the worker, unless that is gone.
Request(r, h) ==
    /\ requests[r].at = "none"
    /\ requests' = [requests EXCEPT ![r] =
           LET new == [NoRequest EXCEPT !.at = "queued", !.height = h]
           IN  IF phase = "stopped" THEN Answered(new, "WorkerDied") ELSE new]
    /\ UNCHANGED <<peersVars, headers, prunedHeaders, trackerOfPools, cooldowns>>

\* common_req_init and the rest of get_row, get_sample, get_namespace_data and get_eds.
OnCommand(r) ==
    /\ phase = "running" /\ requests[r].at = "queued"
    /\ requests' = [requests EXCEPT ![r] =
           IF @.height \notin headers
           THEN Answered(@, IF @.height \in prunedHeaders THEN "HeaderPruned" ELSE "HeaderNotSynced")
           ELSE IF @.height \in EmptyHeights THEN Answered(@, "ok")
           ELSE [@ EXCEPT !.at = "pending", !.tries = workload.tries]]
    /\ UNCHANGED <<peersVars, headers, prunedHeaders, trackerOfPools, cooldowns>>

\* Full nodes that are connected and not on cooldown.
AvailablePeers == {p \in Connected : peers[p].full} \ cooldowns

\* Mutation: a request without a pool waits for one.
SchedulableWithPool(r) == pools[requests[r].height].kind = "validated"

\* get_pool: only candidates that will be validated in a moment are waited for.
Schedulable(r) == pools[requests[r].height].kind # "candidates"

PeersFor(r) ==
    LET pool == pools[requests[r].height]
        pooled == IF pool.kind = "validated" THEN validatedPools[pool.hash] \cap AvailablePeers ELSE {}
    IN  IF pooled # {} THEN pooled ELSE AvailablePeers

TriesLeft(r) == requests[r].tries - 1

\* schedule_pending_requests
SchedulePendingRequests ==
    /\ phase = "running" /\ AvailablePeers # {}
    /\ \E r \in Pending : Schedulable(r)
    /\ \E choice \in [Requests -> Peers] :
          /\ \A r \in Requests : IF r \in Pending /\ Schedulable(r) THEN choice[r] \in PeersFor(r)
                                 ELSE choice[r] = CHOOSE p \in Peers : TRUE
          /\ requests' = [r \in Requests |->
                 IF r \in Pending /\ Schedulable(r)
                 THEN [requests[r] EXCEPT !.at = "ongoing", !.peer = choice[r], !.tries = TriesLeft(r)]
                 ELSE requests[r]]
    /\ UNCHANGED <<peersVars, headers, prunedHeaders, trackerOfPools, cooldowns>>

\* on_error
Failed(r) ==
    IF requests[r].tries > 0 THEN [requests[r] EXCEPT !.at = "pending", !.peer = "none"]
    ELSE Answered(requests[r], "MaxTriesReached")

\* on_result, with what request_response_task returned.
OnResult(r) ==
    /\ phase = "running" /\ requests[r].at = "ongoing"
    /\ LET p == requests[r].peer
       IN  \/ /\ requests' = [requests EXCEPT ![r] = Answered(@, "ok")]
              /\ UNCHANGED <<cooldowns, pools, validatedPools, blocked, dialing>>
           \/ /\ requests' = [requests EXCEPT ![r] = Failed(r)]
              /\ cooldowns' = cooldowns \cup {p}
              /\ UNCHANGED <<pools, validatedPools, blocked, dialing>>
           \/ /\ p \notin Honest                                   \* does not decode or verify
              /\ requests' = [requests EXCEPT ![r] = Failed(r)]
              /\ WithoutPeers({p})
              /\ blocked' = blocked \cup {p} /\ dialing' = dialing \ {p}
              /\ UNCHANGED cooldowns
    /\ UNCHANGED <<peers, protectCounter, info, announced, open, keepAlive, keepAliveEvents,
                   swarmEvents, phase, closed, headers, prunedHeaders, subjectiveHead, headTask,
                   poolTasks, poolEvents, told, timedOut>>

\* The user drops the receiver; poll drops the request, which cancels its task.
Abandon(r) ==
    /\ phase = "running" /\ r \in Pending \cup Ongoing
    /\ requests' = [requests EXCEPT ![r] = Answered(@, "abandoned")]
    /\ UNCHANGED <<peersVars, headers, prunedHeaders, trackerOfPools, cooldowns>>

CooldownExpires(p) ==
    /\ p \in cooldowns
    /\ cooldowns' = cooldowns \ {p}
    /\ UNCHANGED <<peersVars, headers, prunedHeaders, trackerOfPools, requests>>

\* on_stop: dropping a request answers it.
StoppedRequests == [r \in Requests |->
    IF r \in Pending \cup Ongoing THEN Answered(requests[r], "RequestCancelled") ELSE requests[r]]

\* Worker::run stops the behaviours before the swarm.  From here the events of the tracker
\* are discarded, and nothing depends on what it and the store hold.
StopAll ==
    /\ Stop
    /\ requests' = StoppedRequests
    /\ cooldowns' = {}
    /\ headers' = workload.stored /\ prunedHeaders' = {}
    /\ subjectiveHead' = 0 /\ headTask' = NoHeadTask
    /\ pools' = NoPools /\ validatedPools' = <<>>
    /\ poolTasks' = NoTasks /\ poolEvents' = <<>>
    /\ told' = NothingTold /\ timedOut' = FALSE

\* The worker is dropped, and with it the commands it has not read.
StoppedAll ==
    /\ Stopped
    /\ requests' = [r \in Requests |->
           IF requests[r].at = "queued" THEN Answered(requests[r], "WorkerDied") ELSE requests[r]]
    /\ UNCHANGED <<headers, prunedHeaders, trackerOfPools, cooldowns>>

\* external: the block list closes the connections of a peer.
CloseBlocked(p, c) ==
    /\ phase = "running" /\ p \in blocked
    /\ CloseNow(p, c)
    /\ UNCHANGED <<trackerVars, dialing, blocked, phase, closed, shrexVars>>

-----------------------------------------------------------------------------

\* The node has been running: every peer is a full node and has its first connection.
AllConnected ==
    LET entries == [p \in Peers |-> [NewPeer EXCEPT
            !.connections = {1}, !.full = TRUE, !.trusted = p \in Bootnodes,
            !.protected = IF p \in Bootnodes THEN {BootnodeTag} ELSE {}]]
    IN  /\ peers = entries /\ info = Recount(entries)
        /\ protectCounter = [t \in Tags |-> IF t = BootnodeTag THEN Cardinality(Bootnodes) ELSE 0]
        /\ announced = [p \in Peers |-> 1]
        /\ open = [p \in Peers |-> {1}] /\ keepAliveEvents = {}
        /\ keepAlive = [p \in Peers |-> IF p \in Bootnodes THEN {1} ELSE {}]
        /\ swarmEvents = <<>> /\ dialing = {} /\ blocked = {}
        /\ phase = "running" /\ closed = 0

Init ==
    /\ workload \in Workloads
    /\ IF workload.shrex THEN AllConnected ELSE PeersInit
    /\ headers = workload.stored /\ prunedHeaders = {}
    /\ subjectiveHead = 0 /\ headTask = NoHeadTask
    /\ pools = NoPools /\ validatedPools = <<>>
    /\ poolTasks = NoTasks /\ poolEvents = <<>>
    /\ told = NothingTold /\ timedOut = FALSE
    /\ requests = [r \in Requests |-> NoRequest]
    /\ cooldowns = {}

PoolStep ==
    \/ OnHeadTask \/ OnPoolEvent
    \/ \E h \in Heights : HeaderFound(h) \/ OnHeaderTask(h)

ClientStep ==
    \/ SchedulePendingRequests
    \/ \E r \in Requests : OnCommand(r) \/ OnResult(r)

SwarmStep ==
    /\ OnSwarmEvent \/ OnSwarmEventStopping \/ \E p \in Peers : \E c \in Conns[p] : CloseOnStop(p, c)
    /\ UNCHANGED shrexVars

ShrexNext ==
    \/ InsertHeader \/ PruneHeader \/ PoolStep \/ ClientStep \/ SwarmStep \/ StopAll \/ StoppedAll
    \/ \E p \in Peers :
          \/ CooldownExpires(p)
          \/ \E h \in Heights : OnShrexSub(p, h)
          \/ \E c \in Conns[p] : CloseBlocked(p, c)
    \/ \E r \in Requests : Abandon(r) \/ \E h \in workload.asked : Request(r, h)

Next ==
    /\ UNCHANGED workload
    /\ \/ ~workload.shrex /\ PeersNext /\ UNCHANGED shrexVars
       \/ workload.shrex /\ ShrexNext

Spec == Init /\ [][Next]_vars

\* The swarm is polled, and the health check is on an interval; commands are read, tasks
\* end with an answer or a timeout, the interval of the client ticks and cooldowns pass.
FairSpec ==
    /\ Spec
    /\ WF_peersVars(PollSwarm) /\ WF_peersVars(~workload.shrex /\ PeerHealthCheck)
    /\ WF_moving(workload.shrex /\ PoolStep)
    /\ WF_moving(workload.shrex /\ SchedulePendingRequests)
    /\ \A p \in Peers : WF_moving(workload.shrex /\ CooldownExpires(p))
    /\ \A r \in Requests : WF_moving(workload.shrex /\ (OnCommand(r) \/ OnResult(r)))

-----------------------------------------------------------------------------

\* Pools are kept for the last Window heights only, and a candidate pool has a task that
\* will settle it: evictions, timeouts and announcements leave nothing behind.  "must exist
\* if hash_pool exists": the pool the scheduler looks up for a request has its peers,
\* although the entries of empty blocks share one hash and go with the first of them.
PoolsAgree ==
    /\ TypeOK
    /\ \A h \in Heights :
          /\ pools[h].kind # "none" => h > StaleHeightThreshold(subjectiveHead)
          /\ pools[h].kind = "candidates" => poolTasks[h] # "none"
    /\ \A r \in Pending :
          LET pool == pools[requests[r].height]
          IN  pool.kind = "validated" => pool.hash \in DOMAIN validatedPools

\* A peer that announces each block it has once, and answers with what it announced, is
\* blocked only when a header does not come in time.
HonestPeersStay == workload.shrex /\ phase = "running" /\ Honest \cap blocked # {} => timedOut

\* Every request is answered, by data, by an error after MAX_TRIES tries, or when the
\* node stops, unless no full node is connected: none waits for a pool that is never
\* validated, or for a worker that is gone.
RequestsEnd ==
    \A r \in Requests :
        []<>(\/ requests[r].at \in {"none", "done"}
             \/ phase = "running" /\ {p \in Connected : peers[p].full} = {})

-----------------------------------------------------------------------------
(* The inductive invariants of the proofs.                                 *)

Answers == {"none", "ok", "HeaderPruned", "HeaderNotSynced", "MaxTriesReached", "abandoned",
            "RequestCancelled", "WorkerDied"}
RequestEntry ==
    [at : {"none", "queued", "pending", "ongoing", "done"}, height : 0..MaxHeight,
     tries : 0..MaxTries, peer : Peers \cup {"none"}, answer : Answers]

\* A request that waits for a peer has a try left, and asks for a block with data; one
\* that is under way was sent to a peer.
RequestsInv ==
    /\ requests \in [Requests -> RequestEntry]
    /\ \A r \in Requests :
          /\ requests[r].at # "none" => requests[r].height \in Heights
          /\ requests[r].at = "pending" => requests[r].tries > 0
          /\ requests[r].at = "ongoing" => requests[r].peer \in Peers
          /\ requests[r].at \in {"pending", "ongoing"} => requests[r].height \notin EmptyHeights

Votes == [Hashes -> SUBSET Peers]
Pools == {NoPool} \cup {Candidate(votes) : votes \in Votes} \cup {Validated(hash) : hash \in Hashes}

HeadTasks == [at : {"get", "empty", "wait", "done"}, from : 0..MaxHeight]

\* A head that is waited for to change is one of the store, which keeps its head.
HeadTaskInv == headTask \in HeadTasks /\ (headTask.from = 0 \/ headers # {})

PoolEvent == [type : {"AddPeers", "BlockPeers"}, peers : SUBSET Peers]

\* The entry of a validated pool has its peers unless the block is empty.
PoolsInv ==
    /\ PoolsAgree
    /\ workload \in Workloads
    /\ poolEvents \in Seq(PoolEvent)
    /\ headers \subseteq Heights
    /\ RequestsInv /\ HeadTaskInv
    /\ pools \in [Heights -> Pools]
    /\ \A h \in Heights :
          /\ subjectiveHead = 0 => pools[h].kind = "none"
          /\ pools[h].kind = "validated" =>
                /\ pools[h].hash = DataHash(h)
                /\ h \notin EmptyHeights => h \in DOMAIN validatedPools

\* While headers come in time, no honest peer is among those to be blocked, since what
\* it announced is the truth and was announced once.
HonestInv ==
    /\ told \in [Peers -> [Heights -> Nat]]
    /\ workload.shrex /\ phase = "running" =>
        /\ ~timedOut => Honest \cap blocked = {}
        /\ ~timedOut => \A i \in 1..Len(poolEvents) :
               poolEvents[i].type = "BlockPeers" => Honest \cap poolEvents[i].peers = {}
        /\ \A h \in Heights : pools[h].kind = "candidates" =>
               \A hash \in Hashes : \A p \in Honest \cap pools[h].votes[hash] :
                   hash = DataHash(h) /\ told[p][h] > 0
=============================================================================
