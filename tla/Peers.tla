------------------------------- MODULE Peers -------------------------------
(***************************************************************************)
(* The peers of the node: PeerTracker, which keeps what is known of them,  *)
(* SwarmManager, which connects to them, protects the best of them and     *)
(* stops, and connection_control, which keeps connections alive.  The      *)
(* libp2p swarm is modelled by the connections it has open, the events it  *)
(* has not handed out yet and the peers it dials.                          *)
(***************************************************************************)
EXTENDS Integers, FiniteSets, FiniteSetsExt, Sequences

CONSTANTS
    Peers,
    Bootnodes,          \* the bootnodes of the configuration
    FullNodes,          \* the peers whose agent version is one of a full node
    ArchivalNodes,      \* the peers that provide the archival topic
    Conns,              \* the connections each peer may have at a time
    Named,              \* the peers users and other components name
    ProtectLimit,       \* FULL_NODES_PROTECT_LIMIT and ARCHIVAL_NODES_PROTECT_LIMIT
    MaxClosed,          \* bound on the connections that are closed
    MaxUnread           \* bound on the events of the swarm that wait

ASSUME PeersAssumption ==
    /\ IsFiniteSet(Peers)
    /\ Named \subseteq Peers
    /\ Bootnodes \subseteq Peers /\ FullNodes \subseteq Peers /\ ArchivalNodes \subseteq Peers
    /\ ProtectLimit \in Nat

VARIABLES
    peers,              \* PeerTracker.peers
    protectCounter,     \* PeerTracker.protect_counter
    info,               \* PeerTrackerInfo, in the watch channel
    announced,          \* PeerConnected minus PeerDisconnected events, per peer
    open,               \* external: the connections of the swarm
    keepAlive,          \* ConnHandler.keep_alive of each of them
    keepAliveEvents,    \* connection_control::Behaviour.events
    swarmEvents,        \* external: what select_next_some will return
    dialing,            \* external: the bootnodes that are dialled
    blocked,            \* external: the block list
    phase,              \* "running", "stopping" or "stopped"
    closed              \* how many connections were closed

peersVars == <<peers, protectCounter, info, announced, open, keepAlive, keepAliveEvents,
          swarmEvents, dialing, blocked, phase, closed>>
trackerVars == <<peers, protectCounter, info, announced>>
swarmVars == <<open, swarmEvents, dialing, blocked, closed>>

BootnodeTag == 0
FullTag == 1
ArchivalTag == 2
Tags == {BootnodeTag, FullTag, ArchivalTag}

\* Peer::new: pinged are the connections whose ping is known, left that disconnected_at is set.
NewPeer == [known |-> TRUE, connections |-> {}, pinged |-> {}, protected |-> {}, trusted |-> FALSE,
            archival |-> FALSE, full |-> FALSE, left |-> FALSE]
Unknown == [NewPeer EXCEPT !.known = FALSE]

IsConnected(p) == peers[p].connections # {}
IsProtected(p) == peers[p].protected # {}
Connected == {p \in Peers : IsConnected(p)}

\* recount_peer_tracker_info
Recount(ps) ==
    LET connected == {p \in Peers : ps[p].connections # {}}
    IN  [connected |-> Cardinality(connected),
         trusted   |-> Cardinality({p \in connected : ps[p].trusted}),
         full      |-> Cardinality({p \in connected : ps[p].full}),
         archival  |-> Cardinality({p \in connected : ps[p].archival})]

\* The entry of a peer, made when it is missing.
Entry(p) == IF peers[p].known THEN peers[p] ELSE NewPeer

SetPeers(ps) ==
    /\ peers' = ps
    /\ info' = Recount(ps)

AllConns == UNION {Conns[p] : p \in Peers}

PeerEntry ==
    [known : BOOLEAN, connections : SUBSET AllConns, pinged : SUBSET AllConns,
     protected : SUBSET Tags, trusted : BOOLEAN, archival : BOOLEAN, full : BOOLEAN, left : BOOLEAN]

PeersTypeOK ==
    /\ peers \in [Peers -> PeerEntry]
    /\ \A p \in Peers : ~peers[p].known => peers[p] = Unknown
    /\ protectCounter \in [Tags -> 0..Cardinality(Peers)]
    /\ announced \in [Peers -> Int]
    /\ open \in [Peers -> SUBSET AllConns] /\ keepAlive \in [Peers -> SUBSET AllConns]
    /\ dialing \subseteq Peers /\ blocked \subseteq Peers
    /\ phase \in {"running", "stopping", "stopped"}

-----------------------------------------------------------------------------
(* The swarm                                                               *)

\* Mutation: only peers that are new to the tracker are dialled.
DialableNew(ps) == {p \in ps : ~peers[p].known}

\* SwarmManager::connect: nothing is dialled that is connected.
Dialable(ps) == {p \in ps : ~IsConnected(p) /\ open[p] = {} /\ p \notin blocked}

\* ConnectionIds are never used twice; in the model, not while anything mentions them.
Fresh(p, c) ==
    /\ c \notin open[p] \cup peers[p].connections
    /\ \A e \in keepAliveEvents : e.peer # p \/ e.conn # c
    /\ \A i \in 1..Len(swarmEvents) : swarmEvents[i].peer # p \/ swarmEvents[i].conn # c

\* connection_control refuses connections while the node stops.
Establish(p, c) ==
    /\ phase = "running" /\ p \notin blocked
    /\ Fresh(p, c) /\ Len(swarmEvents) < MaxUnread
    /\ open' = [open EXCEPT ![p] = @ \cup {c}]
    /\ dialing' = dialing \ {p}
    /\ swarmEvents' = Append(swarmEvents, [type |-> "established", peer |-> p, conn |-> c])
    /\ UNCHANGED <<trackerVars, keepAlive, keepAliveEvents, blocked, phase, closed>>

DialFails(p) ==
    /\ p \in dialing
    /\ dialing' = dialing \ {p}
    /\ UNCHANGED <<trackerVars, open, keepAlive, keepAliveEvents, swarmEvents, blocked,
                   phase, closed>>

\* The connection ends; what was queued for its handler is lost.
CloseNow(p, c) ==
    /\ c \in open[p]
    /\ open' = [open EXCEPT ![p] = @ \ {c}]
    /\ keepAlive' = [keepAlive EXCEPT ![p] = @ \ {c}]
    /\ keepAliveEvents' = {e \in keepAliveEvents : e.peer # p \/ e.conn # c}
    /\ swarmEvents' = Append(swarmEvents, [type |-> "closed", peer |-> p, conn |-> c])

\* By the other side, when idle, by a failed ping, or because the peer is blocked.
Close(p, c) ==
    /\ phase # "stopped" /\ closed < MaxClosed /\ Len(swarmEvents) < MaxUnread
    /\ CloseNow(p, c)
    /\ closed' = closed + 1
    /\ UNCHANGED <<trackerVars, dialing, blocked, phase>>

\* ConnHandler::on_behaviour_event
DeliverKeepAlive ==
    /\ \E e \in keepAliveEvents :
          /\ keepAliveEvents' = keepAliveEvents \ {e}
          /\ keepAlive' = [keepAlive EXCEPT
                 ![e.peer] = IF e.value THEN @ \cup ({e.conn} \cap open[e.peer]) ELSE @ \ {e.conn}]
    /\ UNCHANGED <<trackerVars, swarmVars, phase>>

-----------------------------------------------------------------------------
(* Events of the swarm                                                     *)

SetKeepAlive(ps, value) ==
    keepAliveEvents' = keepAliveEvents \cup UNION {
        [peer : {p}, conn : peers[p].connections, value : {value}] : p \in ps}

\* Mutation: the handler of a connection learns of protection only later.
KeepAliveOfNewNot(p, c) == {}

\* on_peer_connected: the connection of a protected peer is kept alive.
KeepAliveOfNew(p, c) ==
    IF IsProtected(p) THEN {[peer |-> p, conn |-> c, value |-> TRUE]} ELSE {}

\* Mutation: every connection is announced.
AnnouncedEach(p) == 1

\* PeerConnected is published for the first connection of a peer.
Announced(p) == IF IsConnected(p) THEN 0 ELSE 1

OnPeerConnected(p, c) ==
    /\ SetPeers([peers EXCEPT ![p] = [Entry(p) EXCEPT
           !.connections = @ \cup {c}, !.left = FALSE]])
    /\ announced' = [announced EXCEPT ![p] = @ + Announced(p)]
    /\ keepAliveEvents' = keepAliveEvents \cup KeepAliveOfNew(p, c)
    /\ UNCHANGED protectCounter

\* on_peer_disconnected unprotects the peer; bootnodes keep their tag.
UnprotectedTags(p) == peers[p].protected \cap {FullTag, ArchivalTag}

\* remove_connection and what follows from it.  A peer that is not connected has no
\* connection whose keep-alive unprotect could change.
OnPeerDisconnected(p, c) ==
    /\ IF ~peers[p].known THEN UNCHANGED trackerVars
       ELSE LET rest == peers[p].connections \ {c}
                entry == [peers[p] EXCEPT !.connections = rest, !.pinged = @ \ {c}]
                gone == UnprotectedTags(p)
            IN  IF rest # {}
                THEN SetPeers([peers EXCEPT ![p] = entry]) /\ UNCHANGED <<protectCounter, announced>>
                ELSE /\ SetPeers([peers EXCEPT ![p] = [entry EXCEPT
                            !.full = FALSE, !.archival = FALSE, !.left = TRUE,
                            !.protected = @ \ gone]])
                     /\ protectCounter' =
                            [t \in Tags |-> protectCounter[t] - (IF t \in gone THEN 1 ELSE 0)]
                     /\ announced' = [announced EXCEPT ![p] = @ - 1]
    /\ UNCHANGED keepAliveEvents

OnSwarmEvent ==
    /\ phase = "running" /\ swarmEvents # <<>>
    /\ LET ev == Head(swarmEvents)
       IN  IF ev.type = "established" THEN OnPeerConnected(ev.peer, ev.conn)
           ELSE OnPeerDisconnected(ev.peer, ev.conn)
    /\ swarmEvents' = Tail(swarmEvents)
    /\ UNCHANGED <<open, keepAlive, dialing, blocked, phase, closed>>

\* on_agent_version
OnAgentVersion(p) == SetPeers([peers EXCEPT ![p].full = p \in FullNodes])

\* An identify message of a connected peer.
OnIdentify(p) ==
    /\ phase = "running" /\ IsConnected(p) /\ open[p] # {}
    /\ OnAgentVersion(p)
    /\ UNCHANGED <<protectCounter, announced, swarmVars, keepAlive, keepAliveEvents, phase>>

\* A ping that failed forgets the latency, and close_connection follows.
OnPing(p, c) ==
    /\ phase = "running" /\ c \in peers[p].connections
    /\ \/ /\ SetPeers([peers EXCEPT ![p].pinged = @ \cup {c}])
          /\ UNCHANGED <<swarmVars, keepAlive, keepAliveEvents>>
       \/ /\ closed < MaxClosed /\ Len(swarmEvents) < MaxUnread
          /\ SetPeers([peers EXCEPT ![p].pinged = @ \ {c}])
          /\ CloseNow(p, c) /\ closed' = closed + 1 /\ UNCHANGED <<dialing, blocked>>
    /\ UNCHANGED <<protectCounter, announced, phase>>

\* FoundProviders of the archival topic.  The peers that are found, for this topic and for
\* that of full nodes, are dialled until enough are protected; Establish is that dial.
OnProvider(p) ==
    /\ phase = "running" /\ p \in ArchivalNodes
    /\ SetPeers([peers EXCEPT ![p] = [Entry(p) EXCEPT !.archival = TRUE]])
    /\ UNCHANGED <<protectCounter, announced, swarmVars, keepAlive, keepAliveEvents, phase>>

-----------------------------------------------------------------------------
(* Intervals                                                               *)

\* Mutation: a peer that is protected for any reason is passed over.
CandidatesUnprotected(tag) ==
    {p \in Peers : /\ IF tag = FullTag THEN peers[p].full ELSE peers[p].archival
                   /\ peers[p].pinged # {} /\ ~IsProtected(p)}

\* protect_best_peers: who can be protected for a reason.  As many of them are as there is
\* room for; which have the lowest latency is left open.
Candidates(tag) ==
    {p \in Peers : /\ IF tag = FullTag THEN peers[p].full ELSE peers[p].archival
                   /\ peers[p].pinged # {} /\ tag \notin peers[p].protected}

\* Mutation: the limit counts the peers that are added, not all of them.
RoomOfLimit(tag) == ProtectLimit

Room(tag) == ProtectLimit - protectCounter[tag]

Best(tag) ==
    {s \in SUBSET Candidates(tag) :
        Cardinality(s) = Min({Cardinality(Candidates(tag)), Room(tag)})}

\* peer_health_check, on an interval and whenever the statistics change.
PeerHealthCheck ==
    /\ phase = "running"
    /\ \E full \in Best(FullTag), archival \in Best(ArchivalTag) :
          LET tagsOf(p) == (IF p \in full THEN {FullTag} ELSE {})
                           \cup (IF p \in archival THEN {ArchivalTag} ELSE {})
              counter == [t \in Tags |-> protectCounter[t]
                             + Cardinality({p \in Peers : t \in tagsOf(p)})]
          IN  /\ peers' = [p \in Peers |-> [peers[p] EXCEPT !.protected = @ \cup tagsOf(p)]]
              /\ protectCounter' = counter
              /\ SetKeepAlive({p \in full \cup archival : ~IsProtected(p)}, TRUE)
              /\ dialing' = IF info.connected = 0 THEN dialing \cup Dialable(Bootnodes) ELSE dialing
    /\ UNCHANGED <<info, announced, open, keepAlive, swarmEvents, blocked, phase, closed>>

\* What gc keeps, whatever the time of disconnection.
KeptByGc(p) == IsConnected(p) \/ IsProtected(p)

\* gc: a peer that has been disconnected for EXPIRED_AFTER is forgotten, one that was
\* never connected is not.
Gc ==
    /\ phase = "running"
    /\ \E expired \in SUBSET {p \in Peers : ~KeptByGc(p) /\ peers[p].left} :
          peers' = [p \in Peers |-> IF p \in expired THEN Unknown ELSE peers[p]]
    /\ UNCHANGED <<protectCounter, info, announced, swarmVars, keepAlive, keepAliveEvents, phase>>

-----------------------------------------------------------------------------
(* Calls of the p2p worker                                                 *)

SetPeerTrust(p, isTrusted) ==
    /\ phase = "running"
    /\ SetPeers([peers EXCEPT ![p] = [Entry(p) EXCEPT !.trusted = isTrusted]])
    /\ UNCHANGED <<protectCounter, announced, swarmVars, keepAlive, keepAliveEvents, phase>>

PeerMaybeDiscovered(p) ==
    /\ phase = "running"
    /\ peers' = [peers EXCEPT ![p] = Entry(p)]
    /\ UNCHANGED <<protectCounter, info, announced, swarmVars, keepAlive,
                   keepAliveEvents, phase>>

\* The block list closes the connections of the peer and refuses new ones.
BlacklistPeer(p) ==
    /\ phase = "running"
    /\ blocked' = blocked \cup {p}
    /\ dialing' = dialing \ {p}
    /\ UNCHANGED <<trackerVars, open, keepAlive, keepAliveEvents, swarmEvents, phase, closed>>

\* NeedTrustedPeers
ConnectToBootnodes ==
    /\ phase = "running"
    /\ dialing' = dialing \cup Dialable(Bootnodes)
    /\ UNCHANGED <<trackerVars, open, keepAlive, keepAliveEvents, swarmEvents, blocked,
                   phase, closed>>

-----------------------------------------------------------------------------
(* Stopping                                                                *)

\* stop: from here the loop of stop polls the swarm, and nothing else runs.
Stop ==
    /\ phase = "running"
    /\ phase' = "stopping"
    /\ dialing' = {}
    /\ UNCHANGED <<trackerVars, open, keepAlive, keepAliveEvents, swarmEvents, blocked, closed>>

\* Mutation: a connection that is established late is left alone.
ToCloseTracked(p) == peers[p].connections

\* The connections stop closes: those of the tracker, and those it hears of.
ToClose(p) ==
    peers[p].connections
    \cup {c \in open[p] : \A i \in 1..Len(swarmEvents) :
              swarmEvents[i] # [type |-> "established", peer |-> p, conn |-> c]}

CloseOnStop(p, c) ==
    /\ phase = "stopping" /\ c \in ToClose(p)
    /\ CloseNow(p, c)
    /\ UNCHANGED <<trackerVars, dialing, blocked, phase, closed>>

OnSwarmEventStopping ==
    /\ phase = "stopping" /\ swarmEvents # <<>>
    /\ LET ev == Head(swarmEvents)
       IN  IF ev.type = "closed" THEN OnPeerDisconnected(ev.peer, ev.conn)
           ELSE UNCHANGED <<trackerVars, keepAliveEvents>>
    /\ swarmEvents' = Tail(swarmEvents)
    /\ UNCHANGED <<open, keepAlive, dialing, blocked, phase, closed>>

\* num_established() is zero.
Stopped ==
    /\ phase = "stopping" /\ \A p \in Peers : open[p] = {}
    /\ phase' = "stopped"
    /\ UNCHANGED <<trackerVars, swarmVars, keepAlive, keepAliveEvents>>

-----------------------------------------------------------------------------

\* SwarmManager::new: bootnodes are trusted and protected, and dialled.
PeersInit ==
    /\ peers = [p \in Peers |-> IF p \in Bootnodes
                   THEN [NewPeer EXCEPT !.trusted = TRUE, !.protected = {BootnodeTag}] ELSE Unknown]
    /\ protectCounter = [t \in Tags |-> IF t = BootnodeTag THEN Cardinality(Bootnodes) ELSE 0]
    /\ info = [connected |-> 0, trusted |-> 0, full |-> 0, archival |-> 0]
    /\ announced = [p \in Peers |-> 0]
    /\ open = [p \in Peers |-> {}] /\ keepAlive = [p \in Peers |-> {}] /\ keepAliveEvents = {}
    /\ swarmEvents = <<>>
    /\ dialing = Bootnodes
    /\ blocked = {}
    /\ phase = "running"
    /\ closed = 0

Manager == OnSwarmEvent \/ PeerHealthCheck \/ Gc \/ OnSwarmEventStopping \/ Stop \/ Stopped

PeersNext ==
    \/ Manager \/ DeliverKeepAlive \/ ConnectToBootnodes
    \/ \E p \in Named :
          \/ PeerMaybeDiscovered(p) \/ BlacklistPeer(p)
          \/ \E b \in BOOLEAN : SetPeerTrust(p, b)
    \/ \E p \in Peers :
          \/ DialFails(p) \/ OnIdentify(p) \/ OnProvider(p)
          \/ \E c \in Conns[p] : Establish(p, c) \/ Close(p, c) \/ OnPing(p, c) \/ CloseOnStop(p, c)

\* The worker polls the swarm, whose last connection ends stop, and a swarm that was asked
\* to close a connection closes it.
PollSwarm ==
    \/ OnSwarmEvent \/ OnSwarmEventStopping \/ Stopped
    \/ \E p \in Peers : \E c \in Conns[p] : CloseOnStop(p, c)

-----------------------------------------------------------------------------

\* protect_counter counts the peers that carry each tag, however protection, disconnection
\* and garbage collection interleave, and never more than the limit: unprotect expects the
\* count, and the health check subtracts it from the limit.  Only connected peers take a
\* place among the protected ones, and bootnodes are never forgotten.
CountersAgree ==
    /\ \A t \in Tags : protectCounter[t] = Cardinality({p \in Peers : t \in peers[p].protected})
    /\ \A t \in {FullTag, ArchivalTag} : protectCounter[t] <= ProtectLimit
    /\ \A p \in Peers \ Connected : peers[p].protected \subseteq {BootnodeTag}
    /\ \A p \in Bootnodes : BootnodeTag \in peers[p].protected

\* The statistics in the watch channel, on which workers start and stop, are those of the
\* peers, and a subscriber that follows PeerConnected and PeerDisconnected knows which
\* peers are connected, however many connections each of them has.
PeersAreReported ==
    /\ info = Recount(peers)
    /\ phase = "running" => \A p \in Peers : announced[p] = IF IsConnected(p) THEN 1 ELSE 0

\* Once every handler has been told, exactly the connections of protected peers are kept
\* alive when idle.
KeepAliveAgrees ==
    phase = "running" =>
        \A p \in Peers : \A c \in peers[p].connections \cap open[p] :
            (\A e \in keepAliveEvents : e.peer # p \/ e.conn # c)
                => ((c \in keepAlive[p]) <=> IsProtected(p))

\* "another node must be choosen to be protected": a gap among the protected full nodes is
\* filled when a full node with known latency is connected.
GapsAreFilled ==
    []<>(\/ phase # "running"
         \/ Cardinality({p \in Connected : FullTag \in peers[p].protected}) = ProtectLimit
         \/ \A p \in Connected : peers[p].full /\ peers[p].pinged # {} => FullTag \in peers[p].protected)

\* A node without peers does not stay alone: it keeps dialling its bootnodes.
NeverIsolated ==
    []<>(\/ phase # "running" \/ Connected # {}
         \/ \E p \in Bootnodes : p \in dialing \cup blocked \/ open[p] # {})

\* Stopping ends, with every connection closed, even when connections are established
\* while it begins.
StopEnds == []<>(phase # "stopping")

-----------------------------------------------------------------------------
(* The inductive invariants of the proofs.                                 *)

SwarmEvent == [type : {"established", "closed"}, peer : Peers, conn : AllConns]
Established(p, c) == [type |-> "established", peer |-> p, conn |-> c]
Closed(p, c) == [type |-> "closed", peer |-> p, conn |-> c]

\* The tracker knows the connections of the swarm but for the events that wait: a
\* connection is established before it is closed, each once, and only the connections
\* of the tracker are closed otherwise.
InStep(events, tracked, opened) ==
    /\ \A i, j \in 1..Len(events) : events[i] = events[j] => i = j
    /\ \A i \in 1..Len(events) : \A p \in Peers : \A c \in AllConns :
          /\ events[i] = Established(p, c) => c \notin tracked[p]
          /\ events[i] = Closed(p, c) =>
                /\ c \notin opened[p]
                /\ c \in tracked[p] \/ \E j \in 1..(i - 1) : events[j] = Established(p, c)
    /\ \A p \in Peers : \A c \in opened[p] :
          c \in tracked[p] \/ \E i \in 1..Len(events) : events[i] = Established(p, c)

Tracked == [p \in Peers |-> peers[p].connections]

\* Handlers are only told to keep connections alive, those that are open are of
\* protected peers, and what is kept alive is open and known to the tracker.
ToldOfProtected ==
    \A e \in keepAliveEvents :
        e.conn \in open[e.peer] => e.conn \in peers[e.peer].connections /\ IsProtected(e.peer)
KeptAreTracked == \A p \in Peers : keepAlive[p] \subseteq open[p] \cap peers[p].connections

TrackerInv ==
    /\ PeersTypeOK
    /\ swarmEvents \in Seq(SwarmEvent)
    /\ keepAliveEvents \subseteq [peer : Peers, conn : AllConns, value : {TRUE}]
    /\ \A p \in Peers : peers[p].pinged \subseteq peers[p].connections
    /\ CountersAgree /\ PeersAreReported
    /\ phase = "running" =>
          /\ InStep(swarmEvents, Tracked, open)
          /\ ToldOfProtected /\ KeptAreTracked /\ KeepAliveAgrees
=============================================================================
