---------------------------- MODULE PeersProofs ----------------------------
(***************************************************************************)
(* Proofs about the peers of the node: the tracker stays in step with the  *)
(* swarm, and what it counts and reports is so, in every step of Peers.    *)
(* NetworkProofs adds the steps of shrex, which share its state.           *)
(***************************************************************************)
EXTENDS Peers, FiniteSetTheorems, TLAPS

-----------------------------------------------------------------------------
(* The events of the swarm                                                 *)

LEMMA EventsDiffer ==
    ASSUME NEW p, NEW c, NEW q, NEW d
    PROVE  /\ Established(p, c) = Established(q, d) => p = q /\ c = d
           /\ Closed(p, c) = Closed(q, d) => p = q /\ c = d
           /\ Established(p, c) # Closed(q, d)
  BY DEF Established, Closed

LEMMA AppendFacts ==
    ASSUME NEW S, NEW s \in Seq(S), NEW e \in S
    PROVE  /\ Append(s, e) \in Seq(S) /\ Len(s) \in Nat /\ Len(Append(s, e)) = Len(s) + 1
           /\ \A i \in 1..Len(s) : Append(s, e)[i] = s[i]
           /\ Append(s, e)[Len(s) + 1] = e
  OBVIOUS

LEMMA TailFacts ==
    ASSUME NEW S, NEW s \in Seq(S), s # <<>>
    PROVE  /\ Head(s) \in S /\ Head(s) = s[1] /\ Tail(s) \in Seq(S)
           /\ Len(s) \in Nat \ {0} /\ Len(Tail(s)) = Len(s) - 1
           /\ \A i \in 1..(Len(s) - 1) : Tail(s)[i] = s[i + 1]
  OBVIOUS

\* A connection is established and its event waits.
LEMMA InStepEstablish ==
    ASSUME NEW s \in Seq(SwarmEvent), NEW tr, NEW op \in [Peers -> SUBSET AllConns],
           InStep(s, tr, op), NEW p \in Peers, NEW c \in AllConns, c \notin tr[p],
           \A i \in 1..Len(s) : s[i] # Established(p, c) /\ s[i] # Closed(p, c)
    PROVE  InStep(Append(s, Established(p, c)), tr, [op EXCEPT ![p] = @ \cup {c}])
<1> DEFINE n == Len(s)
           t == Append(s, Established(p, c))
           o == [op EXCEPT ![p] = @ \cup {c}]
<1>0. Established(p, c) \in SwarmEvent
  BY DEF Established, SwarmEvent
<1>1. n \in Nat /\ Len(t) = n + 1 /\ t[n + 1] = Established(p, c) /\ \A i \in 1..n : t[i] = s[i]
  BY <1>0, AppendFacts
<1>2. \A q \in Peers : op[q] \subseteq o[q] /\ \A d \in o[q] : d \in op[q] \/ (q = p /\ d = c)
  OBVIOUS
<1> HIDE DEF n, t, o
<1>3. /\ \A i, j \in 1..n : s[i] = s[j] => i = j
      /\ \A i \in 1..n : \A q \in Peers : \A d \in AllConns :
            /\ s[i] = Established(q, d) => d \notin tr[q]
            /\ s[i] = Closed(q, d) =>
                  /\ d \notin op[q]
                  /\ d \in tr[q] \/ \E j \in 1..(i - 1) : s[j] = Established(q, d)
      /\ \A q \in Peers : \A d \in op[q] :
            d \in tr[q] \/ \E i \in 1..n : s[i] = Established(q, d)
      /\ \A i \in 1..n : s[i] # Established(p, c) /\ s[i] # Closed(p, c)
  BY DEF InStep, n
<1>4. /\ n + 1 \in 1..(n + 1) /\ 1..n \subseteq 1..(n + 1)
      /\ \A i \in 1..(n + 1) : i \in 1..n \/ i = n + 1
  BY <1>1
<1>5. \A i, j \in 1..(n + 1) : t[i] = t[j] => i = j
  BY <1>1, <1>3, <1>4
<1>6. ASSUME NEW i \in 1..(n + 1), NEW q \in Peers, NEW d \in AllConns
      PROVE  /\ t[i] = Established(q, d) => d \notin tr[q]
             /\ t[i] = Closed(q, d) =>
                   /\ d \notin o[q]
                   /\ d \in tr[q] \/ \E j \in 1..(i - 1) : t[j] = Established(q, d)
  <2>1. CASE i = n + 1
    BY <1>1, <2>1, EventsDiffer
  <2>2. CASE i \in 1..n
    <3>1. t[i] = s[i]
      BY <1>1, <2>2
    <3>2. \A j \in 1..(i - 1) : t[j] = s[j]
      <4>1. 1..(i - 1) \subseteq 1..n
        BY <1>1, <2>2
      <4> QED
        BY <1>1, <4>1
    <3>3. s[i] = Closed(q, d) => d \notin o[q]
      BY <1>2, <1>3, <2>2
    <3> QED
      BY <1>3, <2>2, <3>1, <3>2, <3>3
  <2> QED
    BY <1>4, <2>1, <2>2
<1>7. ASSUME NEW q \in Peers, NEW d \in o[q]
      PROVE  d \in tr[q] \/ \E i \in 1..(n + 1) : t[i] = Established(q, d)
  <2>1. CASE d \in op[q]
    BY <1>1, <1>3, <1>4, <2>1
  <2>2. CASE q = p /\ d = c
    BY <1>1, <1>4, <2>2
  <2> QED
    BY <1>2, <2>1, <2>2
<1>8. InStep(t, tr, o)
  BY <1>1, <1>5, <1>6, <1>7 DEF InStep
<1> QED
  BY <1>8 DEF t, o

\* A connection is closed and its event waits.
LEMMA InStepClose ==
    ASSUME NEW s \in Seq(SwarmEvent), NEW tr, NEW op \in [Peers -> SUBSET AllConns],
           InStep(s, tr, op), NEW p \in Peers, NEW c \in op[p]
    PROVE  InStep(Append(s, Closed(p, c)), tr, [op EXCEPT ![p] = @ \ {c}])
<1> DEFINE n == Len(s)
           t == Append(s, Closed(p, c))
           o == [op EXCEPT ![p] = @ \ {c}]
<1>0. Closed(p, c) \in SwarmEvent /\ c \in AllConns
  BY DEF Closed, SwarmEvent
<1>1. n \in Nat /\ Len(t) = n + 1 /\ t[n + 1] = Closed(p, c) /\ \A i \in 1..n : t[i] = s[i]
  BY <1>0, AppendFacts
<1>2. c \notin o[p] /\ \A q \in Peers : o[q] \subseteq op[q]
  OBVIOUS
<1> HIDE DEF n, t, o
<1>3. /\ \A i, j \in 1..n : s[i] = s[j] => i = j
      /\ \A i \in 1..n : \A q \in Peers : \A d \in AllConns :
            /\ s[i] = Established(q, d) => d \notin tr[q]
            /\ s[i] = Closed(q, d) =>
                  /\ d \notin op[q]
                  /\ d \in tr[q] \/ \E j \in 1..(i - 1) : s[j] = Established(q, d)
      /\ \A q \in Peers : \A d \in op[q] :
            d \in tr[q] \/ \E i \in 1..n : s[i] = Established(q, d)
  BY DEF InStep, n
<1>3a. \A i \in 1..n : s[i] # Closed(p, c)
  BY <1>0, <1>3
<1>4. /\ n + 1 \in 1..(n + 1) /\ 1..n \subseteq 1..(n + 1) /\ (n + 1) - 1 = n
      /\ \A i \in 1..(n + 1) : i \in 1..n \/ i = n + 1
  BY <1>1
<1>5. \A i, j \in 1..(n + 1) : t[i] = t[j] => i = j
  BY <1>1, <1>3, <1>3a, <1>4
<1>6. ASSUME NEW i \in 1..(n + 1), NEW q \in Peers, NEW d \in AllConns
      PROVE  /\ t[i] = Established(q, d) => d \notin tr[q]
             /\ t[i] = Closed(q, d) =>
                   /\ d \notin o[q]
                   /\ d \in tr[q] \/ \E j \in 1..(i - 1) : t[j] = Established(q, d)
  <2>1. CASE i = n + 1
    <3>1. t[i] = Closed(p, c)
      BY <1>1, <2>1
    <3>2. c \in tr[p] \/ \E j \in 1..n : s[j] = Established(p, c)
      BY <1>3
    <3>3. c \in tr[p] \/ \E j \in 1..(i - 1) : t[j] = Established(p, c)
      BY <1>1, <1>4, <2>1, <3>2
    <3> QED
      BY <1>2, <3>1, <3>3, EventsDiffer
  <2>2. CASE i \in 1..n
    <3>1. t[i] = s[i]
      BY <1>1, <2>2
    <3>2. \A j \in 1..(i - 1) : t[j] = s[j]
      <4>1. 1..(i - 1) \subseteq 1..n
        BY <1>1, <2>2
      <4> QED
        BY <1>1, <4>1
    <3>3. s[i] = Closed(q, d) => d \notin o[q]
      BY <1>2, <1>3, <2>2
    <3> QED
      BY <1>3, <2>2, <3>1, <3>2, <3>3
  <2> QED
    BY <1>4, <2>1, <2>2
<1>7. ASSUME NEW q \in Peers, NEW d \in o[q]
      PROVE  d \in tr[q] \/ \E i \in 1..(n + 1) : t[i] = Established(q, d)
  <2>1. d \in op[q]
    BY <1>2, <1>7
  <2> QED
    BY <1>1, <1>3, <1>4, <2>1
<1>8. InStep(t, tr, o)
  BY <1>1, <1>5, <1>6, <1>7 DEF InStep
<1> QED
  BY <1>8 DEF t, o

\* The tracker hears of the first event: the connection that is added or removed.
LEMMA InStepHeard ==
    ASSUME NEW s \in Seq(SwarmEvent), s # <<>>, NEW tr, NEW op \in [Peers -> SUBSET AllConns],
           InStep(s, tr, op), NEW p \in Peers, NEW c \in AllConns, NEW ts,
           \A q \in Peers : \A d : ~(q = p /\ d = c) => (d \in ts[q] <=> d \in tr[q]),
           \/ Head(s) = Established(p, c) /\ c \in ts[p]
           \/ Head(s) = Closed(p, c) /\ c \notin ts[p]
    PROVE  InStep(Tail(s), ts, op)
<1> DEFINE n == Len(s)
           t == Tail(s)
<1>1. /\ n \in Nat \ {0} /\ Len(t) = n - 1 /\ Head(s) = s[1]
      /\ \A i \in 1..(n - 1) : t[i] = s[i + 1]
  BY TailFacts
<1> HIDE DEF n, t
<1>2. s[1] \in {Established(p, c), Closed(p, c)}
  BY <1>1
<1>2a. ASSUME NEW q, NEW d, s[1] = Established(q, d) PROVE q = p /\ d = c
  BY <1>2, <1>2a, EventsDiffer
<1>3. /\ \A i, j \in 1..n : s[i] = s[j] => i = j
      /\ \A i \in 1..n : \A q \in Peers : \A d \in AllConns :
            /\ s[i] = Established(q, d) => d \notin tr[q]
            /\ s[i] = Closed(q, d) =>
                  /\ d \notin op[q]
                  /\ d \in tr[q] \/ \E j \in 1..(i - 1) : s[j] = Established(q, d)
      /\ \A q \in Peers : \A d \in op[q] :
            d \in tr[q] \/ \E i \in 1..n : s[i] = Established(q, d)
  BY DEF InStep, n
<1>4. 1 \in 1..n /\ \A i \in 1..(n - 1) : i + 1 \in 1..n /\ i + 1 # 1
  BY <1>1
<1>4a. \A i \in 1..n : i = 1 \/ (i - 1 \in 1..(n - 1) /\ (i - 1) + 1 = i)
  BY <1>1
<1>5. \A i, j \in 1..(n - 1) : t[i] = t[j] => i = j
  <2> SUFFICES ASSUME NEW i \in 1..(n - 1), NEW j \in 1..(n - 1), t[i] = t[j] PROVE i = j
    OBVIOUS
  <2>1. i + 1 = j + 1
    BY <1>1, <1>3, <1>4
  <2> QED
    BY <1>1, <2>1
<1>6. ASSUME NEW i \in 1..(n - 1), NEW q \in Peers, NEW d \in AllConns
      PROVE  /\ t[i] = Established(q, d) => d \notin ts[q]
             /\ t[i] = Closed(q, d) =>
                   /\ d \notin op[q]
                   /\ d \in ts[q] \/ \E j \in 1..(i - 1) : t[j] = Established(q, d)
  <2>1. t[i] = s[i + 1] /\ i + 1 \in 1..n /\ i + 1 # 1 /\ (i + 1) - 1 = i
    BY <1>1, <1>4
  <2>2. s[i + 1] # s[1]
    BY <1>3, <1>4, <2>1
  <2>2a. /\ t[i] = Established(q, d) => d \notin tr[q]
         /\ t[i] = Closed(q, d) =>
               d \notin op[q] /\ (d \in tr[q] \/ \E j \in 1..i : s[j] = Established(q, d))
    <3>1. PICK k \in 1..n : k = i + 1
      BY <2>1
    <3>2. /\ s[k] = Established(q, d) => d \notin tr[q]
          /\ s[k] = Closed(q, d) =>
                d \notin op[q] /\ (d \in tr[q] \/ \E j \in 1..(k - 1) : s[j] = Established(q, d))
      BY <1>3
    <3> QED
      BY <2>1, <3>1, <3>2
  <2>3. ASSUME t[i] = Established(q, d) PROVE d \notin ts[q]
    <3>1. d \notin tr[q]
      BY <2>2a, <2>3
    <3>2. ~(q = p /\ d = c) \/ Head(s) = Closed(p, c)
      BY <1>1, <2>1, <2>2, <2>3
    <3> QED
      BY <3>1, <3>2, EventsDiffer
  <2>4. ASSUME t[i] = Closed(q, d)
        PROVE  d \in ts[q] \/ \E j \in 1..(i - 1) : t[j] = Established(q, d)
    <3>1. CASE q = p /\ d = c
      BY <1>1, <2>1, <2>2, <2>4, <3>1
    <3>2. CASE ~(q = p /\ d = c)
      <4>1. CASE d \in tr[q]
        BY <3>2, <4>1
      <4>2. CASE d \notin tr[q]
        <5>1. PICK j \in 1..i : s[j] = Established(q, d)
          BY <2>2a, <2>4, <4>2
        <5>2. j # 1
          BY <1>2a, <3>2, <5>1
        <5>3. j - 1 \in 1..(i - 1) /\ j - 1 \in 1..(n - 1) /\ (j - 1) + 1 = j
          BY <1>1, <5>2
        <5>4. t[j - 1] = Established(q, d)
          BY <1>1, <5>1, <5>3
        <5> QED
          BY <5>3, <5>4
      <4> QED
        BY <4>1, <4>2
    <3> QED
      BY <3>1, <3>2
  <2>5. t[i] = Closed(q, d) => d \notin op[q]
    BY <2>2a
  <2> QED
    BY <2>3, <2>4, <2>5
<1>7. ASSUME NEW q \in Peers, NEW d \in op[q]
      PROVE  d \in ts[q] \/ \E i \in 1..(n - 1) : t[i] = Established(q, d)
  <2>1. CASE q = p /\ d = c
    <3>1. CASE Head(s) = Established(p, c) /\ c \in ts[p]
      BY <2>1, <3>1
    <3>2. CASE Head(s) = Closed(p, c)
      BY <1>1, <1>3, <1>4, <2>1, <3>2
    <3> QED
      BY <3>1, <3>2
  <2>2. CASE ~(q = p /\ d = c)
    <3>1. CASE d \in tr[q]
      BY <2>2, <3>1
    <3>2. CASE d \notin tr[q]
      <4>1. PICK i \in 1..n : s[i] = Established(q, d)
        BY <1>3, <3>2
      <4>2. i # 1
        BY <1>2a, <2>2, <4>1
      <4>3. i - 1 \in 1..(n - 1) /\ (i - 1) + 1 = i
        BY <1>4a, <4>2
      <4>4. t[i - 1] = Established(q, d)
        BY <1>1, <4>1, <4>3
      <4> QED
        BY <4>3, <4>4
    <3> QED
      BY <3>1, <3>2
  <2> QED
    BY <2>1, <2>2
<1>8. InStep(t, ts, op)
  BY <1>1, <1>5, <1>6, <1>7 DEF InStep
<1> QED
  BY <1>8 DEF t

-----------------------------------------------------------------------------
(* The entries of the peers                                                *)

\* A table of peers: what is not known has no entry.
TableOK(ps) ==
    /\ ps \in [Peers -> PeerEntry]
    /\ \A p \in Peers : ~ps[p].known => ps[p] = Unknown

\* The rest of PeersTypeOK.
OthersOK ==
    /\ protectCounter \in [Tags -> 0..Cardinality(Peers)]
    /\ announced \in [Peers -> Int]
    /\ open \in [Peers -> SUBSET AllConns] /\ keepAlive \in [Peers -> SUBSET AllConns]
    /\ dialing \subseteq Peers /\ blocked \subseteq Peers
    /\ phase \in {"running", "stopping", "stopped"}

\* What is in step after the step, from how the step leaves the three.
LEMMA InStepNext ==
    ASSUME NEW s, NEW tr, NEW op, InStep(s, tr, op),
           swarmEvents' = s, Tracked' = tr, open' = op
    PROVE  InStep(swarmEvents, Tracked, open)'
<1>1. InStep(swarmEvents', Tracked', open')
  BY Zenon
<1> QED
  BY <1>1, Zenon DEF InStep

LEMMA TypeParts == PeersTypeOK <=> TableOK(peers) /\ OthersOK
  BY DEF PeersTypeOK, TableOK, OthersOK

LEMMA NextTypeParts == PeersTypeOK' <=> TableOK(peers') /\ OthersOK'
  BY DEF PeersTypeOK, TableOK, OthersOK

LEMMA NewPeerFacts ==
    /\ NewPeer \in PeerEntry /\ Unknown \in PeerEntry /\ NewPeer.known /\ ~Unknown.known
    /\ \A e \in {NewPeer, Unknown} :
          /\ e.connections = {} /\ e.pinged = {} /\ e.protected = {}
          /\ e.trusted = FALSE /\ e.full = FALSE /\ e.archival = FALSE /\ e.left = FALSE
<1>1. NewPeer \in PeerEntry /\ NewPeer.known
  BY DEF NewPeer, PeerEntry
<1>2. Unknown \in PeerEntry /\ ~Unknown.known
  BY Zenon DEF NewPeer, Unknown, PeerEntry
<1> QED
  BY <1>1, <1>2 DEF NewPeer, Unknown

\* Making the entry of a peer changes nothing that counts.
LEMMA EntryFacts ==
    ASSUME TableOK(peers), NEW p \in Peers
    PROVE  /\ Entry(p) \in PeerEntry /\ Entry(p).known
           /\ Entry(p).connections = peers[p].connections /\ Entry(p).pinged = peers[p].pinged
           /\ Entry(p).protected = peers[p].protected /\ Entry(p).trusted = peers[p].trusted
           /\ Entry(p).full = peers[p].full /\ Entry(p).archival = peers[p].archival
<1>1. CASE peers[p].known
  BY <1>1 DEF Entry, TableOK
<1>2. CASE ~peers[p].known
  <2>1. Entry(p) = NewPeer /\ peers[p] = Unknown
    BY <1>2 DEF Entry, TableOK
  <2> QED
    BY <2>1, NewPeerFacts, Zenon
<1> QED
  BY <1>1, <1>2

LEMMA MemberIsBoolean ==
    ASSUME NEW x, NEW S
    PROVE  \E b \in BOOLEAN : b = (x \in S)
<1>1. CASE x \in S
  BY <1>1, Zenon
<1>2. CASE x \notin S
  <2>1. (x \in S) = FALSE
    BY <1>2
  <2> WITNESS FALSE \in BOOLEAN
  <2> QED
    BY <2>1, Zenon
<1> QED
  BY <1>1, <1>2

\* What is connected is known.
LEMMA ConnectedIsKnown ==
    ASSUME TableOK(peers), NEW p \in Peers, peers[p].connections # {}
    PROVE  peers[p].known
  BY NewPeerFacts DEF TableOK

\* One entry is replaced by a known one.
LEMMA TableUpdated ==
    ASSUME TableOK(peers), NEW p \in Peers, NEW e \in PeerEntry, e.known
    PROVE  TableOK([peers EXCEPT ![p] = e])
  BY DEF TableOK

\* Two tables with the same connected peers have the same statistics.
SameShown(ps, qs) ==
    \A p \in Peers :
        /\ ps[p].connections # {} <=> qs[p].connections # {}
        /\ ps[p].connections # {} => /\ ps[p].trusted = qs[p].trusted
                                     /\ ps[p].full = qs[p].full
                                     /\ ps[p].archival = qs[p].archival

LEMMA RecountSame ==
    ASSUME NEW ps, NEW qs, SameShown(ps, qs)
    PROVE  Recount(ps) = Recount(qs)
<1> DEFINE C(t) == {p \in Peers : t[p].connections # {}}
<1>1. C(ps) = C(qs)
  BY DEF SameShown
<1>2. {p \in C(ps) : ps[p].trusted} = {p \in C(qs) : qs[p].trusted}
  BY DEF SameShown
<1>3. {p \in C(ps) : ps[p].full} = {p \in C(qs) : qs[p].full}
  BY DEF SameShown
<1>4. {p \in C(ps) : ps[p].archival} = {p \in C(qs) : qs[p].archival}
  BY DEF SameShown
<1>5. \A t : Recount(t) = [connected |-> Cardinality(C(t)),
                          trusted |-> Cardinality({p \in C(t) : t[p].trusted}),
                          full |-> Cardinality({p \in C(t) : t[p].full}),
                          archival |-> Cardinality({p \in C(t) : t[p].archival})]
  BY DEF Recount
<1> HIDE DEF C
<1> QED
  BY <1>1, <1>2, <1>3, <1>4, <1>5, Zenon

-----------------------------------------------------------------------------
(* Steps that leave connections and protection as they are                 *)

SameStanding ==
    \A p \in Peers :
        /\ peers'[p].connections = peers[p].connections
        /\ peers'[p].protected = peers[p].protected
        /\ peers'[p].pinged \subseteq peers[p].connections

\* The connected peers and the protected ones stay the same.
LEMMA StandingFacts ==
    ASSUME SameStanding
    PROVE  /\ \A p \in Peers : /\ peers'[p].connections = peers[p].connections
                              /\ peers'[p].protected = peers[p].protected
                              /\ peers'[p].pinged \subseteq peers'[p].connections
           /\ Tracked' = Tracked /\ Connected' = Connected
           /\ \A p \in Peers : IsConnected(p)' = IsConnected(p) /\ IsProtected(p)' = IsProtected(p)
<1>0. \A p \in Peers : /\ peers'[p].connections = peers[p].connections
                       /\ peers'[p].protected = peers[p].protected
                       /\ peers'[p].pinged \subseteq peers'[p].connections
  BY DEF SameStanding
<1>1. Tracked' = Tracked
  BY <1>0 DEF Tracked
<1>2. \A p \in Peers : IsConnected(p)' = IsConnected(p) /\ IsProtected(p)' = IsProtected(p)
  BY <1>0 DEF IsConnected, IsProtected
<1>3. Connected' = Connected
  BY <1>2 DEF Connected
<1> QED
  BY <1>0, <1>1, <1>2, <1>3

\* What the tracker counts stays right.
LEMMA CountsKept ==
    ASSUME TrackerInv, SameStanding, info' = Recount(peers'), UNCHANGED <<protectCounter, announced>>,
           phase' = "running" => phase = "running"
    PROVE  CountersAgree' /\ PeersAreReported'
<1>0. \A p \in Peers : peers'[p].protected = peers[p].protected
  BY StandingFacts
<1>1. Connected' = Connected /\ \A p \in Peers : IsConnected(p)' = IsConnected(p)
  BY StandingFacts
<1>2. CountersAgree'
  <2>1. \A t \in Tags : {p \in Peers : t \in peers'[p].protected} = {p \in Peers : t \in peers[p].protected}
    BY <1>0
  <2>2. /\ \A t \in Tags : protectCounter[t] = Cardinality({p \in Peers : t \in peers[p].protected})
        /\ \A t \in {FullTag, ArchivalTag} : protectCounter[t] <= ProtectLimit
        /\ \A p \in Peers \ Connected : peers[p].protected \subseteq {BootnodeTag}
        /\ \A p \in Bootnodes : BootnodeTag \in peers[p].protected
    BY DEF TrackerInv, CountersAgree
  <2>3. \A t \in Tags : protectCounter'[t] = Cardinality({p \in Peers : t \in peers'[p].protected})
    BY <2>1, <2>2
  <2>4. \A p \in Bootnodes : BootnodeTag \in peers'[p].protected
    BY <1>0, <2>2, PeersAssumption
  <2> QED
    BY <1>0, <1>1, <2>2, <2>3, <2>4 DEF CountersAgree
<1>3. PeersAreReported'
  BY <1>1 DEF TrackerInv, PeersAreReported
<1> QED
  BY <1>2, <1>3

\* What TrackerInv says of a node that runs.
RunningInv ==
    /\ InStep(swarmEvents, Tracked, open)
    /\ ToldOfProtected /\ KeptAreTracked /\ KeepAliveAgrees

LEMMA QuietStep ==
    ASSUME TrackerInv, TableOK(peers'), OthersOK', SameStanding, info' = Recount(peers'),
           UNCHANGED <<protectCounter, announced, open, keepAlive, keepAliveEvents, swarmEvents>>,
           phase' = "running" => phase = "running"
    PROVE  TrackerInv'
<1>0. \A p \in Peers : /\ peers'[p].connections = peers[p].connections
                       /\ peers'[p].pinged \subseteq peers'[p].connections
                       /\ IsProtected(p)' = IsProtected(p)
  BY StandingFacts
<1>1. Tracked' = Tracked
  BY StandingFacts
<1>2. CountersAgree' /\ PeersAreReported' /\ PeersTypeOK'
  BY CountsKept, NextTypeParts
<1>3. swarmEvents' \in Seq(SwarmEvent)
  BY DEF TrackerInv
<1>4. keepAliveEvents' \subseteq [peer : Peers, conn : AllConns, value : {TRUE}]
  BY Zenon DEF TrackerInv
<1>5. ASSUME phase' = "running"
      PROVE  RunningInv'
  <2>1. phase = "running" /\ InStep(swarmEvents, Tracked, open)
        /\ ToldOfProtected /\ KeptAreTracked /\ KeepAliveAgrees
    BY <1>5 DEF TrackerInv
  <2>2. InStep(swarmEvents, Tracked, open)'
    BY <1>1, <2>1, InStepNext, Zenon
  <2>3. ToldOfProtected'
    <3>1. \A e \in keepAliveEvents : e.peer \in Peers
      BY Zenon DEF TrackerInv
    <3> QED
      BY <1>0, <2>1, <3>1 DEF ToldOfProtected
  <2>4. KeptAreTracked'
    BY <1>0, <2>1 DEF KeptAreTracked
  <2>5. KeepAliveAgrees'
    BY <1>0, <2>1 DEF KeepAliveAgrees
  <2> QED
    BY <2>2, <2>3, <2>4, <2>5 DEF RunningInv
<1> QED
  BY <1>0, <1>2, <1>3, <1>4, <1>5, Zenon DEF TrackerInv, RunningInv

\* Steps that do not touch the tracker.
LEMMA UntouchedStep ==
    ASSUME TrackerInv, OthersOK',
           UNCHANGED <<trackerVars, open, keepAlive, keepAliveEvents, swarmEvents>>,
           phase' = "running" => phase = "running"
    PROVE  TrackerInv'
<1>1. UNCHANGED <<peers, protectCounter, info, announced>>
  BY DEF trackerVars
<1>2. TableOK(peers') /\ info' = Recount(peers')
  BY <1>1, TypeParts DEF TrackerInv, PeersAreReported
<1>3. SameStanding
  BY <1>1 DEF SameStanding, TrackerInv
<1> QED
  BY <1>1, <1>2, <1>3, QuietStep

\* Steps that change what an entry says besides connections and protection.
LEMMA EntryStep ==
    ASSUME TrackerInv, OthersOK', NEW p \in Peers, NEW e \in PeerEntry, e.known,
           e.connections = peers[p].connections, e.protected = peers[p].protected,
           e.pinged \subseteq e.connections, SetPeers([peers EXCEPT ![p] = e]),
           UNCHANGED <<protectCounter, announced, open, keepAlive, keepAliveEvents, swarmEvents, phase>>
    PROVE  TrackerInv'
<1>1. peers' = [peers EXCEPT ![p] = e] /\ info' = Recount(peers')
  BY DEF SetPeers
<1>2. TableOK(peers) /\ peers \in [Peers -> PeerEntry]
  BY TypeParts DEF TrackerInv, TableOK
<1>3. TableOK(peers')
  BY <1>1, <1>2, TableUpdated, Zenon
<1>4. SameStanding
  <2> SUFFICES ASSUME NEW q \in Peers
               PROVE  /\ peers'[q].connections = peers[q].connections
                      /\ peers'[q].protected = peers[q].protected
                      /\ peers'[q].pinged \subseteq peers[q].connections
    BY DEF SameStanding
  <2>1. CASE q = p
    BY <1>1, <1>2, <2>1
  <2>2. CASE q # p
    BY <1>1, <1>2, <2>2, Zenon DEF TrackerInv
  <2> QED
    BY <2>1, <2>2
<1> QED
  BY <1>1, <1>3, <1>4, QuietStep

\* Steps that make or forget entries of peers that are not connected.
LEMMA ForgetStep ==
    ASSUME TrackerInv, OthersOK',
           \A p \in Peers : \/ peers'[p] = peers[p] \/ peers'[p] = Entry(p)
                            \/ peers'[p] = Unknown /\ ~KeptByGc(p),
           peers' = [p \in Peers |-> peers'[p]],
           UNCHANGED <<protectCounter, info, announced, open, keepAlive, keepAliveEvents, swarmEvents, phase>>
    PROVE  TrackerInv'
<1>1. TableOK(peers)
  BY TypeParts DEF TrackerInv
<1>2. ASSUME NEW p \in Peers
      PROVE  /\ peers'[p] \in PeerEntry /\ (~peers'[p].known => peers'[p] = Unknown)
             /\ peers'[p].connections = peers[p].connections
             /\ peers'[p].protected = peers[p].protected
             /\ peers'[p].pinged \subseteq peers[p].connections
             /\ peers[p].connections # {} => /\ peers'[p].trusted = peers[p].trusted
                                             /\ peers'[p].full = peers[p].full
                                             /\ peers'[p].archival = peers[p].archival
  <2>0. peers[p].pinged \subseteq peers[p].connections
    BY DEF TrackerInv
  <2>1. CASE peers'[p] = peers[p]
    BY <1>1, <2>0, <2>1 DEF TableOK
  <2>2. CASE peers'[p] = Entry(p)
    BY <1>1, <2>0, <2>2, EntryFacts
  <2>3. CASE peers'[p] = Unknown /\ ~KeptByGc(p)
    <3>1. peers[p].connections = {} /\ peers[p].protected = {}
      BY <2>3 DEF KeptByGc, IsConnected, IsProtected
    <3> QED
      BY <2>3, <3>1, NewPeerFacts
  <2> QED
    BY <2>1, <2>2, <2>3
<1>3. TableOK(peers')
  BY <1>2 DEF TableOK
<1>4. SameStanding
  BY <1>2 DEF SameStanding
<1>5. SameShown(peers', peers)
  BY <1>2 DEF SameShown
<1>6. info' = Recount(peers')
  BY <1>5, RecountSame DEF TrackerInv, PeersAreReported
<1> QED
  BY <1>3, <1>4, <1>6, QuietStep

LEMMA QuietActionsOf ==
    ASSUME TrackerInv, NEW p \in Peers,
           \/ DialFails(p) \/ OnIdentify(p) \/ OnProvider(p) \/ PeerMaybeDiscovered(p)
           \/ BlacklistPeer(p) \/ (\E b \in BOOLEAN : SetPeerTrust(p, b))
    PROVE  TrackerInv'
<1>0. OthersOK /\ TableOK(peers) /\ peers \in [Peers -> PeerEntry]
      /\ peers[p].pinged \subseteq peers[p].connections
  BY TypeParts DEF TrackerInv, TableOK
<1>a. /\ Entry(p) \in PeerEntry /\ Entry(p).known
      /\ Entry(p).connections = peers[p].connections /\ Entry(p).pinged = peers[p].pinged
      /\ Entry(p).protected = peers[p].protected
  BY <1>0, EntryFacts
<1>1. CASE DialFails(p)
  <2>1. OthersOK'
    BY <1>0, <1>1 DEF DialFails, OthersOK, trackerVars
  <2> QED
    BY <1>1, <2>1, UntouchedStep DEF DialFails
<1>2. CASE OnIdentify(p)
  <2> DEFINE e == [peers[p] EXCEPT !.full = p \in FullNodes]
  <2>1. /\ OthersOK' /\ peers[p].known
    BY <1>0, <1>2, ConnectedIsKnown DEF OnIdentify, IsConnected, OthersOK, swarmVars
  <2>a. PICK b \in BOOLEAN : b = (p \in FullNodes)
    BY MemberIsBoolean
  <2>b. e = [peers[p] EXCEPT !.full = b] /\ peers[p] \in PeerEntry
    BY <1>0, <2>a
  <2>2. /\ e \in PeerEntry /\ e.known /\ e.connections = peers[p].connections
        /\ e.protected = peers[p].protected /\ e.pinged = peers[p].pinged
    <3> HIDE DEF e
    <3> QED
      BY <2>1, <2>b DEF PeerEntry
  <2>3. SetPeers([peers EXCEPT ![p] = e])
    BY <1>0, <1>2 DEF OnIdentify, OnAgentVersion
  <2> HIDE DEF e
  <2> QED
    BY <1>0, <1>2, <2>1, <2>2, <2>3, EntryStep, Zenon DEF OnIdentify, swarmVars
<1>3. CASE OnProvider(p)
  <2> DEFINE e == [Entry(p) EXCEPT !.archival = TRUE]
  <2>1. OthersOK'
    BY <1>0, <1>3 DEF OnProvider, OthersOK, swarmVars
  <2>2. /\ e \in PeerEntry /\ e.known /\ e.connections = peers[p].connections
        /\ e.protected = peers[p].protected /\ e.pinged = peers[p].pinged
    BY <1>a, Zenon DEF PeerEntry
  <2>3. SetPeers([peers EXCEPT ![p] = e])
    BY <1>3 DEF OnProvider
  <2> HIDE DEF e
  <2> QED
    BY <1>0, <1>3, <2>1, <2>2, <2>3, EntryStep, Zenon DEF OnProvider, swarmVars
<1>4. CASE PeerMaybeDiscovered(p)
  <2>1. OthersOK'
    BY <1>0, <1>4 DEF PeerMaybeDiscovered, OthersOK, swarmVars
  <2>2. peers' = [peers EXCEPT ![p] = Entry(p)]
    BY <1>4 DEF PeerMaybeDiscovered
  <2>3. /\ peers' = [q \in Peers |-> peers'[q]]
        /\ \A q \in Peers : peers'[q] = peers[q] \/ peers'[q] = Entry(q)
    BY <1>0, <2>2, Zenon
  <2> QED
    BY <1>4, <2>1, <2>3, ForgetStep DEF PeerMaybeDiscovered, swarmVars
<1>5. CASE BlacklistPeer(p)
  <2>1. OthersOK'
    BY <1>0, <1>5 DEF BlacklistPeer, OthersOK, trackerVars
  <2> QED
    BY <1>5, <2>1, UntouchedStep DEF BlacklistPeer
<1>6. ASSUME NEW b \in BOOLEAN, SetPeerTrust(p, b) PROVE TrackerInv'
  <2> DEFINE e == [Entry(p) EXCEPT !.trusted = b]
  <2>1. OthersOK'
    BY <1>0, <1>6 DEF SetPeerTrust, OthersOK, swarmVars
  <2>2. /\ e \in PeerEntry /\ e.known /\ e.connections = peers[p].connections
        /\ e.protected = peers[p].protected /\ e.pinged = peers[p].pinged
    BY <1>a DEF PeerEntry
  <2>3. SetPeers([peers EXCEPT ![p] = e])
    BY <1>6 DEF SetPeerTrust
  <2> HIDE DEF e
  <2> QED
    BY <1>0, <1>6, <2>1, <2>2, <2>3, EntryStep, Zenon DEF SetPeerTrust, swarmVars
<1> QED
  BY <1>1, <1>2, <1>3, <1>4, <1>5, <1>6

LEMMA QuietActions ==
    ASSUME TrackerInv, ConnectToBootnodes \/ Gc \/ Stop \/ Stopped
    PROVE  TrackerInv'
<1>0. OthersOK
  BY TypeParts DEF TrackerInv
<1>1. CASE ConnectToBootnodes
  <2>1. OthersOK'
    BY <1>0, <1>1, PeersAssumption DEF ConnectToBootnodes, Dialable, OthersOK, trackerVars
  <2> QED
    BY <1>1, <2>1, UntouchedStep DEF ConnectToBootnodes
<1>2. CASE Gc
  <2>1. OthersOK'
    BY <1>0, <1>2 DEF Gc, OthersOK, swarmVars
  <2>2. PICK expired \in SUBSET {q \in Peers : ~KeptByGc(q) /\ peers[q].left} :
            peers' = [q \in Peers |-> IF q \in expired THEN Unknown ELSE peers[q]]
    BY <1>2 DEF Gc
  <2>3. /\ peers' = [q \in Peers |-> peers'[q]]
        /\ \A q \in Peers : peers'[q] = peers[q] \/ (peers'[q] = Unknown /\ ~KeptByGc(q))
    BY <2>2
  <2> QED
    BY <1>2, <2>1, <2>3, ForgetStep DEF Gc, swarmVars
<1>3. CASE Stop
  <2>1. OthersOK' /\ phase' # "running"
    BY <1>0, <1>3 DEF Stop, OthersOK, trackerVars
  <2> QED
    BY <1>3, <2>1, UntouchedStep DEF Stop
<1>4. CASE Stopped
  <2>1. OthersOK' /\ phase' # "running"
    BY <1>0, <1>4 DEF Stopped, OthersOK, trackerVars, swarmVars
  <2> QED
    BY <1>4, <2>1, UntouchedStep DEF Stopped, swarmVars
<1> QED
  BY <1>1, <1>2, <1>3, <1>4

-----------------------------------------------------------------------------
(* Connections open and close                                              *)

LEMMA CloseStep ==
    ASSUME TrackerInv, TableOK(peers'), SameStanding, info' = Recount(peers'),
           NEW p \in Peers, NEW c \in AllConns, CloseNow(p, c),
           dialing' \subseteq Peers, blocked' \subseteq Peers,
           UNCHANGED <<protectCounter, announced, phase>>
    PROVE  TrackerInv'
<1>0. /\ c \in open[p]
      /\ open' = [open EXCEPT ![p] = @ \ {c}]
      /\ keepAlive' = [keepAlive EXCEPT ![p] = @ \ {c}]
      /\ keepAliveEvents' = {e \in keepAliveEvents : e.peer # p \/ e.conn # c}
      /\ swarmEvents' = Append(swarmEvents, Closed(p, c))
  BY DEF CloseNow, Closed
<1>1. \A q \in Peers : /\ peers'[q].connections = peers[q].connections
                       /\ peers'[q].pinged \subseteq peers'[q].connections
                       /\ IsProtected(q)' = IsProtected(q)
  BY StandingFacts, Zenon
<1>2. Tracked' = Tracked
  BY StandingFacts
<1>3. OthersOK /\ open \in [Peers -> SUBSET AllConns] /\ keepAlive \in [Peers -> SUBSET AllConns]
  BY TypeParts DEF TrackerInv, OthersOK
<1>4. OthersOK'
  BY <1>0, <1>3 DEF OthersOK
<1>5. CountersAgree' /\ PeersAreReported' /\ PeersTypeOK'
  BY <1>4, CountsKept, NextTypeParts
<1>6. swarmEvents \in Seq(SwarmEvent) /\ Closed(p, c) \in SwarmEvent
  BY DEF TrackerInv, Closed, SwarmEvent
<1>7. swarmEvents' \in Seq(SwarmEvent)
  BY <1>0, <1>6, AppendFacts
<1>8. /\ keepAliveEvents \subseteq [peer : Peers, conn : AllConns, value : {TRUE}]
      /\ keepAliveEvents' \subseteq keepAliveEvents
  BY <1>0, Zenon DEF TrackerInv
<1>9. ASSUME phase' = "running"
      PROVE  RunningInv'
  <2>1. phase = "running" /\ InStep(swarmEvents, Tracked, open)
        /\ ToldOfProtected /\ KeptAreTracked /\ KeepAliveAgrees
    BY <1>9 DEF TrackerInv
  <2>2. InStep(swarmEvents', Tracked, open')
    BY <1>0, <1>3, <1>6, <2>1, InStepClose, Zenon
  <2>3. InStep(swarmEvents, Tracked, open)'
    BY <1>2, <2>2, InStepNext, Zenon
  <2>4. \A q \in Peers : \A d : /\ (d \in open'[q]) <=> (d \in open[q] /\ ~(q = p /\ d = c))
                                /\ (d \in keepAlive'[q]) <=> (d \in keepAlive[q] /\ ~(q = p /\ d = c))
    BY <1>0, <1>3
  <2>5. ToldOfProtected'
    <3> SUFFICES ASSUME NEW e \in keepAliveEvents', e.conn \in open'[e.peer]
                 PROVE  e.conn \in peers'[e.peer].connections /\ IsProtected(e.peer)'
      BY DEF ToldOfProtected
    <3>1. e \in keepAliveEvents /\ e.peer \in Peers
      BY <1>8, Zenon
    <3>2. e.conn \in open[e.peer]
      BY <2>4, <3>1
    <3> QED
      BY <1>1, <2>1, <3>1, <3>2 DEF ToldOfProtected
  <2>6. KeptAreTracked'
    BY <1>1, <2>1, <2>4 DEF KeptAreTracked
  <2>7. KeepAliveAgrees'
    <3> SUFFICES ASSUME NEW q \in Peers, NEW d \in peers'[q].connections \cap open'[q],
                        \A e \in keepAliveEvents' : e.peer # q \/ e.conn # d
                 PROVE  (d \in keepAlive'[q]) <=> IsProtected(q)'
      BY DEF KeepAliveAgrees
    <3>1. d \in peers[q].connections \cap open[q] /\ ~(q = p /\ d = c)
      BY <1>1, <2>4
    <3>2. \A e \in keepAliveEvents : e.peer # q \/ e.conn # d
      BY <1>0, <3>1
    <3>3. (d \in keepAlive[q]) <=> IsProtected(q)
      BY <2>1, <3>1, <3>2 DEF KeepAliveAgrees
    <3> QED
      BY <1>1, <2>4, <3>1, <3>3
  <2> QED
    BY <2>3, <2>5, <2>6, <2>7 DEF RunningInv
<1> QED
  BY <1>1, <1>5, <1>7, <1>8, <1>9, Zenon DEF TrackerInv, RunningInv

\* A connection is closed while the tracker waits for the event.
LEMMA ClosedQuietly ==
    ASSUME TrackerInv, NEW p \in Peers, NEW c \in Conns[p], CloseNow(p, c),
           UNCHANGED <<peers, protectCounter, info, announced, dialing, blocked, phase>>
    PROVE  TrackerInv'
<1>1. OthersOK /\ TableOK(peers) /\ c \in AllConns
  BY TypeParts DEF TrackerInv, AllConns
<1>2. dialing \subseteq Peers /\ blocked \subseteq Peers
  BY <1>1 DEF OthersOK
<1>3. SameStanding
  BY DEF SameStanding, TrackerInv
<1>4. TableOK(peers') /\ info' = Recount(peers') /\ dialing' \subseteq Peers /\ blocked' \subseteq Peers
  BY <1>1, <1>2 DEF TrackerInv, PeersAreReported
<1> QED
  BY <1>1, <1>3, <1>4, CloseStep

LEMMA ClosingActions ==
    ASSUME TrackerInv, NEW p \in Peers, NEW c \in Conns[p],
           Close(p, c) \/ CloseOnStop(p, c) \/ OnPing(p, c)
    PROVE  TrackerInv'
<1>0. /\ OthersOK /\ TableOK(peers) /\ peers \in [Peers -> PeerEntry] /\ c \in AllConns
      /\ peers[p].pinged \subseteq peers[p].connections
      /\ dialing \subseteq Peers /\ blocked \subseteq Peers
  BY TypeParts, Zenon DEF TrackerInv, TableOK, OthersOK, AllConns
<1>1. CASE Close(p, c) \/ CloseOnStop(p, c)
  <2>1. CloseNow(p, c) /\ UNCHANGED <<peers, protectCounter, info, announced, dialing, blocked, phase>>
    BY <1>1 DEF Close, CloseOnStop, trackerVars
  <2> QED
    BY <2>1, ClosedQuietly
<1>2. CASE OnPing(p, c)
  <2>0. c \in peers[p].connections /\ peers[p].known /\ UNCHANGED <<protectCounter, announced, phase>>
    BY <1>0, <1>2, ConnectedIsKnown DEF OnPing
  <2>1. ASSUME NEW e, e = [peers[p] EXCEPT !.pinged = @ \cup {c}] \/ e = [peers[p] EXCEPT !.pinged = @ \ {c}]
        PROVE  /\ e \in PeerEntry /\ e.known /\ e.connections = peers[p].connections
               /\ e.protected = peers[p].protected /\ e.pinged \subseteq e.connections
    <3>1. CASE e = [peers[p] EXCEPT !.pinged = @ \cup {c}]
      BY <1>0, <2>0, <3>1 DEF PeerEntry
    <3>2. CASE e = [peers[p] EXCEPT !.pinged = @ \ {c}]
      BY <1>0, <2>0, <3>2 DEF PeerEntry
    <3> QED
      BY <2>1, <3>1, <3>2
  <2>2. CASE SetPeers([peers EXCEPT ![p].pinged = @ \cup {c}])
             /\ UNCHANGED <<swarmVars, keepAlive, keepAliveEvents>>
    <3>1. PICK e : e = [peers[p] EXCEPT !.pinged = @ \cup {c}]
      BY Zenon
    <3>2. SetPeers([peers EXCEPT ![p] = e])
      BY <1>0, <2>2, <3>1
    <3>3. OthersOK'
      BY <1>0, <2>0, <2>2 DEF OthersOK, swarmVars
    <3> QED
      BY <2>0, <2>1, <2>2, <3>1, <3>2, <3>3, EntryStep DEF swarmVars
  <2>3. CASE SetPeers([peers EXCEPT ![p].pinged = @ \ {c}]) /\ CloseNow(p, c)
             /\ UNCHANGED <<dialing, blocked>>
    <3>1. PICK e : e = [peers[p] EXCEPT !.pinged = @ \ {c}]
      BY Zenon
    <3>2. peers' = [peers EXCEPT ![p] = e] /\ info' = Recount(peers')
      BY <1>0, <2>3, <3>1 DEF SetPeers
    <3>3. /\ e \in PeerEntry /\ e.known /\ e.connections = peers[p].connections
          /\ e.protected = peers[p].protected /\ e.pinged \subseteq e.connections
      BY <2>1, <3>1, Zenon
    <3>4. TableOK(peers')
      BY <1>0, <3>2, <3>3, TableUpdated, Zenon
    <3>5. SameStanding
      <4> SUFFICES ASSUME NEW q \in Peers
                   PROVE  /\ peers'[q].connections = peers[q].connections
                          /\ peers'[q].protected = peers[q].protected
                          /\ peers'[q].pinged \subseteq peers[q].connections
        BY DEF SameStanding
      <4>1. CASE q = p
        BY <1>0, <3>2, <3>3, <4>1
      <4>2. CASE q # p
        BY <1>0, <3>2, <4>2 DEF TrackerInv
      <4> QED
        BY <4>1, <4>2, Zenon
    <3>6. dialing' \subseteq Peers /\ blocked' \subseteq Peers
      BY <1>0, <2>3
    <3> QED
      BY <1>0, <2>0, <2>3, <3>2, <3>4, <3>5, <3>6, CloseStep
  <2> QED
    BY <1>2, <2>2, <2>3 DEF OnPing
<1> QED
  BY <1>1, <1>2

LEMMA EstablishStep ==
    ASSUME TrackerInv, NEW p \in Peers, NEW c \in Conns[p], Establish(p, c)
    PROVE  TrackerInv'
<1>0. /\ phase = "running" /\ phase' = phase /\ Fresh(p, c)
      /\ open' = [open EXCEPT ![p] = @ \cup {c}]
      /\ dialing' = dialing \ {p}
      /\ swarmEvents' = Append(swarmEvents, Established(p, c))
      /\ UNCHANGED <<peers, protectCounter, info, announced, keepAlive, keepAliveEvents, blocked>>
  BY DEF Establish, Established, trackerVars
<1>1. c \in AllConns
  BY DEF AllConns
<1>2. OthersOK /\ TableOK(peers) /\ open \in [Peers -> SUBSET AllConns]
  BY TypeParts, Zenon DEF TrackerInv, OthersOK
<1>3. OthersOK' /\ TableOK(peers')
  BY <1>0, <1>1, <1>2 DEF OthersOK
<1>4. SameStanding
  BY <1>0, Zenon DEF SameStanding, TrackerInv
<1>5. info' = Recount(peers')
  BY <1>0, Zenon DEF TrackerInv, PeersAreReported
<1>6. CountersAgree' /\ PeersAreReported' /\ PeersTypeOK'
  BY <1>0, <1>3, <1>4, <1>5, CountsKept, NextTypeParts, Zenon
<1>7. swarmEvents \in Seq(SwarmEvent) /\ Established(p, c) \in SwarmEvent
  BY <1>1, Zenon DEF TrackerInv, Established, SwarmEvent
<1>8. swarmEvents' \in Seq(SwarmEvent)
  BY <1>0, <1>7, AppendFacts
<1>9. InStep(swarmEvents, Tracked, open) /\ ToldOfProtected /\ KeptAreTracked /\ KeepAliveAgrees
  BY <1>0, Zenon DEF TrackerInv
<1>10. /\ c \notin open[p] /\ c \notin peers[p].connections
       /\ \A e \in keepAliveEvents : e.peer # p \/ e.conn # c
       /\ \A i \in 1..Len(swarmEvents) : swarmEvents[i].peer # p \/ swarmEvents[i].conn # c
  BY <1>0, Zenon DEF Fresh
<1>11. InStep(swarmEvents, Tracked, open)'
  <2>1. \A i \in 1..Len(swarmEvents) : /\ swarmEvents[i] # Established(p, c)
                                        /\ swarmEvents[i] # Closed(p, c)
    <3>1. /\ Established(p, c).peer = p /\ Established(p, c).conn = c
          /\ Closed(p, c).peer = p /\ Closed(p, c).conn = c
      BY Zenon DEF Established, Closed
    <3> QED
      BY <1>10, <3>1, Zenon
  <2>2. c \notin Tracked[p]
    BY <1>10, Zenon DEF Tracked
  <2>3. InStep(swarmEvents', Tracked, open')
    BY <1>0, <1>1, <1>2, <1>7, <1>9, <2>1, <2>2, InStepEstablish, Zenon
  <2>4. Tracked' = Tracked
    BY <1>0 DEF Tracked
  <2> QED
    BY <2>3, <2>4, InStepNext, Zenon
<1>12. \A q \in Peers : \A d : (d \in open'[q]) <=> (d \in open[q] \/ (q = p /\ d = c))
  BY <1>0, <1>2
<1>13. ToldOfProtected'
  <2> SUFFICES ASSUME NEW e \in keepAliveEvents', e.conn \in open'[e.peer]
               PROVE  e.conn \in peers'[e.peer].connections /\ IsProtected(e.peer)'
    BY DEF ToldOfProtected
  <2>1. e \in keepAliveEvents /\ e.peer \in Peers
    BY <1>0, Zenon DEF TrackerInv
  <2>2. e.conn \in open[e.peer]
    BY <1>10, <1>12, <2>1
  <2> QED
    BY <1>0, <1>9, <2>1, <2>2 DEF ToldOfProtected, IsProtected
<1>14. KeptAreTracked'
  BY <1>0, <1>9, <1>12 DEF KeptAreTracked
<1>15. KeepAliveAgrees'
  <2> SUFFICES ASSUME NEW q \in Peers, NEW d \in peers'[q].connections \cap open'[q],
                      \A e \in keepAliveEvents' : e.peer # q \/ e.conn # d
               PROVE  (d \in keepAlive'[q]) <=> IsProtected(q)'
    BY DEF KeepAliveAgrees
  <2>1. d \in peers[q].connections \cap open[q]
    BY <1>0, <1>10, <1>12
  <2>2. (d \in keepAlive[q]) <=> IsProtected(q)
    BY <1>0, <1>9, <2>1 DEF KeepAliveAgrees
  <2> QED
    BY <1>0, <2>2 DEF IsProtected
<1>16. /\ \A q \in Peers : peers'[q].pinged \subseteq peers'[q].connections
       /\ keepAliveEvents' \subseteq [peer : Peers, conn : AllConns, value : {TRUE}]
  BY <1>0, Zenon DEF TrackerInv
<1> QED
  BY <1>6, <1>8, <1>11, <1>13, <1>14, <1>15, <1>16, Zenon DEF TrackerInv

\* A handler is told to keep its connection alive.
LEMMA DeliverStep ==
    ASSUME TrackerInv, DeliverKeepAlive
    PROVE  TrackerInv'
<1>0. PICK e \in keepAliveEvents :
          /\ keepAliveEvents' = keepAliveEvents \ {e}
          /\ keepAlive' = [keepAlive EXCEPT
                 ![e.peer] = IF e.value THEN @ \cup ({e.conn} \cap open[e.peer]) ELSE @ \ {e.conn}]
  BY Zenon DEF DeliverKeepAlive
<1>1. UNCHANGED <<peers, protectCounter, info, announced, open, swarmEvents, dialing, blocked, phase>>
  BY DEF DeliverKeepAlive, trackerVars, swarmVars
<1>2. /\ keepAliveEvents \subseteq [peer : Peers, conn : AllConns, value : {TRUE}]
      /\ e.peer \in Peers /\ e.conn \in AllConns /\ e.value
  BY Zenon DEF TrackerInv
<1>3. OthersOK /\ TableOK(peers) /\ keepAlive \in [Peers -> SUBSET AllConns]
  BY TypeParts, Zenon DEF TrackerInv, OthersOK
<1>4. keepAlive' = [keepAlive EXCEPT ![e.peer] = @ \cup ({e.conn} \cap open[e.peer])]
  BY <1>0, <1>2
<1>5. OthersOK' /\ TableOK(peers')
  BY <1>1, <1>2, <1>3, <1>4 DEF OthersOK
<1>6. SameStanding
  BY <1>1 DEF SameStanding, TrackerInv
<1>7. info' = Recount(peers')
  BY <1>1 DEF TrackerInv, PeersAreReported
<1>8. CountersAgree' /\ PeersAreReported' /\ PeersTypeOK'
  BY <1>1, <1>5, <1>6, <1>7, CountsKept, NextTypeParts
<1>9. ASSUME phase' = "running"
      PROVE  RunningInv'
  <2>1. phase = "running" /\ InStep(swarmEvents, Tracked, open)
        /\ ToldOfProtected /\ KeptAreTracked /\ KeepAliveAgrees
    BY <1>1, <1>9 DEF TrackerInv
  <2>2. InStep(swarmEvents, Tracked, open)'
    <3>1. Tracked' = Tracked
      BY <1>1, Zenon DEF Tracked
    <3> QED
      BY <1>1, <2>1, <3>1, InStepNext, Zenon
  <2>3. ToldOfProtected'
    BY <1>0, <1>1, <2>1, Zenon DEF ToldOfProtected, IsProtected
  <2>4. \A q \in Peers : \A d : (d \in keepAlive'[q]) <=>
            (d \in keepAlive[q] \/ (q = e.peer /\ d = e.conn /\ d \in open[q]))
    BY <1>2, <1>3, <1>4
  <2>5. e.conn \in open[e.peer] => e.conn \in peers[e.peer].connections /\ IsProtected(e.peer)
    BY <2>1 DEF ToldOfProtected
  <2>6. KeptAreTracked'
    BY <1>1, <1>2, <2>1, <2>4, <2>5, Zenon DEF KeptAreTracked
  <2>7. KeepAliveAgrees'
    <3> SUFFICES ASSUME NEW q \in Peers, NEW d \in peers'[q].connections \cap open'[q],
                        \A f \in keepAliveEvents' : f.peer # q \/ f.conn # d
                 PROVE  (d \in keepAlive'[q]) <=> IsProtected(q)'
      BY DEF KeepAliveAgrees
    <3>1. d \in peers[q].connections \cap open[q] /\ IsProtected(q)' = IsProtected(q)
      BY <1>1 DEF IsProtected
    <3>2. CASE q = e.peer /\ d = e.conn
      BY <2>4, <2>5, <3>1, <3>2
    <3>3. CASE ~(q = e.peer /\ d = e.conn)
      <4>1. \A f \in keepAliveEvents : f.peer # q \/ f.conn # d
        BY <1>0, <3>3
      <4>2. (d \in keepAlive[q]) <=> IsProtected(q)
        BY <2>1, <3>1, <4>1 DEF KeepAliveAgrees
      <4> QED
        BY <2>4, <3>1, <3>3, <4>2
    <3> QED
      BY <3>2, <3>3
  <2> QED
    BY <2>2, <2>3, <2>6, <2>7 DEF RunningInv
<1>10. /\ \A q \in Peers : peers'[q].pinged \subseteq peers'[q].connections
       /\ swarmEvents' \in Seq(SwarmEvent)
       /\ keepAliveEvents' \subseteq [peer : Peers, conn : AllConns, value : {TRUE}]
  BY <1>0, <1>1, <1>2, Zenon DEF TrackerInv
<1> QED
  BY <1>8, <1>9, <1>10, Zenon DEF TrackerInv, RunningInv

-----------------------------------------------------------------------------
(* The tracker hears of a connection                                       *)

\* What the first event says.
LEMMA FirstEvent ==
    ASSUME swarmEvents \in Seq(SwarmEvent), swarmEvents # <<>>
    PROVE  LET ev == Head(swarmEvents)
           IN  /\ ev.peer \in Peers /\ ev.conn \in AllConns /\ Tail(swarmEvents) \in Seq(SwarmEvent)
               /\ IF ev.type = "established" THEN ev = Established(ev.peer, ev.conn)
                  ELSE ev.type = "closed" /\ ev = Closed(ev.peer, ev.conn)
<1>1. Head(swarmEvents) \in SwarmEvent /\ Tail(swarmEvents) \in Seq(SwarmEvent)
  BY TailFacts
<1> QED
  BY <1>1 DEF SwarmEvent, Established, Closed

\* The counters are those of the tags.
Counted(counter, ps) ==
    \A t \in Tags : counter[t] = Cardinality({p \in Peers : t \in ps[p].protected})

LEMMA CountsAreTyped ==
    ASSUME NEW counter, NEW ps, Counted(counter, ps), counter = [t \in Tags |-> counter[t]]
    PROVE  counter \in [Tags -> 0..Cardinality(Peers)]
<1> SUFFICES ASSUME NEW t \in Tags PROVE counter[t] \in 0..Cardinality(Peers)
  OBVIOUS
<1> DEFINE S == {p \in Peers : t \in ps[p].protected}
<1>1. IsFiniteSet(Peers) /\ S \subseteq Peers
  BY PeersAssumption
<1>2. /\ Cardinality(S) \in Nat /\ Cardinality(Peers) \in Nat
      /\ Cardinality(S) <= Cardinality(Peers)
  BY <1>1, FS_Subset, FS_CardinalityType
<1>3. counter[t] = Cardinality(S)
  BY DEF Counted
<1> QED
  BY <1>2, <1>3

\* No tag changes, and no peer is disconnected.
LEMMA ProtectionKept ==
    ASSUME CountersAgree, UNCHANGED protectCounter, Connected \subseteq Connected',
           \A p \in Peers : peers'[p].protected = peers[p].protected
    PROVE  CountersAgree'
<1>1. \A t \in Tags : {p \in Peers : t \in peers'[p].protected} = {p \in Peers : t \in peers[p].protected}
  OBVIOUS
<1>2. /\ \A t \in Tags : protectCounter[t] = Cardinality({p \in Peers : t \in peers[p].protected})
      /\ \A t \in {FullTag, ArchivalTag} : protectCounter[t] <= ProtectLimit
      /\ \A p \in Peers \ Connected : peers[p].protected \subseteq {BootnodeTag}
      /\ \A p \in Bootnodes : BootnodeTag \in peers[p].protected
  BY DEF CountersAgree
<1>3. \A t \in Tags : protectCounter'[t] = Cardinality({p \in Peers : t \in peers'[p].protected})
  BY <1>1, <1>2
<1>4. \A p \in Bootnodes : BootnodeTag \in peers'[p].protected
  BY <1>2, PeersAssumption
<1>5. \A p \in Peers \ Connected' : peers'[p].protected \subseteq {BootnodeTag}
  BY <1>2
<1> QED
  BY <1>2, <1>3, <1>4, <1>5 DEF CountersAgree

LEMMA ConnectedStep ==
    ASSUME TrackerInv, phase = "running", swarmEvents # <<>>,
           NEW p \in Peers, NEW c \in AllConns, Head(swarmEvents) = Established(p, c),
           OnPeerConnected(p, c), swarmEvents' = Tail(swarmEvents),
           UNCHANGED <<open, keepAlive, dialing, blocked, phase>>
    PROVE  TrackerInv'
<1> DEFINE e == [Entry(p) EXCEPT !.connections = @ \cup {c}, !.left = FALSE]
<1>0. /\ OthersOK /\ TableOK(peers) /\ peers \in [Peers -> PeerEntry]
      /\ swarmEvents \in Seq(SwarmEvent) /\ open \in [Peers -> SUBSET AllConns]
      /\ announced \in [Peers -> Int]
  BY TypeParts, Zenon DEF TrackerInv, TableOK, OthersOK
<1>1. InStep(swarmEvents, Tracked, open) /\ ToldOfProtected /\ KeptAreTracked /\ KeepAliveAgrees
  BY Zenon DEF TrackerInv
<1>2. /\ Entry(p) \in PeerEntry /\ Entry(p).known
      /\ Entry(p).connections = peers[p].connections /\ Entry(p).pinged = peers[p].pinged
      /\ Entry(p).protected = peers[p].protected
  BY <1>0, EntryFacts
<1>3. /\ e \in PeerEntry /\ e.known /\ e.connections = peers[p].connections \cup {c}
      /\ e.pinged = peers[p].pinged /\ e.protected = peers[p].protected
  BY <1>2, Zenon DEF PeerEntry
<1>4. peers' = [peers EXCEPT ![p] = e] /\ info' = Recount(peers')
  BY DEF OnPeerConnected, SetPeers
<1> HIDE DEF e
<1>5. /\ \A q \in Peers : /\ q # p => peers'[q] = peers[q]
                          /\ peers'[q].protected = peers[q].protected
                          /\ peers[q].connections \subseteq peers'[q].connections
                          /\ peers'[q].pinged = peers[q].pinged
      /\ peers'[p].connections = peers[p].connections \cup {c}
  BY <1>0, <1>3, <1>4, Zenon
<1>6. \A q \in Peers : IsProtected(q)' = IsProtected(q)
  BY <1>5 DEF IsProtected
<1>7. c \notin peers[p].connections
  <2>1. 1 \in 1..Len(swarmEvents) /\ swarmEvents[1] = Established(p, c)
    BY <1>0, TailFacts
  <2> QED
    BY <1>1, <2>1 DEF InStep, Tracked
<1>8. TableOK(peers')
  BY <1>0, <1>3, <1>4, TableUpdated, Zenon
<1>9. announced' = [announced EXCEPT ![p] = @ + Announced(p)] /\ Announced(p) \in {0, 1}
      /\ protectCounter' = protectCounter /\ keepAliveEvents' = keepAliveEvents \cup KeepAliveOfNew(p, c)
  BY DEF OnPeerConnected, Announced
<1>10. OthersOK'
  BY <1>0, <1>9 DEF OthersOK
<1>11. CountersAgree'
  <2>1. Connected \subseteq Connected'
    BY <1>5, Zenon DEF Connected, IsConnected
  <2> QED
    BY <1>5, <1>9, <2>1, ProtectionKept, Zenon DEF TrackerInv
<1>12. PeersAreReported'
  <2> SUFFICES ASSUME NEW q \in Peers
               PROVE  announced'[q] = IF IsConnected(q)' THEN 1 ELSE 0
    BY <1>4 DEF PeersAreReported
  <2>1. announced[q] = IF IsConnected(q) THEN 1 ELSE 0
    BY DEF TrackerInv, PeersAreReported
  <2>2. CASE q = p
    <3>1. IsConnected(p)'
      BY <1>5 DEF IsConnected
    <3>2. announced'[p] = announced[p] + Announced(p)
      BY <1>0, <1>9
    <3> QED
      BY <2>1, <2>2, <3>1, <3>2 DEF Announced
  <2>3. CASE q # p
    <3>1. announced'[q] = announced[q] /\ IsConnected(q)' = IsConnected(q)
      BY <1>0, <1>5, <1>9, <2>3, Zenon DEF IsConnected
    <3> QED
      BY <2>1, <3>1
  <2> QED
    BY <2>2, <2>3
<1>13. InStep(swarmEvents, Tracked, open)'
  <2> DEFINE ts == Tracked'
  <2>1. /\ \A q \in Peers : \A d : ~(q = p /\ d = c) => (d \in ts[q] <=> d \in Tracked[q])
        /\ c \in ts[p]
    BY <1>5, Zenon DEF Tracked
  <2> HIDE DEF ts
  <2>2. InStep(Tail(swarmEvents), ts, open)
    BY <1>0, <1>1, <2>1, InStepHeard, Zenon
  <2> QED
    BY <1>0, <2>2, InStepNext, Zenon DEF ts
<1>14. /\ \A f \in keepAliveEvents' : f \in keepAliveEvents
                \/ (IsProtected(p) /\ f.peer = p /\ f.conn = c /\ f.value = TRUE
                    /\ f \in [peer : Peers, conn : AllConns, value : {TRUE}])
       /\ IsProtected(p) => \E f \in keepAliveEvents' : f.peer = p /\ f.conn = c
       /\ keepAliveEvents \subseteq keepAliveEvents'
  <2>1. CASE IsProtected(p)
    <3>1. PICK g : g = [peer |-> p, conn |-> c, value |-> TRUE]
      BY Zenon
    <3>2. keepAliveEvents' = keepAliveEvents \cup {g}
      BY <1>9, <2>1, <3>1 DEF KeepAliveOfNew
    <3>3. /\ g.peer = p /\ g.conn = c /\ g.value = TRUE
          /\ g \in [peer : Peers, conn : AllConns, value : {TRUE}]
      BY <3>1
    <3> QED
      BY <2>1, <3>2, <3>3, Zenon
  <2>2. CASE ~IsProtected(p)
    BY <1>9, <2>2, Zenon DEF KeepAliveOfNew
  <2> QED
    BY <2>1, <2>2, Zenon
<1>15. keepAliveEvents \subseteq [peer : Peers, conn : AllConns, value : {TRUE}]
       /\ keepAliveEvents' \subseteq [peer : Peers, conn : AllConns, value : {TRUE}]
  BY <1>14, Zenon DEF TrackerInv
<1>16. ToldOfProtected'
  <2> SUFFICES ASSUME NEW f \in keepAliveEvents', f.conn \in open[f.peer]
               PROVE  f.conn \in peers'[f.peer].connections /\ IsProtected(f.peer)'
    BY DEF ToldOfProtected
  <2>1. CASE f \in keepAliveEvents
    <3>1. f.peer \in Peers
      BY <1>15, Zenon
    <3>2. f.conn \in peers[f.peer].connections /\ IsProtected(f.peer)
      BY <1>1, <2>1 DEF ToldOfProtected
    <3> QED
      BY <1>5, <1>6, <3>1, <3>2, Zenon
  <2>2. CASE IsProtected(p) /\ f.peer = p /\ f.conn = c
    BY <1>5, <1>6, <2>2
  <2> QED
    BY <1>14, <2>1, <2>2, Zenon
<1>17. KeptAreTracked'
  BY <1>1, <1>5 DEF KeptAreTracked
<1>18. KeepAliveAgrees'
  <2> SUFFICES ASSUME NEW q \in Peers, NEW d \in peers'[q].connections \cap open[q],
                      \A f \in keepAliveEvents' : f.peer # q \/ f.conn # d
               PROVE  (d \in keepAlive[q]) <=> IsProtected(q)'
    BY Zenon DEF KeepAliveAgrees
  <2>1. CASE q = p /\ d = c
    <3>1. ~IsProtected(q)
      BY <1>14, <2>1
    <3>2. d \notin keepAlive[q]
      BY <1>1, <1>7, <2>1 DEF KeptAreTracked
    <3> QED
      BY <1>6, <3>1, <3>2
  <2>2. CASE ~(q = p /\ d = c)
    <3>1. d \in peers[q].connections \cap open[q]
      BY <1>5, <2>2
    <3>2. \A f \in keepAliveEvents : f.peer # q \/ f.conn # d
      BY <1>14
    <3>3. (d \in keepAlive[q]) <=> IsProtected(q)
      BY <1>1, <3>1, <3>2 DEF KeepAliveAgrees
    <3> QED
      BY <1>6, <3>3
  <2> QED
    BY <2>1, <2>2
<1>19. /\ \A q \in Peers : peers'[q].pinged \subseteq peers'[q].connections
       /\ swarmEvents' \in Seq(SwarmEvent)
  BY <1>0, <1>5, TailFacts, Zenon DEF TrackerInv
<1>20. PeersTypeOK'
  BY <1>8, <1>10, NextTypeParts
<1> QED
  BY <1>11, <1>12, <1>13, <1>15, <1>16, <1>17, <1>18, <1>19, <1>20, Zenon DEF TrackerInv

-----------------------------------------------------------------------------
(* The tracker hears that a connection is closed                           *)

\* What follows in any phase.
LEMMA Disconnected ==
    ASSUME TrackerInv, NEW p \in Peers, NEW c \in AllConns, OnPeerDisconnected(p, c)
    PROVE  /\ TableOK(peers') /\ info' = Recount(peers') /\ CountersAgree'
           /\ protectCounter' \in [Tags -> 0..Cardinality(Peers)] /\ announced' \in [Peers -> Int]
           /\ \A q \in Peers : /\ peers'[q].pinged \subseteq peers'[q].connections
                               /\ q # p => peers'[q] = peers[q] /\ announced'[q] = announced[q]
           /\ peers'[p].connections = peers[p].connections \ {c}
           /\ peers'[p].connections # {} =>
                 peers'[p].protected = peers[p].protected /\ announced'[p] = announced[p]
           /\ peers[p].connections # {} /\ peers'[p].connections = {} => announced'[p] = announced[p] - 1
           /\ keepAliveEvents' = keepAliveEvents
<1>0. /\ TableOK(peers) /\ peers \in [Peers -> PeerEntry]
      /\ announced \in [Peers -> Int] /\ protectCounter \in [Tags -> 0..Cardinality(Peers)]
      /\ \A q \in Peers : peers[q].pinged \subseteq peers[q].connections
      /\ CountersAgree /\ info = Recount(peers)
  BY TypeParts DEF TrackerInv, TableOK, OthersOK, PeersAreReported
<1> DEFINE rest == peers[p].connections \ {c}
           entry == [peers[p] EXCEPT !.connections = rest, !.pinged = @ \ {c}]
           gone == UnprotectedTags(p)
           last == [entry EXCEPT !.full = FALSE, !.archival = FALSE, !.left = TRUE,
                                 !.protected = @ \ gone]
<1>1. CASE ~peers[p].known
  <2>1. peers' = peers /\ info' = info /\ protectCounter' = protectCounter /\ announced' = announced
        /\ keepAliveEvents' = keepAliveEvents
    BY <1>1 DEF OnPeerDisconnected, trackerVars
  <2>2. peers[p].connections = {}
    BY <1>0, <1>1, ConnectedIsKnown, Zenon
  <2>3. CountersAgree'
    BY <1>0, <2>1, Zenon DEF CountersAgree, Connected, IsConnected
  <2> QED
    BY <1>0, <2>1, <2>2, <2>3, Zenon
<1>2. CASE peers[p].known /\ rest # {}
  <2>1. /\ peers' = [peers EXCEPT ![p] = entry] /\ info' = Recount(peers')
        /\ protectCounter' = protectCounter /\ announced' = announced
        /\ keepAliveEvents' = keepAliveEvents
    BY <1>2, Zenon DEF OnPeerDisconnected, SetPeers
  <2>2. /\ entry \in PeerEntry /\ entry.known /\ entry.connections = rest
        /\ entry.pinged \subseteq rest /\ entry.protected = peers[p].protected
    BY <1>0, <1>2, Zenon DEF PeerEntry
  <2> HIDE DEF entry
  <2>3. TableOK(peers')
    BY <1>0, <2>1, <2>2, TableUpdated, Zenon
  <2>4. \A q \in Peers : /\ peers'[q].pinged \subseteq peers'[q].connections
                         /\ q # p => peers'[q] = peers[q]
                         /\ peers'[q].protected = peers[q].protected
    BY <1>0, <2>1, <2>2, Zenon
  <2>5. peers'[p].connections = rest
    BY <1>0, <2>1, <2>2, Zenon
  <2>6. Connected \subseteq Connected'
    BY <1>2, <2>4, <2>5, Zenon DEF Connected, IsConnected
  <2>7. CountersAgree'
    BY <1>0, <2>1, <2>4, <2>6, ProtectionKept, Zenon
  <2> QED
    BY <1>0, <1>2, <2>1, <2>3, <2>4, <2>5, <2>7, Zenon
<1>3. CASE peers[p].known /\ rest = {}
  <2>1. /\ peers' = [peers EXCEPT ![p] = last] /\ info' = Recount(peers')
        /\ protectCounter' = [t \in Tags |-> protectCounter[t] - (IF t \in gone THEN 1 ELSE 0)]
        /\ announced' = [announced EXCEPT ![p] = @ - 1]
        /\ keepAliveEvents' = keepAliveEvents
    BY <1>3 DEF OnPeerDisconnected, SetPeers
  <2>2. /\ last \in PeerEntry /\ last.known /\ last.connections = {}
        /\ last.pinged = {} /\ last.protected = peers[p].protected \ gone
    BY <1>0, <1>3, Zenon DEF PeerEntry
  <2>2a. /\ BootnodeTag # FullTag /\ BootnodeTag # ArchivalTag /\ FullTag # ArchivalTag
         /\ Tags = {BootnodeTag, FullTag, ArchivalTag}
    BY DEF BootnodeTag, FullTag, ArchivalTag, Tags
  <2>2b. /\ \A t \in Tags : t \in gone <=> t # BootnodeTag /\ t \in peers[p].protected
         /\ peers[p].protected \subseteq Tags
    <3>1. peers[p].protected \subseteq Tags
      BY <1>0 DEF PeerEntry
    <3> QED
      BY <2>2a, <3>1 DEF UnprotectedTags
  <2> HIDE DEF last, gone
  <2>3. TableOK(peers')
    BY <1>0, <2>1, <2>2, TableUpdated, Zenon
  <2>4. /\ \A q \in Peers \ {p} : peers'[q] = peers[q]
        /\ peers'[p].connections = {} /\ peers'[p].pinged = {}
        /\ peers'[p].protected = peers[p].protected \ gone
    BY <1>0, <2>1, <2>2, Zenon
  <2>5. announced' \in [Peers -> Int] /\ announced'[p] = announced[p] - 1
        /\ \A q \in Peers \ {p} : announced'[q] = announced[q]
    <3>1. announced \in [Peers -> Int] /\ announced' = [announced EXCEPT ![p] = @ - 1]
      BY <1>0, <2>1, Zenon
    <3> QED
      BY <3>1
  <2>6. ASSUME NEW t \in Tags
        PROVE  /\ protectCounter'[t] = Cardinality({q \in Peers : t \in peers'[q].protected})
               /\ protectCounter'[t] <= protectCounter[t] /\ protectCounter[t] \in Nat
    <3> DEFINE S == {q \in Peers : t \in peers[q].protected}
               T == {q \in Peers : t \in peers'[q].protected}
    <3>1. IsFiniteSet(S) /\ Cardinality(S) \in Nat /\ protectCounter[t] = Cardinality(S)
      <4>1. IsFiniteSet(Peers) /\ S \subseteq Peers
        BY PeersAssumption
      <4>2. protectCounter[t] = Cardinality(S)
        BY <1>0, Zenon DEF CountersAgree
      <4> QED
        BY <4>1, <4>2, FS_Subset, FS_CardinalityType, Zenon
    <3>2. CASE t \in gone
      <4>1. T = S \ {p} /\ p \in S
        BY <2>2b, <2>4, <3>2, Zenon
      <4>2. Cardinality(T) = Cardinality(S) - 1
        BY <3>1, <4>1, FS_RemoveElement, Zenon
      <4>3. protectCounter'[t] = protectCounter[t] - 1
        BY <2>1, <3>2
      <4> HIDE DEF S, T
      <4>4. PICK n \in Nat : n = Cardinality(S)
        BY <3>1, Zenon
      <4>5. protectCounter[t] = n /\ protectCounter'[t] = n - 1 /\ Cardinality(T) = n - 1
        BY <3>1, <4>2, <4>3, <4>4, Zenon
      <4>6. n - 1 <= n
        OBVIOUS
      <4>7. protectCounter'[t] = Cardinality(T) /\ protectCounter'[t] <= protectCounter[t]
        BY <4>5, <4>6, Zenon
      <4> QED
        BY <3>1, <4>7, Zenon DEF T
    <3>3. CASE t \notin gone
      <4>1. T = S
        BY <2>4, <3>3
      <4>2. protectCounter'[t] = protectCounter[t] - 0
        BY <2>1, <3>3
      <4> HIDE DEF S, T
      <4>3. protectCounter'[t] = Cardinality(T) /\ protectCounter'[t] <= protectCounter[t]
        BY <3>1, <4>1, <4>2
      <4> QED
        BY <3>1, <4>3, Zenon DEF T
    <3> QED
      BY <3>2, <3>3
  <2>6a. \A t \in Tags : protectCounter'[t] <= protectCounter[t] /\ protectCounter[t] \in Nat
    BY <2>6, Zenon
  <2>7. Counted(protectCounter', peers')
    BY <2>6 DEF Counted
  <2>8. protectCounter' \in [Tags -> 0..Cardinality(Peers)]
    <3>1. protectCounter' = [t \in Tags |-> protectCounter'[t]]
      BY <2>1
    <3> QED
      BY <2>7, <3>1, CountsAreTyped
  <2>9. \A t \in {FullTag, ArchivalTag} : protectCounter'[t] <= ProtectLimit
    <3> SUFFICES ASSUME NEW t \in {FullTag, ArchivalTag} PROVE protectCounter'[t] <= ProtectLimit
      OBVIOUS
    <3>1. protectCounter[t] <= ProtectLimit /\ t \in Tags
      BY <1>0, <2>2a DEF CountersAgree
    <3>2. protectCounter'[t] \in Nat /\ protectCounter'[t] <= protectCounter[t] /\ protectCounter[t] \in Nat
      BY <2>6a, <2>8, <3>1
    <3> QED
      BY <3>1, <3>2, PeersAssumption
  <2>10. \A q \in Peers \ Connected' : peers'[q].protected \subseteq {BootnodeTag}
    <3> SUFFICES ASSUME NEW q \in Peers \ Connected' PROVE peers'[q].protected \subseteq {BootnodeTag}
      OBVIOUS
    <3>1. CASE q = p
      BY <2>2b, <2>4, <3>1
    <3>2. CASE q # p
      <4>1. q \notin Connected /\ peers'[q] = peers[q]
        BY <2>4, <3>2 DEF Connected, IsConnected
      <4> QED
        BY <1>0, <4>1 DEF CountersAgree
    <3> QED
      BY <3>1, <3>2, Zenon
  <2>11. \A q \in Bootnodes : BootnodeTag \in peers'[q].protected
    <3> SUFFICES ASSUME NEW q \in Bootnodes PROVE BootnodeTag \in peers'[q].protected
      OBVIOUS
    <3>1. BootnodeTag \in peers[q].protected /\ q \in Peers /\ BootnodeTag \in Tags
      BY <1>0, <2>2a, PeersAssumption, Zenon DEF CountersAgree
    <3> QED
      BY <2>2b, <2>4, <3>1
  <2>12. CountersAgree'
    BY <2>7, <2>9, <2>10, <2>11, Zenon DEF CountersAgree, Counted
  <2> QED
    BY <1>0, <1>3, <2>1, <2>3, <2>4, <2>5, <2>8, <2>12, Zenon
<1> QED
  BY <1>1, <1>2, <1>3, Zenon

LEMMA DisconnectedStep ==
    ASSUME TrackerInv, swarmEvents # <<>>, phase \in {"running", "stopping"},
           NEW p \in Peers, NEW c \in AllConns, Head(swarmEvents) = Closed(p, c),
           OnPeerDisconnected(p, c), swarmEvents' = Tail(swarmEvents),
           UNCHANGED <<open, keepAlive, dialing, blocked, phase>>
    PROVE  TrackerInv'
<1>0. OthersOK /\ swarmEvents \in Seq(SwarmEvent) /\ open \in [Peers -> SUBSET AllConns]
  BY TypeParts, Zenon DEF TrackerInv, OthersOK
<1>1. /\ TableOK(peers') /\ info' = Recount(peers') /\ CountersAgree'
      /\ protectCounter' \in [Tags -> 0..Cardinality(Peers)] /\ announced' \in [Peers -> Int]
      /\ \A q \in Peers : /\ peers'[q].pinged \subseteq peers'[q].connections
                          /\ q # p => peers'[q] = peers[q] /\ announced'[q] = announced[q]
      /\ peers'[p].connections = peers[p].connections \ {c}
      /\ peers'[p].connections # {} =>
            peers'[p].protected = peers[p].protected /\ announced'[p] = announced[p]
      /\ peers[p].connections # {} /\ peers'[p].connections = {} => announced'[p] = announced[p] - 1
      /\ keepAliveEvents' = keepAliveEvents
  BY Disconnected, Zenon
<1>2. PeersTypeOK'
  BY <1>0, <1>1, NextTypeParts, Zenon DEF OthersOK
<1>3. /\ swarmEvents' \in Seq(SwarmEvent)
      /\ keepAliveEvents' \subseteq [peer : Peers, conn : AllConns, value : {TRUE}]
      /\ keepAliveEvents \subseteq [peer : Peers, conn : AllConns, value : {TRUE}]
  BY <1>0, <1>1, TailFacts, Zenon DEF TrackerInv
<1>4. CASE phase = "running"
  <2>1. InStep(swarmEvents, Tracked, open) /\ ToldOfProtected /\ KeptAreTracked /\ KeepAliveAgrees
    BY <1>4, Zenon DEF TrackerInv
  <2>2. c \notin open[p] /\ c \in peers[p].connections
    <3>1. 1 \in 1..Len(swarmEvents) /\ swarmEvents[1] = Closed(p, c)
      BY <1>0, TailFacts
    <3>2. 1..(1 - 1) = {}
      OBVIOUS
    <3> QED
      BY <2>1, <3>1, <3>2, Zenon DEF InStep, Tracked
  <2>3. PeersAreReported'
    <3> SUFFICES ASSUME NEW q \in Peers
                 PROVE  announced'[q] = IF IsConnected(q)' THEN 1 ELSE 0
      BY <1>1, Zenon DEF PeersAreReported
    <3>1. announced[q] = IF IsConnected(q) THEN 1 ELSE 0
      BY <1>4, Zenon DEF TrackerInv, PeersAreReported
    <3>2. CASE q = p
      <4>1. announced[p] = 1
        BY <2>2, <3>1, <3>2, Zenon DEF IsConnected
      <4>2. CASE peers'[p].connections = {}
        <5>1. announced'[p] = announced[p] - 1 /\ ~IsConnected(p)'
          BY <1>1, <2>2, <4>2, Zenon DEF IsConnected
        <5> QED
          BY <3>2, <4>1, <5>1
      <4>3. CASE peers'[p].connections # {}
        <5>1. announced'[p] = announced[p] /\ IsConnected(p)'
          BY <1>1, <4>3, Zenon DEF IsConnected
        <5> QED
          BY <3>2, <4>1, <5>1, Zenon
      <4> QED
        BY <4>2, <4>3
    <3>3. CASE q # p
      BY <1>1, <3>1, <3>3, Zenon DEF IsConnected
    <3> QED
      BY <3>2, <3>3
  <2>4. InStep(swarmEvents, Tracked, open)'
    <3> DEFINE ts == Tracked'
    <3>1. /\ \A q \in Peers : \A d : ~(q = p /\ d = c) => (d \in ts[q] <=> d \in Tracked[q])
          /\ c \notin ts[p]
      BY <1>1, Zenon DEF Tracked
    <3> HIDE DEF ts
    <3>2. InStep(Tail(swarmEvents), ts, open)
      <4>0. /\ swarmEvents \in Seq(SwarmEvent) /\ open \in [Peers -> SUBSET AllConns]
            /\ p \in Peers /\ c \in AllConns
        BY <1>0, Zenon
      <4>1. InStep(swarmEvents, Tracked, open) /\ Head(swarmEvents) = Closed(p, c) /\ swarmEvents # <<>>
        BY <2>1, Zenon
      <4>2. \/ Head(swarmEvents) = Established(p, c) /\ c \in ts[p]
            \/ Head(swarmEvents) = Closed(p, c) /\ c \notin ts[p]
        BY <3>1, <4>1, Zenon
      <4>3. \A q \in Peers : \A d : ~(q = p /\ d = c) => (d \in ts[q] <=> d \in Tracked[q])
        BY <3>1, Zenon
      <4> QED
        BY <4>0, <4>1, <4>2, <4>3, InStepHeard
    <3> QED
      BY <3>2, InStepNext, Zenon DEF ts
  <2>5. ASSUME NEW q \in Peers, NEW d \in peers[q].connections, d \in open[q]
        PROVE  d \in peers'[q].connections /\ IsProtected(q)' = IsProtected(q)
    <3>1. CASE q = p
      <4>1. d # c
        BY <2>2, <2>5, <3>1
      <4>2. d \in peers'[p].connections
        BY <1>1, <2>5, <3>1, <4>1, Zenon
      <4> QED
        BY <1>1, <3>1, <4>2, Zenon DEF IsProtected
    <3>2. CASE q # p
      BY <1>1, <2>5, <3>2, Zenon DEF IsProtected
    <3> QED
      BY <3>1, <3>2, Zenon
  <2>6. ToldOfProtected'
    <3> SUFFICES ASSUME NEW f \in keepAliveEvents, f.conn \in open[f.peer]
                 PROVE  f.conn \in peers'[f.peer].connections /\ IsProtected(f.peer)'
      BY <1>1, Zenon DEF ToldOfProtected
    <3>1. f.peer \in Peers
      BY <1>3, Zenon
    <3>2. f.conn \in peers[f.peer].connections /\ IsProtected(f.peer)
      BY <2>1 DEF ToldOfProtected
    <3> QED
      BY <2>5, <3>1, <3>2, Zenon
  <2>7. KeptAreTracked'
    BY <2>1, <2>5 DEF KeptAreTracked
  <2>8. KeepAliveAgrees'
    <3> SUFFICES ASSUME NEW q \in Peers, NEW d \in peers'[q].connections \cap open[q],
                        \A f \in keepAliveEvents : f.peer # q \/ f.conn # d
                 PROVE  (d \in keepAlive[q]) <=> IsProtected(q)'
      BY <1>1, Zenon DEF KeepAliveAgrees
    <3>1. d \in peers[q].connections \cap open[q]
      BY <1>1, Zenon
    <3>2. (d \in keepAlive[q]) <=> IsProtected(q)
      BY <1>4, <2>1, <3>1, Zenon DEF KeepAliveAgrees
    <3> QED
      BY <2>5, <3>1, <3>2
  <2> QED
    BY <1>1, <1>2, <1>3, <2>3, <2>4, <2>6, <2>7, <2>8, Zenon DEF TrackerInv
<1>5. CASE phase = "stopping"
  <2>1. PeersAreReported' /\ phase' # "running"
    BY <1>1, <1>5, Zenon DEF PeersAreReported
  <2> QED
    BY <1>1, <1>2, <1>3, <2>1, Zenon DEF TrackerInv
<1> QED
  BY <1>4, <1>5

-----------------------------------------------------------------------------
(* The health check                                                        *)

\* As many candidates are chosen as there is room for.
LEMMA BestFits ==
    ASSUME NEW t \in Tags, protectCounter[t] \in Nat, NEW s \in Best(t)
    PROVE  /\ s \subseteq Candidates(t) /\ IsFiniteSet(s) /\ Cardinality(s) \in Nat
           /\ protectCounter[t] + Cardinality(s) <= ProtectLimit
              \/ Cardinality(s) = 0
<1>1. s \subseteq Candidates(t) /\ Candidates(t) \subseteq Peers
      /\ Cardinality(s) = Min({Cardinality(Candidates(t)), Room(t)})
  BY Zenon DEF Best, Candidates
<1>2. /\ IsFiniteSet(s) /\ Cardinality(s) \in Nat
      /\ IsFiniteSet(Candidates(t)) /\ Cardinality(Candidates(t)) \in Nat
  BY <1>1, PeersAssumption, FS_Subset, FS_CardinalityType
<1>3. Room(t) \in Int
  BY PeersAssumption DEF Room
<1>4. Cardinality(s) <= Room(t)
  <2> DEFINE n == Cardinality(Candidates(t))
             r == Room(t)
  <2>1. n \in Int /\ r \in Int
    BY <1>2, <1>3
  <2> HIDE DEF n, r
  <2>2. \E x \in {n, r} : \A y \in {n, r} : x <= y
    BY <2>1
  <2>3. Min({n, r}) <= r
    BY <2>2 DEF Min
  <2> QED
    BY <1>1, <2>3 DEF n, r
<1> QED
  BY <1>1, <1>2, <1>3, <1>4, PeersAssumption DEF Room

LEMMA HealthCheckStep ==
    ASSUME TrackerInv, PeerHealthCheck
    PROVE  TrackerInv'
<1>0. /\ OthersOK /\ TableOK(peers) /\ peers \in [Peers -> PeerEntry]
      /\ protectCounter \in [Tags -> 0..Cardinality(Peers)]
      /\ \A q \in Peers : peers[q].pinged \subseteq peers[q].connections
      /\ CountersAgree /\ PeersAreReported /\ phase = "running" /\ phase' = phase
      /\ UNCHANGED <<info, announced, open, keepAlive, swarmEvents, blocked>>
  BY TypeParts DEF TrackerInv, TableOK, OthersOK, PeerHealthCheck
<1>1. InStep(swarmEvents, Tracked, open) /\ ToldOfProtected /\ KeptAreTracked /\ KeepAliveAgrees
  BY <1>0 DEF TrackerInv
<1> DEFINE tagsOf(f, a, p) == (IF p \in f THEN {FullTag} ELSE {}) \cup (IF p \in a THEN {ArchivalTag} ELSE {})
<1>2. PICK f \in Best(FullTag), a \in Best(ArchivalTag) :
          /\ peers' = [p \in Peers |-> [peers[p] EXCEPT !.protected = @ \cup tagsOf(f, a, p)]]
          /\ protectCounter' = [t \in Tags |-> protectCounter[t]
                                   + Cardinality({p \in Peers : t \in tagsOf(f, a, p)})]
          /\ SetKeepAlive({p \in f \cup a : ~IsProtected(p)}, TRUE)
          /\ dialing' = IF info.connected = 0 THEN dialing \cup Dialable(Bootnodes) ELSE dialing
  BY Zenon DEF PeerHealthCheck
<1> DEFINE new == {p \in f \cup a : ~IsProtected(p)}
           X(t) == {p \in Peers : t \in tagsOf(f, a, p)}
           S(t) == {p \in Peers : t \in peers[p].protected}
<1>3. /\ BootnodeTag # FullTag /\ BootnodeTag # ArchivalTag /\ FullTag # ArchivalTag
      /\ Tags = {BootnodeTag, FullTag, ArchivalTag}
  BY DEF BootnodeTag, FullTag, ArchivalTag, Tags
<1>4. f \subseteq Candidates(FullTag) /\ a \subseteq Candidates(ArchivalTag)
  BY DEF Best
<1>5. /\ f \subseteq Connected /\ a \subseteq Connected /\ Connected \subseteq Peers
      /\ \A p \in f : FullTag \notin peers[p].protected
      /\ \A p \in a : ArchivalTag \notin peers[p].protected
  BY <1>0, <1>4, Zenon DEF Candidates, Connected, IsConnected
<1>6. ASSUME NEW p \in Peers
      PROVE  /\ tagsOf(f, a, p) \subseteq Tags \ {BootnodeTag}
             /\ p \notin Connected => tagsOf(f, a, p) = {}
             /\ (tagsOf(f, a, p) # {}) <=> (p \in f \cup a)
             /\ FullTag \in tagsOf(f, a, p) <=> p \in f
             /\ ArchivalTag \in tagsOf(f, a, p) <=> p \in a
             /\ \A t \in tagsOf(f, a, p) : t \notin peers[p].protected
  BY <1>3, <1>5, Zenon
<1>7. ASSUME NEW p \in Peers
      PROVE  /\ peers'[p] \in PeerEntry /\ peers'[p].known = peers[p].known
             /\ peers'[p].protected = peers[p].protected \cup tagsOf(f, a, p)
             /\ peers'[p].connections = peers[p].connections /\ peers'[p].pinged = peers[p].pinged
             /\ peers'[p].trusted = peers[p].trusted /\ peers'[p].full = peers[p].full
             /\ peers'[p].archival = peers[p].archival
             /\ tagsOf(f, a, p) = {} => peers'[p] = peers[p]
  <2> DEFINE g == tagsOf(f, a, p)
  <2>1. g \subseteq Tags /\ peers[p] \in PeerEntry
    BY <1>0, <1>6, Zenon
  <2>2. peers'[p] = [peers[p] EXCEPT !.protected = @ \cup g]
    BY <1>2
  <2> HIDE DEF g
  <2>3. /\ peers'[p] \in PeerEntry /\ peers'[p].known = peers[p].known
        /\ peers'[p].protected = peers[p].protected \cup g
        /\ peers'[p].connections = peers[p].connections /\ peers'[p].pinged = peers[p].pinged
        /\ peers'[p].trusted = peers[p].trusted /\ peers'[p].full = peers[p].full
        /\ peers'[p].archival = peers[p].archival
    BY <2>1, <2>2 DEF PeerEntry
  <2>4. g = {} => peers'[p] = peers[p]
    BY <2>1, <2>2 DEF PeerEntry
  <2> QED
    BY <2>3, <2>4, Zenon DEF g
<1>8. DOMAIN protectCounter' = Tags
      /\ \A t \in Tags : protectCounter'[t] = protectCounter[t] + Cardinality(X(t))
  BY <1>2
<1>8a. protectCounter' = [t \in Tags |-> protectCounter'[t]]
  BY <1>2
<1>8b. X(FullTag) = f /\ X(ArchivalTag) = a
  BY <1>5, <1>6
<1>8c. peers' = [p \in Peers |-> peers'[p]]
  BY <1>2
<1>8d. /\ dialing' \subseteq Peers
       /\ keepAliveEvents' = keepAliveEvents \cup UNION {
              [peer : {p}, conn : peers[p].connections, value : {TRUE}] : p \in new}
  <2>1. Dialable(Bootnodes) \subseteq Peers /\ dialing \subseteq Peers
    BY <1>0, PeersAssumption, Zenon DEF Dialable, OthersOK
  <2> QED
    BY <1>2, <2>1 DEF SetKeepAlive
<1> HIDE DEF tagsOf, X
<1>9. TableOK(peers')
  <2>1. \A p \in Peers : ~peers'[p].known => peers'[p] = Unknown
    <3> SUFFICES ASSUME NEW p \in Peers, ~peers'[p].known PROVE peers'[p] = Unknown
      OBVIOUS
    <3>1. ~peers[p].known
      BY <1>7, Zenon
    <3>2. peers[p] = Unknown /\ p \notin Connected
      BY <1>0, <3>1, ConnectedIsKnown, Zenon DEF TableOK, Connected, IsConnected
    <3> QED
      BY <1>6, <1>7, <3>2
  <2>2. peers' \in [Peers -> PeerEntry]
    BY <1>7, <1>8c
  <2> QED
    BY <2>1, <2>2 DEF TableOK
<1>10. info' = Recount(peers')
  <2>1. SameShown(peers, peers')
    BY <1>7 DEF SameShown
  <2>2. Recount(peers) = Recount(peers')
    BY <2>1, RecountSame
  <2> QED
    BY <1>0, <2>2, Zenon DEF PeersAreReported
<1>11. Connected' = Connected /\ Tracked' = Tracked
       /\ \A p \in Peers : IsConnected(p)' = IsConnected(p)
  BY <1>7, Zenon DEF Connected, Tracked, IsConnected
<1>12. Counted(protectCounter', peers')
  <2> SUFFICES ASSUME NEW t \in Tags
               PROVE  protectCounter'[t] = Cardinality({p \in Peers : t \in peers'[p].protected})
    BY DEF Counted
  <2>1. {p \in Peers : t \in peers'[p].protected} = S(t) \cup X(t) /\ S(t) \cap X(t) = {}
    <3>1. \A p \in Peers : /\ t \in peers'[p].protected <=> t \in peers[p].protected \/ t \in tagsOf(f, a, p)
                           /\ ~(t \in peers[p].protected /\ t \in tagsOf(f, a, p))
      <4> SUFFICES ASSUME NEW p \in Peers
                   PROVE  /\ t \in peers'[p].protected <=> t \in peers[p].protected \/ t \in tagsOf(f, a, p)
                          /\ ~(t \in peers[p].protected /\ t \in tagsOf(f, a, p))
        BY Zenon
      <4>1. peers'[p].protected = peers[p].protected \cup tagsOf(f, a, p)
        BY <1>7, Zenon
      <4>2. \A u \in tagsOf(f, a, p) : u \notin peers[p].protected
        BY <1>6, Zenon
      <4> QED
        BY <4>1, <4>2, Zenon
    <3> QED
      BY <3>1, Zenon DEF X
  <2>2. IsFiniteSet(S(t)) /\ IsFiniteSet(X(t))
    <3>1. S(t) \subseteq Peers /\ X(t) \subseteq Peers /\ IsFiniteSet(Peers)
      BY PeersAssumption DEF X
    <3> QED
      BY <3>1, FS_Subset
  <2>3. protectCounter[t] = Cardinality(S(t))
    BY <1>0, Zenon DEF CountersAgree
  <2> HIDE DEF S
  <2>4. /\ Cardinality(S(t) \cup X(t)) = Cardinality(S(t)) + Cardinality(X(t)) - Cardinality({})
        /\ Cardinality({}) = 0 /\ Cardinality(S(t)) \in Nat /\ Cardinality(X(t)) \in Nat
    <3>1. /\ Cardinality(S(t) \cup X(t)) = Cardinality(S(t)) + Cardinality(X(t)) - Cardinality(S(t) \cap X(t))
          /\ Cardinality(S(t)) \in Nat /\ Cardinality(X(t)) \in Nat
      BY <2>2, FS_Union, FS_CardinalityType, Zenon
    <3>2. Cardinality({}) = 0
      BY FS_EmptySet
    <3> QED
      BY <2>1, <3>1, <3>2, Zenon
  <2>5. protectCounter'[t] = Cardinality(S(t) \cup X(t))
    BY <1>8, <2>3, <2>4
  <2> QED
    BY <2>1, <2>5, Zenon
<1>13. protectCounter' \in [Tags -> 0..Cardinality(Peers)]
  BY <1>8a, <1>12, CountsAreTyped
<1>14. \A t \in {FullTag, ArchivalTag} : protectCounter'[t] <= ProtectLimit
  <2>1. /\ protectCounter[FullTag] \in Nat /\ protectCounter[ArchivalTag] \in Nat
        /\ protectCounter[FullTag] <= ProtectLimit /\ protectCounter[ArchivalTag] <= ProtectLimit
        /\ FullTag \in Tags /\ ArchivalTag \in Tags
    <3>1. FullTag \in Tags /\ ArchivalTag \in Tags
      BY <1>3
    <3>2. protectCounter[FullTag] \in 0..Cardinality(Peers) /\ protectCounter[ArchivalTag] \in 0..Cardinality(Peers)
      BY <1>0, <3>1, Zenon
    <3>3. protectCounter[FullTag] <= ProtectLimit /\ protectCounter[ArchivalTag] <= ProtectLimit
      BY <1>0, Zenon DEF CountersAgree
    <3> QED
      BY <3>1, <3>2, <3>3
  <2>2. /\ Cardinality(f) \in Nat
        /\ protectCounter[FullTag] + Cardinality(f) <= ProtectLimit \/ Cardinality(f) = 0
    BY <2>1, BestFits
  <2>3. /\ Cardinality(a) \in Nat
        /\ protectCounter[ArchivalTag] + Cardinality(a) <= ProtectLimit \/ Cardinality(a) = 0
    BY <2>1, BestFits
  <2>4. protectCounter'[FullTag] <= ProtectLimit
    BY <1>8, <1>8b, <2>1, <2>2, PeersAssumption
  <2>5. protectCounter'[ArchivalTag] <= ProtectLimit
    BY <1>8, <1>8b, <2>1, <2>3, PeersAssumption
  <2> QED
    BY <2>4, <2>5
<1>15. CountersAgree'
  <2>1. \A p \in Peers \ Connected' : peers'[p].protected \subseteq {BootnodeTag}
    BY <1>0, <1>6, <1>7, <1>11, Zenon DEF CountersAgree
  <2>2. \A p \in Bootnodes : BootnodeTag \in peers'[p].protected
    BY <1>0, <1>7, PeersAssumption, Zenon DEF CountersAgree
  <2> QED
    BY <1>12, <1>14, <2>1, <2>2 DEF CountersAgree, Counted
<1>16. PeersAreReported' /\ PeersTypeOK'
  <2>1. OthersOK'
    BY <1>0, <1>8d, <1>13, Zenon DEF OthersOK
  <2> QED
    BY <1>0, <1>9, <1>10, <1>11, <2>1, NextTypeParts, Zenon DEF PeersAreReported
<1>17. /\ \A p \in new : p \in Peers /\ peers[p].connections \subseteq AllConns
       /\ keepAliveEvents \subseteq [peer : Peers, conn : AllConns, value : {TRUE}]
  <2>1. \A p \in new : p \in Peers
    BY <1>5
  <2> QED
    BY <1>0, <2>1, Zenon DEF PeerEntry, TrackerInv
<1> HIDE DEF new
<1>18. /\ \A e \in keepAliveEvents' : e \in keepAliveEvents \/
             (e.peer \in new /\ e.conn \in peers[e.peer].connections
              /\ e \in [peer : Peers, conn : AllConns, value : {TRUE}])
       /\ \A p \in new : \A d \in peers[p].connections :
             \E e \in keepAliveEvents' : e.peer = p /\ e.conn = d
       /\ keepAliveEvents \subseteq keepAliveEvents'
  <2>1. ASSUME NEW e \in keepAliveEvents', e \notin keepAliveEvents
        PROVE  /\ e.peer \in new /\ e.conn \in peers[e.peer].connections
               /\ e \in [peer : Peers, conn : AllConns, value : {TRUE}]
    <3>1. PICK p \in new : e \in [peer : {p}, conn : peers[p].connections, value : {TRUE}]
      BY <1>8d, <2>1, Zenon
    <3> QED
      BY <1>17, <3>1, Zenon
  <2>2. ASSUME NEW p \in new, NEW d \in peers[p].connections
        PROVE  \E e \in keepAliveEvents' : e.peer = p /\ e.conn = d
    <3>1. PICK e : e = [peer |-> p, conn |-> d, value |-> TRUE]
      BY Zenon
    <3>2. e \in [peer : {p}, conn : peers[p].connections, value : {TRUE}] /\ e.peer = p /\ e.conn = d
      BY <3>1
    <3>3. e \in keepAliveEvents'
      BY <1>8d, <3>2, Zenon
    <3> QED
      BY <3>2, <3>3
  <2>3. keepAliveEvents \subseteq keepAliveEvents'
    BY <1>8d, Zenon
  <2> QED
    BY <2>1, <2>2, <2>3, Zenon
<1>19. \A p \in Peers : /\ IsProtected(p) => IsProtected(p)'
                        /\ p \in new => IsProtected(p)'
                        /\ p \notin new => IsProtected(p)' = IsProtected(p)
  <2> SUFFICES ASSUME NEW p \in Peers
               PROVE  /\ IsProtected(p) => IsProtected(p)'
                      /\ p \in new => IsProtected(p)'
                      /\ p \notin new => IsProtected(p)' = IsProtected(p)
    OBVIOUS
  <2>1. IsProtected(p)' = (peers[p].protected \cup tagsOf(f, a, p) # {})
    BY <1>7, Zenon DEF IsProtected
  <2>2. IsProtected(p) = (peers[p].protected # {})
    BY DEF IsProtected
  <2>3. p \in new <=> tagsOf(f, a, p) # {} /\ ~IsProtected(p)
    BY <1>6 DEF new
  <2> QED
    BY <2>1, <2>2, <2>3, Zenon
<1>20. ToldOfProtected'
  <2> SUFFICES ASSUME NEW e \in keepAliveEvents', e.conn \in open[e.peer]
               PROVE  e.conn \in peers'[e.peer].connections /\ IsProtected(e.peer)'
    BY <1>0, Zenon DEF ToldOfProtected
  <2>1. CASE e \in keepAliveEvents
    <3>1. e.peer \in Peers
      BY <1>17, <2>1, Zenon
    <3>2. e.conn \in peers[e.peer].connections /\ IsProtected(e.peer)
      BY <1>1, <2>1 DEF ToldOfProtected
    <3> QED
      BY <1>7, <1>19, <3>1, <3>2
  <2>2. CASE e.peer \in new /\ e.conn \in peers[e.peer].connections
    BY <1>7, <1>17, <1>19, <2>2, Zenon
  <2> QED
    BY <1>18, <2>1, <2>2, Zenon
<1>21. KeptAreTracked'
  BY <1>0, <1>1, <1>7, Zenon DEF KeptAreTracked
<1>22. KeepAliveAgrees'
  <2> SUFFICES ASSUME NEW q \in Peers, NEW d \in peers'[q].connections \cap open[q],
                      \A e \in keepAliveEvents' : e.peer # q \/ e.conn # d
               PROVE  (d \in keepAlive[q]) <=> IsProtected(q)'
    BY <1>0, Zenon DEF KeepAliveAgrees
  <2>1. d \in peers[q].connections \cap open[q]
    BY <1>7
  <2>2. q \notin new /\ \A e \in keepAliveEvents : e.peer # q \/ e.conn # d
    BY <1>18, <2>1
  <2>3. (d \in keepAlive[q]) <=> IsProtected(q)
    BY <1>0, <1>1, <2>1, <2>2, Zenon DEF KeepAliveAgrees
  <2> QED
    BY <1>19, <2>2, <2>3
<1>23. InStep(swarmEvents, Tracked, open)'
  <2>1. UNCHANGED <<swarmEvents, open>> /\ Tracked' = Tracked
    BY <1>0, <1>11, Zenon
  <2> QED
    BY <1>1, <2>1, InStepNext, Zenon
<1>24. /\ \A q \in Peers : peers'[q].pinged \subseteq peers'[q].connections
       /\ swarmEvents' \in Seq(SwarmEvent)
       /\ keepAliveEvents' \subseteq [peer : Peers, conn : AllConns, value : {TRUE}]
  <2>1. keepAliveEvents' \subseteq [peer : Peers, conn : AllConns, value : {TRUE}]
    BY <1>17, <1>18, Zenon
  <2>2. swarmEvents' \in Seq(SwarmEvent)
    BY <1>0 DEF TrackerInv
  <2> QED
    BY <1>0, <1>7, <2>1, <2>2, Zenon
<1> QED
  BY <1>15, <1>16, <1>20, <1>21, <1>22, <1>23, <1>24, Zenon DEF TrackerInv

-----------------------------------------------------------------------------
(* The tracker as a whole                                                  *)

LEMMA EventActions ==
    ASSUME TrackerInv, OnSwarmEvent \/ OnSwarmEventStopping
    PROVE  TrackerInv'
<1> DEFINE ev == Head(swarmEvents)
<1>0. swarmEvents \in Seq(SwarmEvent) /\ swarmEvents # <<>> /\ swarmEvents' = Tail(swarmEvents)
      /\ UNCHANGED <<open, keepAlive, dialing, blocked, phase>>
  BY Zenon DEF TrackerInv, OnSwarmEvent, OnSwarmEventStopping
<1>1. /\ ev.peer \in Peers /\ ev.conn \in AllConns /\ Tail(swarmEvents) \in Seq(SwarmEvent)
      /\ IF ev.type = "established" THEN ev = Established(ev.peer, ev.conn)
         ELSE ev.type = "closed" /\ ev = Closed(ev.peer, ev.conn)
  BY <1>0, FirstEvent
<1>2. CASE OnSwarmEvent /\ ev.type = "established"
  <2>1. phase = "running" /\ OnPeerConnected(ev.peer, ev.conn)
    BY <1>2 DEF OnSwarmEvent
  <2> QED
    BY <1>0, <1>1, <1>2, <2>1, ConnectedStep
<1>3. CASE ev.type # "established" /\ OnPeerDisconnected(ev.peer, ev.conn)
  <2>1. phase \in {"running", "stopping"}
    BY DEF OnSwarmEvent, OnSwarmEventStopping
  <2> QED
    BY <1>0, <1>1, <1>3, <2>1, DisconnectedStep
<1>4. CASE OnSwarmEventStopping /\ ev.type = "established"
  <2>1. phase = "stopping" /\ UNCHANGED <<peers, protectCounter, info, announced, keepAliveEvents>>
    BY <1>4 DEF OnSwarmEventStopping, trackerVars
  <2>2. PeersTypeOK'
    BY <1>0, <2>1, Zenon DEF TrackerInv, PeersTypeOK
  <2>3. CountersAgree' /\ PeersAreReported'
    BY <1>0, <2>1, Zenon DEF TrackerInv, CountersAgree, PeersAreReported, Connected, IsConnected
  <2> QED
    BY <1>0, <1>1, <2>1, <2>2, <2>3, Zenon DEF TrackerInv
<1> QED
  BY <1>1, <1>2, <1>3, <1>4, Zenon DEF OnSwarmEvent, OnSwarmEventStopping

LEMMA PeersNextStep ==
    ASSUME TrackerInv, PeersNext
    PROVE  TrackerInv'
<1>1. ASSUME Manager \/ DeliverKeepAlive \/ ConnectToBootnodes PROVE TrackerInv'
  <2>1. CASE OnSwarmEvent \/ OnSwarmEventStopping
    BY <2>1, EventActions
  <2>2. CASE PeerHealthCheck
    BY <2>2, HealthCheckStep
  <2>3. CASE DeliverKeepAlive
    BY <2>3, DeliverStep
  <2>4. CASE Gc \/ Stop \/ Stopped \/ ConnectToBootnodes
    BY <2>4, QuietActions
  <2> QED
    BY <1>1, <2>1, <2>2, <2>3, <2>4 DEF Manager
<1>2. ASSUME NEW p \in Named,
             \/ PeerMaybeDiscovered(p) \/ BlacklistPeer(p)
             \/ \E b \in BOOLEAN : SetPeerTrust(p, b)
      PROVE  TrackerInv'
  BY <1>2, PeersAssumption, QuietActionsOf
<1>3. ASSUME NEW p \in Peers, DialFails(p) \/ OnIdentify(p) \/ OnProvider(p) PROVE TrackerInv'
  BY <1>3, QuietActionsOf
<1>4. ASSUME NEW p \in Peers, NEW c \in Conns[p],
             Establish(p, c) \/ Close(p, c) \/ OnPing(p, c) \/ CloseOnStop(p, c)
      PROVE  TrackerInv'
  BY <1>4, EstablishStep, ClosingActions, Zenon
<1> QED
  BY <1>1, <1>2, <1>3, <1>4, Zenon DEF PeersNext

\* The node starts, or has been running with every peer connected once.
LEMMA FirstCounts ==
    ASSUME NEW ps, NEW counter,
           \A p \in Peers : ps[p].protected = IF p \in Bootnodes THEN {BootnodeTag} ELSE {},
           counter = [t \in Tags |-> IF t = BootnodeTag THEN Cardinality(Bootnodes) ELSE 0]
    PROVE  /\ Counted(counter, ps) /\ counter \in [Tags -> 0..Cardinality(Peers)]
           /\ \A t \in {FullTag, ArchivalTag} : counter[t] <= ProtectLimit
<1>1. /\ BootnodeTag # FullTag /\ BootnodeTag # ArchivalTag /\ FullTag # ArchivalTag
      /\ Tags = {BootnodeTag, FullTag, ArchivalTag}
  BY DEF BootnodeTag, FullTag, ArchivalTag, Tags
<1>2. ASSUME NEW t \in Tags PROVE counter[t] = Cardinality({p \in Peers : t \in ps[p].protected})
  <2>1. CASE t = BootnodeTag
    <3>1. {p \in Peers : t \in ps[p].protected} = Bootnodes
      BY <2>1, PeersAssumption
    <3> QED
      BY <2>1, <3>1, Zenon
  <2>2. CASE t # BootnodeTag
    <3>1. {p \in Peers : t \in ps[p].protected} = {}
      BY <2>2
    <3> QED
      BY <2>2, <3>1, FS_EmptySet, Zenon
  <2> QED
    BY <2>1, <2>2
<1>3. Counted(counter, ps)
  BY <1>2 DEF Counted
<1>4. counter = [t \in Tags |-> counter[t]]
  OBVIOUS
<1>5. \A t \in {FullTag, ArchivalTag} : counter[t] <= ProtectLimit
  BY <1>1, PeersAssumption
<1> QED
  BY <1>3, <1>4, <1>5, CountsAreTyped

\* Without events, what is open must be tracked.
LEMMA InStepAtFirst ==
    ASSUME NEW tr, NEW op, \A p \in Peers : op[p] \subseteq tr[p]
    PROVE  InStep(<<>>, tr, op) /\ <<>> \in Seq(SwarmEvent)
<1>1. Len(<<>>) = 0 /\ 1..0 = {} /\ <<>> \in Seq(SwarmEvent)
  OBVIOUS
<1> QED
  BY <1>1 DEF InStep

LEMMA TrackerAtFirst ==
    ASSUME PeersInit
    PROVE  TrackerInv
<1>0. /\ peers = [p \in Peers |-> IF p \in Bootnodes
             THEN [NewPeer EXCEPT !.trusted = TRUE, !.protected = {BootnodeTag}] ELSE Unknown]
      /\ protectCounter = [t \in Tags |-> IF t = BootnodeTag THEN Cardinality(Bootnodes) ELSE 0]
      /\ info = [connected |-> 0, trusted |-> 0, full |-> 0, archival |-> 0]
      /\ announced = [p \in Peers |-> 0]
      /\ open = [p \in Peers |-> {}] /\ keepAlive = [p \in Peers |-> {}] /\ keepAliveEvents = {}
      /\ swarmEvents = <<>> /\ dialing = Bootnodes /\ blocked = {} /\ phase = "running"
  BY DEF PeersInit
<1>1. \A p \in Peers : /\ peers[p] \in PeerEntry /\ peers[p].connections = {}
                       /\ peers[p].pinged = {} /\ (~peers[p].known => peers[p] = Unknown)
                       /\ peers[p].protected = IF p \in Bootnodes THEN {BootnodeTag} ELSE {}
  <2> SUFFICES ASSUME NEW p \in Peers
               PROVE  /\ peers[p] \in PeerEntry /\ peers[p].connections = {}
                      /\ peers[p].pinged = {} /\ (~peers[p].known => peers[p] = Unknown)
                      /\ peers[p].protected = IF p \in Bootnodes THEN {BootnodeTag} ELSE {}
    OBVIOUS
  <2>1. CASE p \in Bootnodes
    <3>1. peers[p] = [NewPeer EXCEPT !.trusted = TRUE, !.protected = {BootnodeTag}]
      BY <1>0, <2>1
    <3>2. PICK g \in SUBSET Tags : g = {BootnodeTag}
      BY Zenon DEF Tags
    <3>3. PICK n \in PeerEntry : n = NewPeer /\ n.known /\ n.pinged = {} /\ n.connections = {}
      BY NewPeerFacts
    <3>4. peers[p] = [n EXCEPT !.trusted = TRUE, !.protected = g]
      BY <3>1, <3>2, <3>3
    <3>5. /\ peers[p] \in PeerEntry /\ peers[p].known /\ peers[p].connections = {}
          /\ peers[p].pinged = {} /\ peers[p].protected = g
      BY <3>3, <3>4, Zenon DEF PeerEntry
    <3> QED
      BY <2>1, <3>2, <3>5
  <2>2. CASE p \notin Bootnodes
    BY <1>0, <2>2, NewPeerFacts
  <2> QED
    BY <2>1, <2>2, Zenon
<1>2. /\ Counted(protectCounter, peers) /\ protectCounter \in [Tags -> 0..Cardinality(Peers)]
      /\ \A t \in {FullTag, ArchivalTag} : protectCounter[t] <= ProtectLimit
  BY <1>0, <1>1, FirstCounts, Zenon
<1>3. PeersTypeOK
  <2>1. peers = [p \in Peers |-> peers[p]]
    BY <1>0
  <2>2. peers \in [Peers -> PeerEntry]
    BY <1>1, <2>1
  <2>3. TableOK(peers)
    BY <1>1, <2>2 DEF TableOK
  <2>4. /\ announced \in [Peers -> Int] /\ dialing \subseteq Peers /\ blocked \subseteq Peers
        /\ open \in [Peers -> SUBSET AllConns] /\ keepAlive \in [Peers -> SUBSET AllConns]
        /\ phase \in {"running", "stopping", "stopped"}
    BY <1>0, PeersAssumption
  <2>5. OthersOK
    BY <1>2, <2>4 DEF OthersOK
  <2> QED
    BY <2>3, <2>5, TypeParts
<1>4. CountersAgree
  <2>1. \A p \in Peers : peers[p].protected \subseteq {BootnodeTag}
    BY <1>1
  <2>2. \A p \in Bootnodes : BootnodeTag \in peers[p].protected
    BY <1>1, PeersAssumption
  <2> QED
    BY <1>2, <2>1, <2>2 DEF CountersAgree, Counted
<1>5. PeersAreReported
  <2>1. {p \in Peers : peers[p].connections # {}} = {}
    BY <1>1
  <2>2. Recount(peers) = info
    BY <1>0, <2>1, FS_EmptySet, Zenon DEF Recount
  <2> QED
    BY <1>0, <1>1, <2>2 DEF PeersAreReported, IsConnected
<1>6. InStep(swarmEvents, Tracked, open) /\ swarmEvents \in Seq(SwarmEvent)
  <2>1. \A p \in Peers : open[p] \subseteq Tracked[p]
    BY <1>0
  <2> QED
    BY <1>0, <2>1, InStepAtFirst
<1>7. ToldOfProtected /\ KeptAreTracked /\ KeepAliveAgrees
  BY <1>0, <1>1 DEF ToldOfProtected, KeptAreTracked, KeepAliveAgrees
<1>8. /\ keepAliveEvents \subseteq [peer : Peers, conn : AllConns, value : {TRUE}]
      /\ \A p \in Peers : peers[p].pinged \subseteq peers[p].connections
  BY <1>0, <1>1
<1> QED
  BY <1>3, <1>4, <1>5, <1>6, <1>7, <1>8, Zenon DEF TrackerInv

=============================================================================
