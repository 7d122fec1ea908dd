--------------------------- MODULE TxClientProofs ---------------------------
(***************************************************************************)
(* What is proved of TxClient, for any number of submissions, endpoints,   *)
(* other clients and faults: a submission is paid for at most once, no     *)
(* endpoint is lost, and without faults what is signed has the sequence    *)
(* the node expects.                                                       *)
(***************************************************************************)
EXTENDS TxClient, IntervalLemmas, FiniteSetTheorems, TLAPS

-----------------------------------------------------------------------------
(* The shape of the state                                                  *)

\* A task has four fields, and the node a status of every transaction.
Shaped ==
    /\ DOMAIN task = Submissions
    /\ \A t \in Submissions : DOMAIN task[t] = {"at", "snapshot", "idx", "seq"}
    /\ DOMAIN status = Txs

\* Only submission t moves, and what it has signed stays the same.
Moves(t, place) ==
    /\ DOMAIN task' = Submissions
    /\ \A u \in Submissions : DOMAIN task'[u] = {"at", "snapshot", "idx", "seq"}
    /\ \A u \in Submissions : u # t => task'[u] = task[u]
    /\ task'[t].at = place /\ task'[t].seq = task[t].seq

\* A task that goes to a place or starts a call moves.
LEMMA GoMoves ==
    ASSUME Shaped, NEW t \in Submissions, NEW place, Go(t, place)
    PROVE  Moves(t, place)
  BY DEF Shaped, Moves, Go

\* A task that starts a call moves.
LEMMA StartMoves ==
    ASSUME Shaped, NEW t \in Submissions, NEW rpc, Start(t, rpc)
    PROVE  Moves(t, rpc)
  BY DEF Shaped, Moves, Start, CallTo

\* A task that ends moves.
LEMMA EndMoves ==
    ASSUME Shaped, NEW t \in Submissions, NEW result, End(t, result)
    PROVE  Moves(t, result)
  BY GoMoves DEF End

\* A task that asks the next endpoint stays where it is.
LEMMA NextEndpointMoves ==
    ASSUME Shaped, NEW t \in Submissions, NextEndpoint(t)
    PROVE  Moves(t, task[t].at)
  BY DEF Shaped, Moves, NextEndpoint

-----------------------------------------------------------------------------
(* A submission is paid for at most once                                   *)

\* The inductive invariant: nothing is in the node but what was signed last.
PaidInv == Shaped /\ OnlyLastSigned

\* A broadcast of what was signed last, and a step that leaves the node alone,
\* keep the invariant.
LEMMA MovesKeepPaid ==
    ASSUME PaidInv, NEW t \in Submissions, NEW place, Moves(t, place),
           place \in BeforeBroadcast => task[t].at \in BeforeBroadcast,
           \/ UNCHANGED status
           \/ task[t].at \notin BeforeBroadcast /\ Received(Signed(t))
    PROVE  PaidInv'
<1>1. \A u \in Submissions : Signed(u)' = Signed(u)
  BY DEF Moves, Signed
<1>2. DOMAIN status' = Txs
  BY DEF PaidInv, Shaped, Received
<1>3. \A tx \in Txs : InMempoolCache(tx)' =>
          InMempoolCache(tx) \/ (tx = Signed(t) /\ task[t].at \notin BeforeBroadcast)
  BY DEF PaidInv, Shaped, Received, InMempoolCache
<1>4. ASSUME NEW u \in Submissions, NEW tx \in Txs, tx.body = Body[u], InMempoolCache(tx)'
      PROVE  tx = Signed(u) /\ task[u].at \notin BeforeBroadcast
  <2>1. CASE InMempoolCache(tx)
    BY <1>4, <2>1 DEF PaidInv, OnlyLastSigned
  <2>2. CASE tx = Signed(t) /\ task[t].at \notin BeforeBroadcast
    <3>1. tx.body = Body[t]
      BY <2>2 DEF Signed
    <3>2. u = t
      BY <3>1, <1>4, TxAssumption, Zenon
    <3> QED
      BY <3>2, <2>2
  <2> QED
    BY <1>3, <1>4, <2>1, <2>2
<1>5. \A u \in Submissions : task[u].at \notin BeforeBroadcast => task'[u].at \notin BeforeBroadcast
  BY DEF Moves
<1>6. OnlyLastSigned'
  BY <1>1, <1>4, <1>5, Zenon DEF OnlyLastSigned, BeforeBroadcast, Txs, Sequences, Bodies
<1> QED
  BY <1>2, <1>6 DEF PaidInv, Shaped, Moves

\* A submission of which nothing is in the node may sign again.
LEMMA LoopKeepsPaid ==
    ASSUME PaidInv, NEW t \in Submissions, NEW seq, LoopWith(t, seq), UNCHANGED status,
           \A tx \in Txs : tx.body = Body[t] => ~InMempoolCache(tx)
    PROVE  PaidInv'
<1>1. /\ DOMAIN task' = Submissions
      /\ \A u \in Submissions : DOMAIN task'[u] = {"at", "snapshot", "idx", "seq"}
      /\ \A u \in Submissions : u # t => task'[u] = task[u]
  BY DEF PaidInv, Shaped, LoopWith, CallTo
<1>2. \A u \in Submissions : u # t => Signed(u)' = Signed(u)
  BY <1>1 DEF Signed
<1>3. \A tx \in Txs : InMempoolCache(tx)' <=> InMempoolCache(tx)
  BY DEF InMempoolCache
<1>4. OnlyLastSigned'
  BY <1>1, <1>2, <1>3 DEF PaidInv, OnlyLastSigned
<1> QED
  BY <1>1, <1>4 DEF PaidInv, Shaped

\* The node only adds to what it knows when it receives a broadcast.
LEMMA NodeKeepsPaid ==
    ASSUME PaidInv, UNCHANGED task, DOMAIN status' = Txs,
           \A tx \in Txs : InMempoolCache(tx)' => InMempoolCache(tx)
    PROVE  PaidInv'
  BY DEF PaidInv, Shaped, OnlyLastSigned, Signed

\* What is in the node of a submission that waits, or whose last transaction the node
\* does not know, is nothing.
LEMMA NothingInNode ==
    ASSUME PaidInv, NEW t \in Submissions,
           task[t].at \in BeforeBroadcast \/ ~InMempoolCache(Signed(t))
    PROVE  \A tx \in Txs : tx.body = Body[t] => ~InMempoolCache(tx)
  BY DEF PaidInv, OnlyLastSigned

\* Every step of a submission keeps the invariant.
LEMMA StepKeepsPaid ==
    ASSUME PaidInv, NEW t \in Submissions, Step(t)
    PROVE  PaidInv'
<1> USE DEF BeforeBroadcast
<1>0. Shaped
  BY DEF PaidInv
<1>1. CASE Submit(t)
  BY <1>0, <1>1, GoMoves, MovesKeepPaid DEF Submit, nodeState
<1>2. CASE LoadChainState(t)
  <2>1. ASSUME Initialize(t, "chain", "getBlock") PROVE PaidInv'
    BY <1>0, <2>1, StartMoves, MovesKeepPaid DEF Initialize, nodeState
  <2>2. ASSUME task[t].at = "chain", UNCHANGED nodeState, Go(t, "account") PROVE PaidInv'
    BY <1>0, <2>2, GoMoves, MovesKeepPaid DEF nodeState
  <2>3. ASSUME UNCHANGED nodeState, End(t, "error") PROVE PaidInv'
    BY <1>0, <2>3, EndMoves, MovesKeepPaid DEF nodeState
  <2> QED
    BY <1>2, <2>1, <2>2, <2>3 DEF LoadChainState
<1>3. CASE GotBlock(t)
  <2>1. ASSUME task[t].at = "getBlock", UNCHANGED nodeState, Go(t, "account") PROVE PaidInv'
    BY <1>0, <2>1, GoMoves, MovesKeepPaid DEF nodeState
  <2>2. ASSUME UNCHANGED nodeState, End(t, "error") PROVE PaidInv'
    BY <1>0, <2>2, EndMoves, MovesKeepPaid DEF nodeState
  <2> QED
    BY <1>3, <2>1, <2>2 DEF GotBlock
<1>4. CASE LockAccount(t)
  <2>1. ASSUME Initialize(t, "account", "getAccount") PROVE PaidInv'
    BY <1>0, <2>1, StartMoves, MovesKeepPaid DEF Initialize, nodeState
  <2>2. ASSUME task[t].at = "account", UNCHANGED nodeState, Go(t, "lock") PROVE PaidInv'
    BY <1>0, <2>2, GoMoves, MovesKeepPaid DEF nodeState
  <2> QED
    BY <1>4, <2>1, <2>2 DEF LockAccount
<1>5. CASE GotAccount(t)
  BY <1>0, <1>5, GoMoves, MovesKeepPaid DEF GotAccount, nodeState
<1>6. CASE GotLock(t)
  BY <1>6, NothingInNode, LoopKeepsPaid DEF GotLock, nodeState
<1>7. CASE GotGas(t)
  <2>1. ASSUME UNCHANGED nodeState, Start(t, "broadcast") PROVE PaidInv'
    BY <1>0, <2>1, StartMoves, MovesKeepPaid DEF nodeState
  <2>2. ASSUME UNCHANGED nodeState, End(t, "error") PROVE PaidInv'
    BY <1>0, <2>2, EndMoves, MovesKeepPaid DEF nodeState
  <2> QED
    BY <1>7, <2>1, <2>2 DEF GotGas
<1>8. CASE EstimateMismatch(t)
  <2>1. ASSUME UNCHANGED nodeState, NextEndpoint(t) PROVE PaidInv'
    BY <1>0, <2>1, NextEndpointMoves, MovesKeepPaid DEF nodeState
  <2>2. ASSUME task[t].at = "estimate", UNCHANGED nodeState, Resign(t) PROVE PaidInv'
    BY <2>2, NothingInNode, LoopKeepsPaid DEF Resign, nodeState
  <2> QED
    BY <1>8, <2>1, <2>2 DEF EstimateMismatch
<1>9. CASE Broadcasted(t)
  BY <1>0, <1>9, StartMoves, MovesKeepPaid DEF Broadcasted
<1>10. CASE BroadcastMismatch(t)
  BY <1>10, NothingInNode, LoopKeepsPaid DEF BroadcastMismatch, InMempool, Resign, nodeState
<1>11. CASE BroadcastRefused(t)
  BY <1>0, <1>11, EndMoves, MovesKeepPaid DEF BroadcastRefused, nodeState
<1>12. CASE Confirmed(t)
  <2>1. task[t].at = "status" /\ UNCHANGED status
    BY <1>12 DEF Confirmed, nodeState
  <2>2. PICK place \in {"status", "evictedAgain", "unknownAgain", "rollback", "ok",
                        "executionFailed", "rejected"} :
            Start(t, place) \/ End(t, place) \/ Go(t, place)
    <3>1. CASE status[Signed(t)] = "pending"
      BY <1>12, <3>1 DEF Confirmed
    <3>2. CASE status[Signed(t)] = "committed"
      BY <1>12, <3>2 DEF Confirmed
    <3>3. CASE status[Signed(t)] = "failed"
      BY <1>12, <3>3 DEF Confirmed
    <3>4. CASE status[Signed(t)] = "wrongSequence"
      BY <1>12, <3>4 DEF Confirmed
    <3>5. CASE status[Signed(t)] = "rejected"
      BY <1>12, <3>5 DEF Confirmed
    <3>6. CASE status[Signed(t)] = "evicted"
      BY <1>12, <3>6 DEF Confirmed
    <3>7. CASE status[Signed(t)] \notin {"pending", "committed", "failed", "wrongSequence",
                                        "rejected", "evicted"}
      BY <1>12, <3>7 DEF Confirmed
    <3> QED
      BY <3>1, <3>2, <3>3, <3>4, <3>5, <3>6, <3>7
  <2> QED
    BY <1>0, <2>1, <2>2, StartMoves, EndMoves, GoMoves, MovesKeepPaid
<1>13. CASE Rollback(t)
  BY <1>0, <1>13, EndMoves, MovesKeepPaid DEF Rollback, nodeState
<1>14. CASE Retransmitted(t)
  <2>1. task[t].at \notin BeforeBroadcast /\ Received(Signed(t))
    BY <1>14 DEF Retransmitted
  <2>2. PICK place \in {"status", "evicted", "notFound"} : Start(t, place) \/ End(t, place)
    BY <1>14 DEF Retransmitted
  <2> QED
    BY <1>0, <2>1, <2>2, StartMoves, EndMoves, MovesKeepPaid
<1> QED
  BY <1>1, <1>2, <1>3, <1>4, <1>5, <1>6, <1>7, <1>8, <1>9, <1>10, <1>11, <1>12, <1>13, <1>14
     DEF Step

\* A call that times out or is dropped keeps the invariant, whether or not the broadcast
\* got through.
LEMMA FaultKeepsPaid ==
    ASSUME PaidInv, NEW t \in Submissions, Timeout(t) \/ Drop(t)
    PROVE  PaidInv'
<1> USE DEF BeforeBroadcast
<1>0. Shaped
  BY DEF PaidInv
<1>1. UNCHANGED status \/ (task[t].at \notin BeforeBroadcast /\ Received(Signed(t)))
  BY DEF Timeout, Drop
<1>2. CASE Drop(t)
  BY <1>0, <1>1, <1>2, EndMoves, MovesKeepPaid DEF Drop
<1>3. CASE Timeout(t)
  <2>1. CASE NextEndpoint(t)
    BY <1>0, <1>1, <2>1, NextEndpointMoves, MovesKeepPaid
  <2>2. CASE ~NextEndpoint(t)
    <3>1. PICK place \in {"evicted", "notFound", "error"} : End(t, place)
      BY <1>3, <2>2 DEF Timeout
    <3> QED
      BY <1>0, <1>1, <3>1, EndMoves, MovesKeepPaid
  <2> QED
    BY <2>1, <2>2
<1> QED
  BY <1>2, <1>3

\* What the node does by itself keeps the invariant.
LEMMA NodeStepKeepsPaid ==
    ASSUME PaidInv, Commit \/ Reject \/ RejectForSequence \/ Lose \/ ForeignCommit
    PROVE  PaidInv'
<1>1. UNCHANGED task
  BY DEF Commit, Reject, RejectForSequence, Lose, ForeignCommit, clientState
<1>2. UNCHANGED status \/ \E tx \in Txs, how \in Statuses :
          InMempoolCache(tx) /\ status' = [status EXCEPT ![tx] = how]
  BY DEF Commit, Reject, RejectForSequence, Lose, ForeignCommit, InMempoolCache, Statuses
<1>3. DOMAIN status' = Txs /\ \A tx \in Txs : InMempoolCache(tx)' => InMempoolCache(tx)
  BY <1>2 DEF PaidInv, Shaped, InMempoolCache
<1> QED
  BY <1>1, <1>3, NodeKeepsPaid

\* The invariant is inductive.
THEOREM OnlyLastSignedInNode == Spec => []PaidInv
<1>1. Init => PaidInv
  BY DEF Init, PaidInv, Shaped, OnlyLastSigned, InMempoolCache
<1>2. PaidInv /\ [Next]_vars => PaidInv'
  <2> SUFFICES ASSUME PaidInv, [Next]_vars PROVE PaidInv'
    OBVIOUS
  <2>1. CASE UNCHANGED vars
    BY <2>1, NodeKeepsPaid DEF vars, clientState, nodeState, InMempoolCache, PaidInv, Shaped
  <2>2. CASE Next
    BY <2>2, StepKeepsPaid, FaultKeepsPaid, NodeStepKeepsPaid DEF Next
  <2> QED
    BY <2>1, <2>2
<1> QED
  BY <1>1, <1>2, PTL DEF Spec

\* Of the transactions signed for a submission at most one gets into a block, for any
\* number of submissions, retries, timeouts and clients of the account.
THEOREM PaidAtMostOnce == Spec => []CommittedAtMostOnce
<1>1. PaidInv => CommittedAtMostOnce
  <2> SUFFICES ASSUME PaidInv, NEW tx1 \in Txs, NEW tx2 \in Txs, tx1.body = tx2.body,
                      {status[tx1], status[tx2]} \subseteq {"committed", "failed"}
               PROVE  tx1 = tx2
    BY DEF CommittedAtMostOnce
  <2>1. PICK t \in Submissions : tx1.body = Body[t]
    BY TxAssumption DEF Txs, Bodies, Range
  <2>2. InMempoolCache(tx1) /\ InMempoolCache(tx2)
    BY DEF InMempoolCache
  <2> QED
    BY <2>1, <2>2, Zenon DEF PaidInv, OnlyLastSigned
<1> QED
  BY <1>1, OnlyLastSignedInNode, PTL

-----------------------------------------------------------------------------
(* No endpoint is lost                                                     *)

\* The endpoints, in some order.
IsList(list) ==
    /\ list \in Seq(Range(Endpoints))
    /\ Len(list) = Len(Endpoints) /\ Range(list) = Range(Endpoints)

\* The inductive invariant: the shared list and every snapshot are such lists, and a
\* call is at one of their places.
ListInv ==
    /\ Shaped
    /\ IsList(transports)
    /\ \A t \in Submissions : IsList(task[t].snapshot) /\ task[t].idx \in 1..Len(Endpoints)

\* The number of endpoints is positive.
LEMMA SomeEndpoint == Len(Endpoints) \in Nat /\ 1 \in 1..Len(Endpoints)
<1>1. Endpoints \in Seq(Range(Endpoints)) /\ Endpoints # <<>>
  BY TxAssumption
<1> HIDE TxAssumption
<1> DEFINE R == Range(Endpoints)
<1>2. Endpoints \in Seq(R)
  BY <1>1
<1> HIDE DEF R
<1> QED
  BY <1>1, <1>2

\* Swapping two places leaves a list of all endpoints.
LEMMA SwappedList ==
    ASSUME NEW list, IsList(list), NEW i \in 1..Len(Endpoints)
    PROVE  IsList([list EXCEPT ![1] = list[i], ![i] = list[1]])
<1> DEFINE R == Range(Endpoints)
           n == Len(Endpoints)
           swapped == [list EXCEPT ![1] = list[i], ![i] = list[1]]
<1>1. n \in Nat /\ 1 \in 1..n
  BY SomeEndpoint
<1>2. list \in Seq(R) /\ Len(list) = n /\ Range(list) = R
  BY DEF IsList
<1> HIDE DEF R, n
<1>3. list \in [1..n -> R]
  BY <1>2
<1>4. swapped \in [1..n -> R]
  BY <1>1, <1>3 DEF n
<1>5. swapped \in Seq(R) /\ Len(swapped) = n
  <2> HIDE DEF swapped
  <2> QED
    BY <1>1, <1>4
<1>6. Range(swapped) = R
  <2>1. DOMAIN list = 1..n /\ DOMAIN swapped = 1..n
    BY <1>3, <1>4
  <2>2. ASSUME NEW x \in R PROVE x \in Range(swapped)
    <3>1. PICK k \in 1..n : list[k] = x
      BY <1>2, <2>1, <2>2 DEF Range
    <3>2. CASE k = 1
      <4>1. swapped[i] = x
        BY <1>3, <3>1, <3>2 DEF n
      <4> QED
        BY <2>1, <4>1 DEF Range, n
    <3>3. CASE k = i
      <4>1. swapped[1] = x
        BY <1>1, <1>3, <3>1, <3>3 DEF n
      <4> QED
        BY <1>1, <2>1, <4>1 DEF Range
    <3>4. CASE k # 1 /\ k # i
      <4>1. swapped[k] = x
        BY <1>3, <3>1, <3>4 DEF n
      <4> QED
        BY <2>1, <4>1 DEF Range
    <3> QED
      BY <3>2, <3>3, <3>4
  <2>3. Range(swapped) \subseteq R
    BY <1>4, <2>1 DEF Range
  <2> QED
    BY <2>2, <2>3, Zenon
<1> QED
  BY <1>5, <1>6 DEF IsList, R, n

\* What a step does to the calls: only that of t changes, and it stays as it is, starts
\* with the list as it is now, or goes on to the next endpoint.
Reads(t) ==
    /\ DOMAIN task' = Submissions
    /\ \A u \in Submissions : DOMAIN task'[u] = {"at", "snapshot", "idx", "seq"}
    /\ \A u \in Submissions : u # t => task'[u] = task[u]
    /\ \/ task'[t].snapshot = task[t].snapshot /\ task'[t].idx = task[t].idx
       \/ task'[t].snapshot = transports' /\ task'[t].idx = 1
       \/ /\ task'[t].snapshot = task[t].snapshot /\ task'[t].idx = task[t].idx + 1
          /\ task[t].idx # Len(task[t].snapshot)

\* The ways a step changes a task.
LEMMA EveryChangeReads ==
    ASSUME Shaped, NEW t \in Submissions, NEW x,
           Go(t, x) \/ Start(t, x) \/ End(t, x) \/ LoopWith(t, x) \/ NextEndpoint(t)
    PROVE  Reads(t)
<1>1. CASE Go(t, x)
  BY <1>1 DEF Shaped, Reads, Go
<1>2. CASE Start(t, x)
  BY <1>2 DEF Shaped, Reads, Start, CallTo
<1>3. CASE End(t, x)
  BY <1>3 DEF Shaped, Reads, End, Go
<1>4. CASE LoopWith(t, x)
  BY <1>4 DEF Shaped, Reads, LoopWith, CallTo
<1>5. CASE NextEndpoint(t)
  BY <1>5 DEF Shaped, Reads, NextEndpoint, LastEndpoint
<1> QED
  BY <1>1, <1>2, <1>3, <1>4, <1>5

\* Whatever a call does, the lists keep their endpoints.
LEMMA ReadsKeepLists ==
    ASSUME ListInv, NEW t \in Submissions, Reads(t), DOMAIN status' = Txs,
           UNCHANGED transports \/ Answered(t)
    PROVE  ListInv'
<1>1. IsList(transports')
  <2>1. IsList(task[t].snapshot) /\ task[t].idx \in 1..Len(Endpoints) /\ IsList(transports)
    BY DEF ListInv
  <2> QED
    BY <2>1, SwappedList, Zenon DEF Answered
<1>2. \A u \in Submissions : IsList(task'[u].snapshot)
  BY <1>1 DEF ListInv, Reads
<1>3. \A u \in Submissions : task'[u].idx \in 1..Len(Endpoints)
  <2>1. \A u \in Submissions : task[u].idx \in 1..Len(Endpoints) /\ Len(task[u].snapshot) = Len(Endpoints)
    BY DEF ListInv, IsList
  <2> QED
    BY <2>1, SomeEndpoint DEF Reads
<1> QED
  BY <1>1, <1>2, <1>3 DEF ListInv, Reads, Shaped, IsList, Txs, Sequences, Bodies

\* Every step of a submission, and every fault, is of that form.
LEMMA StepReads ==
    ASSUME Shaped, NEW t \in Submissions, Step(t) \/ Timeout(t) \/ Drop(t)
    PROVE  Reads(t) /\ DOMAIN status' = Txs /\ (UNCHANGED transports \/ Answered(t))
<1>1. DOMAIN status' = Txs
  <2>1. UNCHANGED status \/ Received(Signed(t))
    BY DEF Step, Submit, LoadChainState, Initialize, GotBlock, LockAccount, GotAccount, GotLock,
           GotGas, EstimateMismatch, Broadcasted, BroadcastMismatch, BroadcastRefused,
           Confirmed, Rollback, Retransmitted, Timeout, Drop, nodeState
  <2> QED
    BY <2>1 DEF Shaped, Received
<1>2. UNCHANGED transports \/ Answered(t)
  BY DEF Step, Submit, LoadChainState, Initialize, GotBlock, LockAccount, GotAccount, GotLock,
         GotGas, EstimateMismatch, Broadcasted, BroadcastMismatch, BroadcastRefused,
         Confirmed, Rollback, Retransmitted, Timeout, Drop
<1>3. Reads(t)
  <2>1. CASE Confirmed(t)
    <3>1. \E x : Go(t, x) \/ Start(t, x) \/ End(t, x)
      <4>1. CASE status[Signed(t)] = "pending"
        BY <2>1, <4>1 DEF Confirmed
      <4>2. CASE status[Signed(t)] = "committed"
        BY <2>1, <4>2 DEF Confirmed
      <4>3. CASE status[Signed(t)] = "failed"
        BY <2>1, <4>3 DEF Confirmed
      <4>4. CASE status[Signed(t)] = "wrongSequence"
        BY <2>1, <4>4 DEF Confirmed
      <4>5. CASE status[Signed(t)] = "rejected"
        BY <2>1, <4>5 DEF Confirmed
      <4>6. CASE status[Signed(t)] = "evicted"
        BY <2>1, <4>6 DEF Confirmed
      <4>7. CASE status[Signed(t)] \notin {"pending", "committed", "failed", "wrongSequence",
                                          "rejected", "evicted"}
        BY <2>1, <4>7 DEF Confirmed
      <4> QED
        BY <4>1, <4>2, <4>3, <4>4, <4>5, <4>6, <4>7
    <3> QED
      BY <3>1, EveryChangeReads
  <2>2. CASE GotLock(t) \/ EstimateMismatch(t) \/ BroadcastMismatch(t)
    BY <2>2, EveryChangeReads DEF GotLock, EstimateMismatch, BroadcastMismatch, Resign
  <2>3. CASE Submit(t) \/ LoadChainState(t) \/ GotBlock(t) \/ LockAccount(t) \/ GotAccount(t)
    BY <2>3, EveryChangeReads
       DEF Submit, LoadChainState, Initialize, GotBlock, LockAccount, GotAccount
  <2>4. CASE GotGas(t) \/ Broadcasted(t) \/ BroadcastRefused(t) \/ Rollback(t) \/ Retransmitted(t)
    BY <2>4, EveryChangeReads DEF GotGas, Broadcasted, BroadcastRefused, Rollback, Retransmitted
  <2>5. CASE Timeout(t) \/ Drop(t)
    BY <2>5, EveryChangeReads DEF Timeout, Drop
  <2> QED
    BY <2>1, <2>2, <2>3, <2>4, <2>5 DEF Step
<1> QED
  BY <1>1, <1>2, <1>3

\* The shared list and every snapshot stay the endpoints, in some order.
LEMMA ListsStayLists == Spec => []ListInv
<1>1. Init => ListInv
  <2>1. Init => Shaped
    BY DEF Init, Shaped
  <2>2. IsList(Endpoints)
    BY TxAssumption DEF IsList
  <2> QED
    BY <2>1, <2>2, SomeEndpoint DEF Init, ListInv
<1>2. ListInv /\ [Next]_vars => ListInv'
  <2> SUFFICES ASSUME ListInv, [Next]_vars PROVE ListInv'
    OBVIOUS
  <2>1. ASSUME NEW t \in Submissions, Step(t) \/ Timeout(t) \/ Drop(t)
        PROVE  ListInv'
    BY <2>1, StepReads, ReadsKeepLists DEF ListInv
  <2>2. ASSUME UNCHANGED clientState, DOMAIN status' = Txs
        PROVE  ListInv'
    BY <2>2 DEF ListInv, Shaped, IsList, clientState, Txs, Sequences, Bodies
  <2>3. CASE UNCHANGED vars
    BY <2>2, <2>3 DEF vars, nodeState, ListInv, Shaped
  <2>4. CASE Commit \/ Reject \/ RejectForSequence \/ Lose \/ ForeignCommit
    BY <2>2, <2>4 DEF Commit, Reject, RejectForSequence, Lose, ForeignCommit, ListInv, Shaped
  <2> QED
    BY <2>1, <2>3, <2>4 DEF Next
<1> QED
  BY <1>1, <1>2, PTL DEF Spec

\* Neither the shared list nor a snapshot ever loses or repeats an endpoint, for any
\* number of endpoints and of calls that store their snapshots over each other's.
THEOREM NoEndpointIsLost == Spec => []EndpointsAreKept
<1>1. ListInv => EndpointsAreKept
  BY DEF ListInv, EndpointsAreKept, IsList
<1> QED
  BY <1>1, ListsStayLists, PTL

-----------------------------------------------------------------------------
(* The sequence of the account: the invariants                             *)

\* Where a task holds the mutex, where it holds it or waits for it, and where it can be
\* before the account is known.
Holding == {"estimate", "price", "broadcast"}
InLock == Holding \cup {"lock", "rollback"}
BeforeAccount == {"idle", "chain", "getBlock", "account", "getAccount", "error", "dropped"}

\* Every task in the lock is there once, and one that holds the mutex is its head.
LockInv ==
    /\ lock \in Seq(Submissions)
    /\ \A i, j \in 1..Len(lock) : lock[i] = lock[j] => i = j
    /\ \A i \in 1..Len(lock) : task[lock[i]].at \in InLock
    /\ \A t \in Submissions : task[t].at \in Holding => 1 \in 1..Len(lock) /\ lock[1] = t

\* At most one task asks for the account, and nothing is signed before it is known.
CellsInv ==
    /\ cells \in [{"chain", "account"} -> {"empty", "busy", "full"}]
    /\ \A t \in Submissions : task[t].at = "getAccount" => cells.account = "busy"
    /\ \A t, u \in Submissions : task[t].at = "getAccount" /\ task[u].at = "getAccount" => t = u
    /\ cells.account # "full" => \A t \in Submissions : task[t].at \in BeforeAccount

\* The submissions of which a transaction is in a block: their number, with that of other
\* clients, is how far the chain has got.
PaidFor ==
    {t \in Submissions :
        \E tx \in Txs : tx.body = Body[t] /\ status[tx] \in {"committed", "failed"}}
LastSequence == FirstSequence + Cardinality(Submissions) + MaxForeign

NodeInv ==
    /\ chainSeq \in Sequences
    /\ status \in [Txs -> Statuses]
    /\ spent \in [{"foreign", "timeouts", "troubles", "drops"} -> Nat]
    /\ spent.foreign <= MaxForeign
    /\ chainSeq = FirstSequence + Cardinality(PaidFor) + spent.foreign
    /\ \A tx \in Txs : InMempoolCache(tx) => tx.seq < LastSequence

\* Who holds the mutex has signed with the sequence of the account.
Tasks == [at : Places, snapshot : Seq(Range(Endpoints)), idx : 1..Len(Endpoints), seq : Sequences]
SignedInv ==
    /\ task \in [Submissions -> Tasks]
    /\ sequence \in Sequences
    /\ \A t \in Submissions : task[t].at \in Holding => task[t].seq = sequence

\* Without faults and other clients: what is pending has the sequences from the chain's to the
\* account's, each once, and the client waits only for what the node holds.
Calm == \A bound \in DOMAIN spent : spent[bound] = 0
Pending(tx) == status[tx] = "pending"
CalmNode ==
    /\ \A tx \in Txs : status[tx] \in {"unknown", "pending", "committed", "failed"}
    /\ \A tx \in Txs : status[tx] \in {"committed", "failed"} => tx.seq < chainSeq
    /\ \A tx1, tx2 \in Txs : Pending(tx1) /\ Pending(tx2) /\ tx1.seq = tx2.seq => tx1 = tx2
    /\ \A tx \in Txs : Pending(tx) =>
          cells.account = "full" /\ chainSeq <= tx.seq /\ tx.seq < sequence
    /\ cells.account = "full" =>
          /\ chainSeq <= sequence
          /\ \A s \in chainSeq..(sequence - 1) : \E tx \in Txs : Pending(tx) /\ tx.seq = s
CalmTasks ==
    \A t \in Submissions :
        /\ task[t].at \notin {"evictedAgain", "unknownAgain", "rollback"}
        /\ task[t].at = "status" => InMempoolCache(Signed(t))
CalmInv == Calm => CalmNode /\ CalmTasks

-----------------------------------------------------------------------------
(* What a step does to the task that takes it                              *)

\* Only submission t moves: to a place, with a transaction signed with q.
Turns(t, place, q) ==
    /\ task' \in [Submissions -> Tasks]
    /\ task'[t].at = place /\ task'[t].seq = q
    /\ \A u \in Submissions : u # t => task'[u] = task[u]

\* A task with other fields.
LEMMA Retask ==
    ASSUME task \in [Submissions -> Tasks], NEW t \in Submissions,
           NEW place \in Places, NEW sn \in Seq(Range(Endpoints)),
           NEW i \in 1..Len(Endpoints), NEW q \in Sequences,
           task' = [task EXCEPT ![t] = [at |-> place, snapshot |-> sn, idx |-> i, seq |-> q]]
    PROVE  Turns(t, place, q)
<1>1. PICK e \in Tasks : e = [at |-> place, snapshot |-> sn, idx |-> i, seq |-> q]
  BY DEF Tasks
<1>2. e.at = place /\ e.seq = q
  BY <1>1
<1>3. task' = [task EXCEPT ![t] = e]
  BY <1>1, Zenon
<1> QED
  BY <1>2, <1>3 DEF Turns

\* The fields of a task.
LEMMA TaskFields ==
    ASSUME NEW e \in Tasks
    PROVE  /\ e.at \in Places /\ e.snapshot \in Seq(Range(Endpoints))
           /\ e.idx \in 1..Len(Endpoints) /\ e.seq \in Sequences
           /\ e = [at |-> e.at, snapshot |-> e.snapshot, idx |-> e.idx, seq |-> e.seq]
  BY DEF Tasks

\* A task that calls, and one with another sequence.
LEMMA CallFields ==
    ASSUME NEW e \in Tasks, NEW rpc, NEW sn
    PROVE  [e EXCEPT !.at = rpc, !.snapshot = sn, !.idx = 1]
                = [at |-> rpc, snapshot |-> sn, idx |-> 1, seq |-> e.seq]
<1> DEFINE r == [e EXCEPT !.at = rpc, !.snapshot = sn, !.idx = 1]
           q == [at |-> rpc, snapshot |-> sn, idx |-> 1, seq |-> e.seq]
<1>0. DOMAIN e = {"at", "snapshot", "idx", "seq"}
  BY DEF Tasks
<1>1. DOMAIN r = {"at", "snapshot", "idx", "seq"} /\ DOMAIN q = {"at", "snapshot", "idx", "seq"}
  BY <1>0
<1>2. r = [x \in DOMAIN r |-> r[x]] /\ q = [x \in DOMAIN q |-> q[x]]
  OBVIOUS
<1>3. r.at = q.at /\ r.snapshot = q.snapshot /\ r.idx = q.idx /\ r.seq = q.seq
  BY <1>0
<1> HIDE DEF r, q
<1>4. \A x \in DOMAIN r : r[x] = q[x]
  BY <1>1, <1>3
<1>5. r = q
  BY <1>1, <1>2, <1>4
<1> QED
  BY <1>5 DEF r, q

\* The next endpoint of a task.
LEMMA NextFields ==
    ASSUME NEW a, NEW sn, NEW i, NEW r, NEW k
    PROVE  /\ [[at |-> a, snapshot |-> sn, idx |-> i, seq |-> r] EXCEPT !.idx = k]
                = [at |-> a, snapshot |-> sn, idx |-> k, seq |-> r]
           /\ [at |-> a, snapshot |-> sn, idx |-> k, seq |-> r].idx = k
  OBVIOUS

\* A task signed anew.
LEMMA SignedFields ==
    ASSUME NEW a, NEW sn, NEW i, NEW r, NEW q
    PROVE  [[at |-> a, snapshot |-> sn, idx |-> i, seq |-> r] EXCEPT !.seq = q]
                = [at |-> a, snapshot |-> sn, idx |-> i, seq |-> q]
  OBVIOUS

\* A task that goes to a place turns there.
LEMMA GoTurns ==
    ASSUME task \in [Submissions -> Tasks], NEW t \in Submissions, NEW place \in Places,
           Go(t, place)
    PROVE  Turns(t, place, task[t].seq)
<1>1. PICK e \in Tasks : e = task[t]
  BY Zenon
<1>2. task' = [task EXCEPT ![t] = [e EXCEPT !.at = place]]
  BY <1>1 DEF Go
<1>3. [e EXCEPT !.at = place]
        = [at |-> place, snapshot |-> e.snapshot, idx |-> e.idx, seq |-> e.seq]
  BY TaskFields
<1>4. task' = [task EXCEPT ![t] = [at |-> place, snapshot |-> e.snapshot, idx |-> e.idx, seq |-> e.seq]]
  BY <1>2, <1>3, Zenon
<1>5. Turns(t, place, e.seq)
  BY <1>4, TaskFields, Retask, Zenon
<1> QED
  BY <1>1, <1>5, Zenon

\* A task that starts a call turns to it.
LEMMA StartTurns ==
    ASSUME task \in [Submissions -> Tasks], NEW t \in Submissions, NEW rpc \in Places,
           ListInv', Start(t, rpc)
    PROVE  Turns(t, rpc, task[t].seq)
<1>0. transports' \in Seq(Range(Endpoints)) /\ 1 \in 1..Len(Endpoints)
  BY SomeEndpoint, Zenon DEF ListInv, IsList
<1>1. PICK e \in Tasks : e = task[t]
  BY Zenon
<1>2. task' = [task EXCEPT ![t] = [e EXCEPT !.at = rpc, !.snapshot = transports', !.idx = 1]]
  BY <1>1, Zenon DEF Start, CallTo
<1>3. [e EXCEPT !.at = rpc, !.snapshot = transports', !.idx = 1]
        = [at |-> rpc, snapshot |-> transports', idx |-> 1, seq |-> e.seq]
  BY CallFields, Zenon
<1>4. task' = [task EXCEPT ![t] = [at |-> rpc, snapshot |-> transports', idx |-> 1, seq |-> e.seq]]
  BY <1>2, <1>3, Zenon
<1>5. Turns(t, rpc, e.seq)
  BY <1>0, <1>4, TaskFields, Retask, Zenon
<1> QED
  BY <1>1, <1>5, Zenon

\* A task that signs with q goes to the first call of the loop, with the mutex.
LEMMA LoopTurns ==
    ASSUME task \in [Submissions -> Tasks], NEW t \in Submissions, NEW q \in Sequences,
           ListInv', LoopWith(t, q)
    PROVE  Turns(t, FirstCall(t), q) /\ FirstCall(t) \in Holding
<1>0. transports' \in Seq(Range(Endpoints)) /\ 1 \in 1..Len(Endpoints)
  BY SomeEndpoint, Zenon DEF ListInv, IsList
<1>1. PICK e \in Tasks : e = task[t]
  BY Zenon
<1>2. FirstCall(t) \in Holding /\ FirstCall(t) \in Places
  BY TxAssumption DEF FirstCall, Holding, Places, Calls
<1>3. PICK rpc \in Places : rpc = FirstCall(t)
  BY <1>2, Zenon
<1>4. task' = [task EXCEPT ![t] =
                  [[e EXCEPT !.at = rpc, !.snapshot = transports', !.idx = 1] EXCEPT !.seq = q]]
  BY <1>1, <1>3, Zenon DEF LoopWith, CallTo
<1>5. [[e EXCEPT !.at = rpc, !.snapshot = transports', !.idx = 1] EXCEPT !.seq = q]
        = [at |-> rpc, snapshot |-> transports', idx |-> 1, seq |-> q]
  <2>1. [e EXCEPT !.at = rpc, !.snapshot = transports', !.idx = 1]
        = [at |-> rpc, snapshot |-> transports', idx |-> 1, seq |-> e.seq]
    BY CallFields, Zenon
  <2>2. [[at |-> rpc, snapshot |-> transports', idx |-> 1, seq |-> e.seq] EXCEPT !.seq = q]
        = [at |-> rpc, snapshot |-> transports', idx |-> 1, seq |-> q]
    BY SignedFields
  <2> QED
    BY <2>1, <2>2, Zenon
<1>6. Turns(t, rpc, q)
  BY <1>0, <1>4, <1>5, Retask, Zenon
<1> QED
  BY <1>2, <1>3, <1>6, Zenon

\* A call that goes on to the next endpoint turns to where it is.
LEMMA NextEndpointTurns ==
    ASSUME task \in [Submissions -> Tasks], NEW t \in Submissions, ListInv', NextEndpoint(t)
    PROVE  Turns(t, task[t].at, task[t].seq)
<1>1. PICK e \in Tasks : e = task[t]
  BY Zenon
<1>2. PICK a \in Places, sn \in Seq(Range(Endpoints)), i \in 1..Len(Endpoints), r \in Sequences :
          e.at = a /\ e.snapshot = sn /\ e.idx = i /\ e.seq = r
  BY TaskFields, Zenon
<1>3. e = [at |-> a, snapshot |-> sn, idx |-> i, seq |-> r]
  BY <1>2, TaskFields
<1>4. PICK k : k = i + 1
  OBVIOUS
<1>5. task' = [task EXCEPT ![t] = [e EXCEPT !.idx = k]]
  BY <1>1, <1>2, <1>4 DEF NextEndpoint
<1>6. PICK n : n = [at |-> a, snapshot |-> sn, idx |-> k, seq |-> r]
  OBVIOUS
<1>7. [e EXCEPT !.idx = k] = n
  BY <1>3, <1>6, NextFields
<1>8. task' = [task EXCEPT ![t] = n]
  BY <1>5, <1>7, Zenon
<1>9. k \in 1..Len(Endpoints)
  <2>1. task'[t] = n
    BY <1>8, Zenon
  <2>2. task'[t].idx \in 1..Len(Endpoints)
    BY Zenon DEF ListInv
  <2>3. n.idx = k
    BY <1>6
  <2> QED
    BY <2>1, <2>2, <2>3, Zenon
<1>10. Turns(t, a, r)
  BY <1>6, <1>8, <1>9, Retask, Zenon
<1> QED
  BY <1>1, <1>2, <1>10, Zenon

-----------------------------------------------------------------------------
(* The sequence the node expects                                           *)

\* Of more numbers than there are holders, one is held by nobody.
HasFree(from, to, f) == \E s \in from..to : \A u \in DOMAIN f : f[u] # s

\* There is such a number.
LEMMA SomeIsFree ==
    ASSUME NEW c \in Nat, NEW k \in Nat, NEW f, IsFiniteSet(DOMAIN f), Cardinality(DOMAIN f) <= k
    PROVE  HasFree(c, c + k, f)
<1> DEFINE H == DOMAIN f
<1> SUFFICES ASSUME \A s \in c..(c + k) : \E u \in H : f[u] = s
             PROVE  FALSE
  BY Zenon DEF HasFree
<1> DEFINE g == [s \in c..(c + k) |-> CHOOSE u \in H : f[u] = s]
<1>1. \A s \in c..(c + k) : g[s] \in H /\ f[g[s]] = s
  BY Zenon
<1>2. g \in [c..(c + k) -> H]
  BY <1>1
<1>3. IsFiniteSet(c..(c + k)) /\ Cardinality(c..(c + k)) = k + 1
  <2>1. c \in Int /\ c + k \in Int /\ ~(c > c + k) /\ (c + k) - c + 1 = k + 1
    OBVIOUS
  <2> QED
    BY <2>1, FS_Interval
<1>4. Cardinality(H) < Cardinality(c..(c + k))
  BY <1>3, FS_CardinalityType
<1> HIDE DEF g
<1>5. \E x, y \in c..(c + k) : x # y /\ g[x] = g[y]
  BY <1>2, <1>3, <1>4, FS_PigeonHole
<1> QED
  BY <1>1, <1>5, Zenon

\* The number of two sets that have nothing in common.
LEMMA DisjointUnion ==
    ASSUME NEW S, NEW T, IsFiniteSet(S), IsFiniteSet(T), S \cap T = {}
    PROVE  Cardinality(S \cup T) = Cardinality(S) + Cardinality(T)
<1>1. Cardinality(S) \in Nat /\ Cardinality(T) \in Nat
  BY FS_CardinalityType
<1>2. Cardinality(S \cup T) = Cardinality(S) + Cardinality(T) - Cardinality(S \cap T)
  BY FS_Union
<1>3. Cardinality(S \cap T) = 0
  BY FS_EmptySet, Zenon
<1> QED
  BY <1>1, <1>2, <1>3

\* The sequences, and what is left of the submissions.
LEMMA SequencesAreNumbers ==
    /\ LastSequence \in Sequences /\ Cardinality(Submissions) \in Nat
    /\ \A s : s \in Sequences <=> s \in Nat /\ FirstSequence <= s /\ s <= LastSequence
<1>1. Cardinality(Submissions) \in Nat /\ FirstSequence \in Nat /\ MaxForeign \in Nat
  BY TxAssumption, FS_CardinalityType
<1> QED
  BY <1>1 DEF LastSequence, Sequences

\* The sequence expected is the first from the chain's on that nothing pending has.
Free(s) == s >= chainSeq /\ \A tx \in Txs : tx.seq = s => status[tx] # "pending"

\* There always is one in the range of the sequences.
LEMMA ExpectedIs ==
    ASSUME NodeInv
    PROVE  /\ Expected \in Sequences /\ Free(Expected)
           /\ \A s \in Sequences : Free(s) => Expected <= s
<1> DEFINE S == {s \in Sequences : Free(s)}
<1>1. S \in SUBSET Nat
  BY SequencesAreNumbers, Zenon
<1>2. LastSequence \in S
  <2>1. LastSequence \in Sequences /\ LastSequence >= chainSeq
    <3>1. chainSeq \in Nat /\ chainSeq <= LastSequence /\ LastSequence \in Nat
      BY SequencesAreNumbers, Zenon DEF NodeInv
    <3> QED
      BY <3>1, SequencesAreNumbers
  <2>2. \A tx \in Txs : tx.seq = LastSequence => status[tx] # "pending"
    BY SequencesAreNumbers DEF NodeInv, InMempoolCache
  <2> QED
    BY <2>1, <2>2, Zenon DEF Free
<1>3. Expected = Min(S)
  BY Zenon DEF Expected, Free
<1> HIDE DEF S
<1>4. Min(S) \in S /\ \A y \in S : Min(S) <= y
  BY <1>1, <1>2, MinOfNaturals, Zenon
<1> QED
  BY <1>3, <1>4, Zenon DEF S

\* There is room for a transaction of a submission of which the node holds nothing.
LEMMA ExpectedBelowLast ==
    ASSUME NodeInv, PaidInv, NEW t \in Submissions,
           \A tx \in Txs : tx.body = Body[t] => ~InMempoolCache(tx)
    PROVE  Expected < LastSequence
<1> DEFINE H == {u \in Submissions : u # t /\ u \notin PaidFor}
           f == [u \in H |-> task[u].seq]
           n == Cardinality(Submissions)
           p == Cardinality(PaidFor)
<1>1. PaidFor \subseteq Submissions \ {t}
  BY Zenon DEF PaidFor, InMempoolCache
<1>2. IsFiniteSet(H) /\ Cardinality(H) = n - 1 - p /\ p \in Nat /\ n \in Nat
  <2>1. IsFiniteSet(Submissions \ {t}) /\ Cardinality(Submissions \ {t}) = n - 1 /\ n \in Nat
    BY TxAssumption, FS_RemoveElement, FS_CardinalityType, Zenon
  <2>2. IsFiniteSet(PaidFor) /\ IsFiniteSet(H)
    BY <1>1, <2>1, FS_Subset
  <2>3. PaidFor \cup H = Submissions \ {t} /\ PaidFor \cap H = {}
    BY <1>1
  <2> HIDE DEF H
  <2>4. Cardinality(Submissions \ {t}) = p + Cardinality(H)
    BY <2>2, <2>3, DisjointUnion, Zenon
  <2>5. p \in Nat /\ Cardinality(H) \in Nat
    BY <2>2, FS_CardinalityType, Zenon
  <2> QED
    BY <2>1, <2>2, <2>4, <2>5
<1>3. Cardinality(H) \in Nat /\ chainSeq \in Nat
  BY <1>2, FS_CardinalityType, SequencesAreNumbers, Zenon DEF NodeInv
<1>a. DOMAIN f = H
  OBVIOUS
<1> HIDE DEF H, f, p
<1>4. PICK s \in chainSeq..(chainSeq + Cardinality(H)) : \A u \in H : f[u] # s
  <2>1. PICK c \in Nat, k \in Nat : c = chainSeq /\ k = Cardinality(H)
    BY <1>3, Zenon
  <2>2. Cardinality(H) <= k
    BY <2>1
  <2>3. HasFree(c, c + k, f)
    BY <1>2, <1>a, <2>2, SomeIsFree, Zenon
  <2> QED
    BY <1>a, <2>1, <2>3, Zenon DEF HasFree
<1>5. s \in Sequences /\ s < LastSequence /\ s >= chainSeq
  <2>1. /\ chainSeq = FirstSequence + p + spent.foreign /\ spent.foreign \in Nat
        /\ spent.foreign <= MaxForeign /\ FirstSequence \in Nat /\ MaxForeign \in Nat
    BY TxAssumption, Zenon DEF NodeInv, p
  <2>2. LastSequence = FirstSequence + n + MaxForeign
    BY DEF LastSequence
  <2>3. s \in Nat /\ s < LastSequence /\ s >= chainSeq /\ FirstSequence <= s
    BY <1>2, <1>3, <1>4, <2>1, <2>2
  <2> QED
    BY <2>3, SequencesAreNumbers
<1>6. ASSUME NEW tx \in Txs, tx.seq = s, status[tx] = "pending"
      PROVE  FALSE
  <2>1. PICK u \in Submissions : tx.body = Body[u]
    BY TxAssumption DEF Txs, Bodies, Range
  <2>2. InMempoolCache(tx) /\ tx = Signed(u)
    BY <1>6, <2>1, Zenon DEF InMempoolCache, PaidInv, OnlyLastSigned
  <2>3. u # t
    BY <2>1, <2>2
  <2>4. u \notin PaidFor
    <3> SUFFICES ASSUME u \in PaidFor PROVE FALSE
      OBVIOUS
    <3>1. PICK tx2 \in Txs : tx2.body = Body[u] /\ status[tx2] \in {"committed", "failed"}
      BY Zenon DEF PaidFor
    <3>2. tx2 = tx
      BY <2>2, <3>1, Zenon DEF InMempoolCache, PaidInv, OnlyLastSigned
    <3> QED
      BY <1>6, <3>1, <3>2
  <2>5. f[u] = s
    BY <1>6, <2>2, <2>3, <2>4 DEF f, H, Signed
  <2> QED
    BY <1>4, <2>3, <2>4, <2>5 DEF H
<1>7. Free(s)
  BY <1>5, <1>6, Zenon DEF Free
<1>8. Expected <= s /\ Expected \in Nat /\ s \in Nat
  BY <1>5, <1>7, ExpectedIs, SequencesAreNumbers, Zenon
<1> QED
  BY <1>5, <1>8, SequencesAreNumbers

-----------------------------------------------------------------------------
(* The mutex of the account                                                *)

\* A task that neither joins nor leaves the queue of the mutex.
LEMMA LockStays ==
    ASSUME LockInv, NEW t \in Submissions, NEW place, NEW q, Turns(t, place, q), lock' = lock,
           task[t].at \in InLock => place \in InLock,
           place \in Holding => 1 \in 1..Len(lock) /\ lock[1] = t
    PROVE  LockInv'
<1>a. /\ \A u \in Submissions : u # t => task'[u].at = task[u].at
      /\ task'[t].at = place
  BY Zenon DEF Turns
<1>1. \A i \in 1..Len(lock) : task'[lock[i]].at \in InLock
  <2> TAKE i \in 1..Len(lock)
  <2>1. lock[i] \in Submissions /\ task[lock[i]].at \in InLock
    BY DEF LockInv
  <2> QED
    BY <2>1, <1>a, Zenon
<1>2. \A u \in Submissions : task'[u].at \in Holding => 1 \in 1..Len(lock) /\ lock[1] = u
  BY <1>a, Zenon DEF LockInv
<1>3. /\ lock \in Seq(Submissions)
      /\ \A i, j \in 1..Len(lock) : lock[i] = lock[j] => i = j
  BY Zenon DEF LockInv
<1> QED
  BY <1>1, <1>2, <1>3, Zenon DEF LockInv

\* What appending does.
LEMMA Enqueued ==
    ASSUME NEW S, NEW s \in Seq(S), NEW x \in S
    PROVE  /\ Append(s, x) \in Seq(S) /\ Len(Append(s, x)) = Len(s) + 1 /\ Len(s) \in Nat
           /\ Append(s, x)[Len(s) + 1] = x
           /\ \A i \in 1..Len(s) : Append(s, x)[i] = s[i]
  OBVIOUS

\* A task that joins it is the last.
LEMMA LockJoined ==
    ASSUME LockInv, NEW t \in Submissions, NEW place \in {"lock", "rollback"}, NEW q,
           Turns(t, place, q), lock' = Append(lock, t), task[t].at \notin InLock
    PROVE  LockInv'
<1>a. /\ \A u \in Submissions : u # t => task'[u].at = task[u].at
      /\ task'[t].at = place
  BY Zenon DEF Turns
<1> DEFINE n == Len(lock)
<1>0. place \in InLock /\ place \notin Holding
  BY DEF InLock, Holding
<1>1. /\ lock' \in Seq(Submissions) /\ Len(lock') = n + 1 /\ n \in Nat /\ lock'[n + 1] = t
      /\ \A i \in 1..n : lock'[i] = lock[i]
  <2>1. lock \in Seq(Submissions)
    BY Zenon DEF LockInv
  <2> QED
    BY <2>1, Enqueued
<1>2. /\ \A i, j \in 1..n : lock[i] = lock[j] => i = j
      /\ \A i \in 1..n : lock[i] \in Submissions /\ lock[i] # t /\ task[lock[i]].at \in InLock
  BY DEF LockInv
<1>3. \A u \in Submissions : task'[u].at \in Holding => 1 \in 1..n /\ lock[1] = u
  BY <1>0, <1>a, Zenon DEF LockInv
<1> HIDE DEF n
<1>4. \A i \in 1..(n + 1) : i \in 1..n \/ i = n + 1
  BY <1>1
<1>5. \A i, j \in 1..(n + 1) : lock'[i] = lock'[j] => i = j
  <2> TAKE i, j \in 1..(n + 1)
  <2>1. \A k \in 1..n : lock'[k] # t
    BY <1>1, <1>2, Zenon
  <2>2. CASE i \in 1..n /\ j \in 1..n
    BY <1>1, <1>2, <2>2, Zenon
  <2>3. CASE ~(i \in 1..n /\ j \in 1..n)
    BY <1>1, <1>4, <2>1, <2>3, Zenon
  <2> QED
    BY <2>2, <2>3, Zenon
<1>6. \A i \in 1..(n + 1) : task'[lock'[i]].at \in InLock
  <2> TAKE i \in 1..(n + 1)
  <2>1. CASE i \in 1..n
    <3>1. lock'[i] = lock[i] /\ lock[i] \in Submissions /\ lock[i] # t /\ task[lock[i]].at \in InLock
      BY <1>1, <1>2, <2>1, Zenon
    <3> QED
      BY <1>a, <3>1, Zenon
  <2>2. CASE i = n + 1
    BY <1>0, <1>1, <1>a, <2>2, Zenon
  <2> QED
    BY <1>4, <2>1, <2>2, Zenon
<1>7. 1 \in 1..n => 1 \in 1..(n + 1)
  BY <1>1
<1>8. \A u \in Submissions : task'[u].at \in Holding => 1 \in 1..(n + 1) /\ lock'[1] = u
  BY <1>1, <1>3, <1>7, Zenon
<1>9. PICK m : m = n + 1 /\ Len(lock') = m
  BY <1>1, Zenon
<1>10. /\ \A i, j \in 1..m : lock'[i] = lock'[j] => i = j
       /\ \A i \in 1..m : task'[lock'[i]].at \in InLock
       /\ \A u \in Submissions : task'[u].at \in Holding => 1 \in 1..m /\ lock'[1] = u
  <2>1. n + 1 = m
    BY <1>9, Zenon
  <2> QED
    BY <1>5, <1>6, <1>8, <2>1
<1> QED
  BY <1>1, <1>9, <1>10, Zenon DEF LockInv

\* What leaving out a place does.
LEMMA Dequeued ==
    ASSUME NEW S, NEW s \in Seq(S), NEW i \in 1..Len(s), NEW n \in Nat, Len(s) = n + 1,
           NEW r, r = [j \in 1..n |-> IF j < i THEN s[j] ELSE s[j + 1]]
    PROVE  /\ r \in Seq(S) /\ Len(r) = n
           /\ \A j \in 1..n : \/ j \in 1..Len(s) /\ j < i /\ r[j] = s[j]
                              \/ j + 1 \in 1..Len(s) /\ j >= i /\ r[j] = s[j + 1]
<1>1. \A j \in 1..n : r[j] \in S
  OBVIOUS
<1>2. r \in [1..n -> S]
  BY <1>1
<1>3. \A j \in 1..n : r[j] = IF j < i THEN s[j] ELSE s[j + 1]
  BY Zenon
<1>4. \A j \in 1..n : \/ j \in 1..Len(s) /\ j < i
                      \/ j + 1 \in 1..Len(s) /\ j >= i /\ ~(j < i)
  OBVIOUS
<1>5. \A j \in 1..n : \/ j \in 1..Len(s) /\ j < i /\ r[j] = s[j]
                      \/ j + 1 \in 1..Len(s) /\ j >= i /\ r[j] = s[j + 1]
  BY <1>3, <1>4, Zenon
<1>6. r \in Seq(S) /\ Len(r) = n
  BY <1>2
<1> QED
  BY <1>5, <1>6, Zenon

\* A task that leaves it, or was not in it.
LEMMA LockLeft ==
    ASSUME LockInv, NEW t \in Submissions, NEW place, NEW q, Turns(t, place, q),
           lock' = LockWithout(t), place \notin InLock
    PROVE  LockInv'
<1>a. /\ \A u \in Submissions : u # t => task'[u].at = task[u].at
      /\ task'[t].at = place
  BY Zenon DEF Turns
<1> DEFINE n == Len(lock)
<1>0. place \notin Holding
  BY DEF InLock
<1>1. /\ lock \in Seq(Submissions) /\ n \in Nat
      /\ \A i, j \in 1..n : lock[i] = lock[j] => i = j
      /\ \A i \in 1..n : lock[i] \in Submissions /\ task[lock[i]].at \in InLock
  BY DEF LockInv
<1>2. \A u \in Submissions : task'[u].at \in Holding => u # t /\ 1 \in 1..n /\ lock[1] = u
  BY <1>0, <1>a, Zenon DEF LockInv
<1>3. CASE ~\E i \in 1..n : lock[i] = t
  <2>1. lock' = lock
    BY <1>3, Zenon DEF LockWithout
  <2>2. \A i \in 1..n : task'[lock[i]].at \in InLock
    BY <1>1, <1>3, <1>a, Zenon
  <2>3. \A u \in Submissions : task'[u].at \in Holding => 1 \in 1..n /\ lock[1] = u
    BY <1>2, Zenon
  <2> QED
    BY <1>1, <2>1, <2>2, <2>3, Zenon DEF LockInv
<1>4. CASE \E i \in 1..n : lock[i] = t
  <2> DEFINE k == CHOOSE i \in 1..Len(lock) : lock[i] = t
  <2>1. k \in 1..n /\ lock[k] = t
    BY <1>4, Zenon
  <2>2. lock' = [j \in 1..(n - 1) |-> IF j < k THEN lock[j] ELSE lock[j + 1]]
    BY <1>4, Zenon DEF LockWithout
  <2> HIDE DEF k
  <2>3. /\ lock' \in Seq(Submissions) /\ Len(lock') = n - 1
        /\ \A j \in 1..(n - 1) : \/ j \in 1..n /\ j < k /\ lock'[j] = lock[j]
                                 \/ j + 1 \in 1..n /\ j >= k /\ lock'[j] = lock[j + 1]
    <3>1. PICK m \in Nat : m = n - 1 /\ Len(lock) = m + 1
      BY <1>1, <2>1
    <3>2. lock' = [j \in 1..m |-> IF j < k THEN lock[j] ELSE lock[j + 1]]
      BY <2>2, <3>1, Zenon
    <3>3. /\ lock' \in Seq(Submissions) /\ Len(lock') = m
          /\ \A j \in 1..m : \/ j \in 1..n /\ j < k /\ lock'[j] = lock[j]
                             \/ j + 1 \in 1..n /\ j >= k /\ lock'[j] = lock[j + 1]
      BY <1>1, <2>1, <3>1, <3>2, Dequeued
    <3> QED
      BY <3>1, <3>3, Zenon
  <2> HIDE DEF n
  <2>4. PICK f : \A j \in 1..(n - 1) :
            /\ f[j] \in 1..n /\ lock'[j] = lock[f[j]] /\ f[j] # k
            /\ f[j] = IF j < k THEN j ELSE j + 1
    <3> DEFINE f == [j \in 1..(n - 1) |-> IF j < k THEN j ELSE j + 1]
    <3>1. \A j \in 1..(n - 1) : f[j] = IF j < k THEN j ELSE j + 1
      BY Zenon
    <3>2. \A j \in 1..(n - 1) : j + 1 # k \/ j < k
      BY <2>1
    <3>3. \A j \in 1..(n - 1) : j >= k => ~(j < k)
      BY <1>1, <2>1
    <3> HIDE DEF f
    <3>4. ASSUME NEW j \in 1..(n - 1)
          PROVE  f[j] \in 1..n /\ lock'[j] = lock[f[j]] /\ f[j] # k
      <4>1. CASE j < k
        <5>1. f[j] = j /\ j # k
          BY <1>1, <2>1, <3>1, <4>1
        <5>2. ~(j >= k)
          BY <3>3, <4>1, Zenon
        <5> QED
          BY <2>3, <5>1, <5>2, Zenon
      <4>2. CASE ~(j < k)
        <5>1. f[j] = j + 1 /\ j + 1 # k
          BY <3>1, <3>2, <4>2, Zenon
        <5> QED
          BY <2>3, <4>2, <5>1, Zenon
      <4> QED
        BY <4>1, <4>2, Zenon
    <3> QED
      BY <3>1, <3>4, Zenon
  <2>5. \A i, j \in 1..(n - 1) : lock'[i] = lock'[j] => i = j
    <3> SUFFICES ASSUME NEW i \in 1..(n - 1), NEW j \in 1..(n - 1), lock'[i] = lock'[j]
                 PROVE  i = j
      BY Zenon
    <3>1. f[i] = f[j]
      BY <1>1, <2>4, Zenon
    <3>2. i \in Int /\ j \in Int /\ k \in Int
      BY <2>1
    <3> QED
      BY <2>4, <3>1, <3>2
  <2>6. \A i \in 1..(n - 1) : task'[lock'[i]].at \in InLock
    <3> TAKE i \in 1..(n - 1)
    <3>1. lock'[i] = lock[f[i]] /\ lock[f[i]] # t /\ f[i] \in 1..n
      BY <1>1, <2>1, <2>4, Zenon
    <3> QED
      BY <1>1, <3>1, <1>a, Zenon
  <2>7. ASSUME NEW u \in Submissions, task'[u].at \in Holding
        PROVE  1 \in 1..(n - 1) /\ lock'[1] = u
    <3>1. u # t /\ 1 \in 1..n /\ lock[1] = u
      BY <1>2, <2>7, Zenon
    <3>2. k # 1
      BY <2>1, <3>1, Zenon
    <3>3. 1 \in 1..(n - 1) /\ 1 < k
      BY <1>1, <2>1, <3>1, <3>2
    <3> QED
      BY <2>4, <3>1, <3>3, Zenon
  <2> QED
    BY <2>3, <2>5, <2>6, <2>7, Zenon DEF LockInv
<1> QED
  BY <1>3, <1>4, Zenon

\* Nobody else holds the mutex when a task does, or is first in its queue.
LEMMA OnlyHolder ==
    ASSUME LockInv, NEW t \in Submissions,
           task[t].at \in Holding \/ (lock # <<>> /\ Head(lock) = t)
    PROVE  \A u \in Submissions : u # t => task[u].at \notin Holding
<1>1. CASE task[t].at \in Holding
  BY <1>1, Zenon DEF LockInv
<1>2. CASE lock # <<>> /\ Head(lock) = t
  <2>1. lock[1] = t
    BY <1>2 DEF LockInv
  <2> QED
    BY <2>1, Zenon DEF LockInv
<1> QED
  BY <1>1, <1>2, Zenon

-----------------------------------------------------------------------------
(* The cells                                                               *)

\* The values of the two cells.
Cells == [{"chain", "account"} -> {"empty", "busy", "full"}]

\* A task that does not ask for the account, or no longer.
LEMMA CellsStep ==
    ASSUME CellsInv, NEW t \in Submissions, NEW place, NEW q, Turns(t, place, q),
           cells' \in Cells, place # "getAccount",
           \/ cells'.account = cells.account
           \/ task[t].at = "getAccount" /\ cells'.account \in {"empty", "full"},
           place \in BeforeAccount \/ cells'.account = "full"
    PROVE  CellsInv'
<1>a. /\ \A u \in Submissions : u # t => task'[u].at = task[u].at
      /\ task'[t].at = place
  BY Zenon DEF Turns
<1>1. \A u \in Submissions : task'[u].at = "getAccount" => u # t /\ task[u].at = "getAccount"
  BY <1>a, Zenon
<1>2. ASSUME NEW u \in Submissions, task'[u].at = "getAccount" PROVE cells'.account = "busy"
  <2>1. u # t /\ task[u].at = "getAccount"
    BY <1>1, <1>2, Zenon
  <2>2. cells.account = "busy" /\ task[t].at # "getAccount"
    BY <2>1, Zenon DEF CellsInv
  <2> QED
    BY <2>2, Zenon
<1>3. ASSUME cells'.account # "full"
      PROVE  \A u \in Submissions : task'[u].at \in BeforeAccount
  <2>1. cells.account # "full"
    <3>1. CASE cells'.account = cells.account
      BY <1>3, <3>1, Zenon
    <3>2. CASE task[t].at = "getAccount"
      <4>1. cells.account = "busy"
        BY <3>2, Zenon DEF CellsInv
      <4> QED
        BY <4>1
    <3> QED
      BY <3>1, <3>2, Zenon
  <2>2. \A u \in Submissions : task[u].at \in BeforeAccount
    BY <2>1, Zenon DEF CellsInv
  <2>3. place \in BeforeAccount
    BY <1>3, Zenon
  <2> QED
    BY <1>a, <2>2, <2>3, Zenon
<1>4. \A u, v \in Submissions : task'[u].at = "getAccount" /\ task'[v].at = "getAccount" => u = v
  BY <1>1, Zenon DEF CellsInv
<1> QED
  BY <1>2, <1>3, <1>4, Zenon DEF CellsInv, Cells

\* A task that starts to ask for it.
LEMMA CellsAsked ==
    ASSUME CellsInv, NEW t \in Submissions, NEW q, Turns(t, "getAccount", q),
           cells' \in Cells, cells.account = "empty", cells'.account = "busy"
    PROVE  CellsInv'
<1>a. /\ \A u \in Submissions : u # t => task'[u].at = task[u].at
      /\ task'[t].at = "getAccount"
  BY Zenon DEF Turns
<1>0. cells.account # "busy" /\ cells.account # "full" /\ "getAccount" \in BeforeAccount
  BY DEF BeforeAccount
<1>1. \A u \in Submissions : task[u].at # "getAccount" /\ task[u].at \in BeforeAccount
  BY <1>0, Zenon DEF CellsInv
<1>2. \A u \in Submissions : task'[u].at = "getAccount" => u = t
  BY <1>1, <1>a, Zenon
<1>3. \A u \in Submissions : task'[u].at \in BeforeAccount
  BY <1>0, <1>1, <1>a, Zenon
<1> QED
  BY <1>2, <1>3, Zenon DEF CellsInv, Cells

\* A task that stays where it is.
LEMMA CellsStay ==
    ASSUME CellsInv, NEW t \in Submissions, NEW q, Turns(t, task[t].at, q), cells' = cells
    PROVE  CellsInv'
<1>a. \A u \in Submissions : task'[u].at = task[u].at
  BY Zenon DEF Turns
<1> QED
  BY <1>a, Zenon DEF CellsInv

\* What is left of the cells when a task ends.
LEMMA CellsLeft ==
    ASSUME CellsInv, NEW t \in Submissions, cells' = CellsWithout(t)
    PROVE  /\ cells' \in Cells
           /\ cells'.account = IF task[t].at = "getAccount" THEN "empty" ELSE cells.account
<1>1. cells \in Cells /\ DOMAIN cells = {"chain", "account"}
  BY DEF CellsInv, Cells
<1>2. \A c \in {"chain", "account"} : cells'[c] \in {"empty", "busy", "full"}
  BY <1>1 DEF CellsWithout, Cells
<1>3. cells' \in Cells
  BY <1>1, <1>2 DEF CellsWithout, Cells
<1>4. cells'.account = IF task[t].at = "getAccount" THEN "empty" ELSE cells.account
  BY <1>1 DEF CellsWithout
<1> QED
  BY <1>3, <1>4

-----------------------------------------------------------------------------
(* Ending                                                                  *)

\* The results of a task that has got beyond the account, or fails anywhere.
LEMMA EndKeeps ==
    ASSUME LockInv, CellsInv, task \in [Submissions -> Tasks], NEW t \in Submissions,
           NEW result \in Results, End(t, result),
           result \in {"error", "dropped"} \/ task[t].at \notin BeforeAccount
    PROVE  /\ Turns(t, result, task[t].seq) /\ LockInv' /\ CellsInv'
           /\ cells'.account = "full" <=> cells.account = "full"
<1>0. /\ result \in Places /\ result \notin InLock /\ result # "getAccount"
      /\ result \in {"error", "dropped"} => result \in BeforeAccount
      /\ "getAccount" \in BeforeAccount
  BY DEF Places, Results, InLock, Holding, BeforeAccount
<1>1. Turns(t, result, task[t].seq)
  BY <1>0, GoTurns, Zenon DEF End
<1>2. LockInv'
  BY <1>0, <1>1, LockLeft, Zenon DEF End
<1>3. /\ cells' \in Cells
      /\ cells'.account = IF task[t].at = "getAccount" THEN "empty" ELSE cells.account
  BY CellsLeft, Zenon DEF End
<1>4. task[t].at = "getAccount" => cells.account = "busy"
  BY Zenon DEF CellsInv
<1>5. task[t].at \notin BeforeAccount => cells.account = "full"
  BY Zenon DEF CellsInv
<1>6. cells'.account = "full" <=> cells.account = "full"
  BY <1>3, <1>4
<1>7. result \in BeforeAccount \/ cells'.account = "full"
  BY <1>0, <1>5, <1>6, Zenon
<1>8. \/ cells'.account = cells.account
      \/ task[t].at = "getAccount" /\ cells'.account \in {"empty", "full"}
  BY <1>3, Zenon
<1>9. CellsInv'
  BY <1>0, <1>1, <1>3, <1>7, <1>8, CellsStep, Zenon
<1> QED
  BY <1>1, <1>2, <1>6, <1>9, Zenon

-----------------------------------------------------------------------------
(* What is signed                                                          *)

\* The sequence of the account changes only in the hands of the task that has the mutex.
LEMMA SignedStep ==
    ASSUME SignedInv, NEW t \in Submissions, NEW place, NEW q, Turns(t, place, q),
           sequence' \in Sequences, place \in Holding => q = sequence',
           sequence' = sequence \/ \A u \in Submissions : u # t => task[u].at \notin Holding
    PROVE  SignedInv'
<1>a. /\ \A u \in Submissions : u # t => task'[u].at = task[u].at /\ task'[u].seq = task[u].seq
      /\ task'[t].at = place /\ task'[t].seq = q /\ task' \in [Submissions -> Tasks]
  BY Zenon DEF Turns
<1>1. ASSUME NEW u \in Submissions, task'[u].at \in Holding PROVE task'[u].seq = sequence'
  BY <1>1, <1>a, Zenon DEF SignedInv
<1> QED
  BY <1>1, <1>a, Zenon DEF SignedInv, Tasks, Sequences, Places, Holding

-----------------------------------------------------------------------------
(* The node                                                                *)

\* What is bounded: other clients and faults.
Bounds == {"foreign", "timeouts", "troubles", "drops"}

\* Using up a bound that is not about other clients.
LEMMA SpendKeeps ==
    ASSUME spent \in [Bounds -> Nat], NEW what \in Bounds, NEW max, Spend(what, max)
    PROVE  /\ spent' \in [Bounds -> Nat] /\ spent'[what] = spent[what] + 1
           /\ \A b \in Bounds : b # what => spent'[b] = spent[b]
           /\ ~Calm'
<1>1. /\ spent' \in [Bounds -> Nat] /\ spent'[what] = spent[what] + 1
      /\ \A b \in Bounds : b # what => spent'[b] = spent[b]
  BY DEF Spend
<1>2. spent'[what] # 0 /\ what \in DOMAIN spent'
  BY <1>1
<1> QED
  BY <1>1, <1>2, Zenon DEF Calm

\* The bounds after a step.
Budget == spent' \in [Bounds -> Nat] /\ spent'.foreign = spent.foreign

\* A fault leaves the other clients alone, and ends the calm.
LEMMA SpendIsBudget ==
    ASSUME NodeInv, NEW what \in Bounds \ {"foreign"}, NEW max, Spend(what, max)
    PROVE  Budget /\ ~Calm'
<1>1. spent \in [Bounds -> Nat] /\ what \in Bounds /\ "foreign" \in Bounds /\ "foreign" # what
  BY DEF NodeInv, Bounds
<1>2. /\ spent' \in [Bounds -> Nat] /\ ~Calm'
      /\ \A b \in Bounds : b # what => spent'[b] = spent[b]
  BY <1>1, SpendKeeps, Zenon
<1> QED
  BY <1>1, <1>2, Zenon DEF Budget

\* As long as the same transactions are in blocks, the chain is as far as it was.
LEMMA NodeKeeps ==
    ASSUME NodeInv, chainSeq' = chainSeq, Budget, status' \in [Txs -> Statuses],
           \A tx \in Txs : status'[tx] \in {"committed", "failed"}
                               <=> status[tx] \in {"committed", "failed"},
           \A tx \in Txs : InMempoolCache(tx)' => InMempoolCache(tx) \/ tx.seq < LastSequence
    PROVE  NodeInv'
<1>1. PaidFor' = PaidFor
  BY Zenon DEF PaidFor
<1>2. \A tx \in Txs : InMempoolCache(tx)' => tx.seq < LastSequence
  BY Zenon DEF NodeInv
<1>3. spent' \in [{"foreign", "timeouts", "troubles", "drops"} -> Nat] /\ spent'.foreign = spent.foreign
  BY Zenon DEF Budget, Bounds
<1> QED
  BY <1>1, <1>2, <1>3, Zenon DEF NodeInv

\* A step that leaves the node alone.
LEMMA NodeStays ==
    ASSUME NodeInv, UNCHANGED nodeState, Budget
    PROVE  NodeInv'
<1>1. status' = status /\ chainSeq' = chainSeq /\ status' \in [Txs -> Statuses]
  BY Zenon DEF nodeState, NodeInv
<1>2. \A tx \in Txs : InMempoolCache(tx)' => InMempoolCache(tx)
  BY <1>1, Zenon DEF InMempoolCache
<1>3. \A tx \in Txs : status'[tx] \in {"committed", "failed"}
                               <=> status[tx] \in {"committed", "failed"}
  BY <1>1, Zenon
<1> QED
  BY <1>1, <1>2, <1>3, NodeKeeps, Zenon

\* What a task has signed is a transaction.
LEMMA SignedIsTx ==
    ASSUME task \in [Submissions -> Tasks], NEW t \in Submissions
    PROVE  Signed(t) \in Txs /\ Signed(t).seq = task[t].seq /\ Signed(t).body = Body[t]
<1>1. task[t].seq \in Sequences
  BY DEF Tasks
<1>2. Body[t] \in Bodies
  BY TxAssumption DEF Bodies, Range
<1> QED
  BY <1>1, <1>2 DEF Signed, Txs

\* A step that changes the status of one transaction.
LEMMA StatusOf ==
    ASSUME status \in [Txs -> Statuses], NEW tx \in Txs, NEW how \in Statuses,
           status' = [status EXCEPT ![tx] = how]
    PROVE  /\ status' \in [Txs -> Statuses] /\ status'[tx] = how
           /\ \A x \in Txs : x # tx => status'[x] = status[x]
  BY Zenon

\* What may be accepted leaves room for more.
LEMMA AcceptableBelowLast ==
    ASSUME NodeInv, PaidInv, task \in [Submissions -> Tasks], NEW t \in Submissions,
           Acceptable(Signed(t))
    PROVE  task[t].seq = Expected /\ Expected < LastSequence
<1>1. ~InMempoolCache(Signed(t)) /\ task[t].seq = Expected
  BY SignedIsTx, Zenon DEF Acceptable
<1>2. \A tx \in Txs : tx.body = Body[t] => ~InMempoolCache(tx)
  BY <1>1, NothingInNode, Zenon
<1> QED
  BY <1>1, <1>2, ExpectedBelowLast, Zenon

\* A broadcast that gets to the node.
LEMMA NodeReceives ==
    ASSUME NodeInv, PaidInv, task \in [Submissions -> Tasks], NEW t \in Submissions,
           Received(Signed(t)), chainSeq' = chainSeq, Budget
    PROVE  NodeInv'
<1>1. CASE ~Acceptable(Signed(t))
  <2>1. UNCHANGED nodeState
    BY <1>1, Zenon DEF Received, nodeState
  <2> QED
    BY <2>1, NodeStays, Zenon
<1>2. CASE Acceptable(Signed(t))
  <2> DEFINE tx == Signed(t)
  <2>1. tx \in Txs /\ tx.seq = task[t].seq
    BY SignedIsTx, Zenon
  <2>2. status' = [status EXCEPT ![tx] = "pending"] /\ ~InMempoolCache(tx)
    BY <1>2, Zenon DEF Received, Acceptable
  <2>3. tx.seq < LastSequence
    BY <1>2, <2>1, AcceptableBelowLast, Zenon
  <2> HIDE DEF tx
  <2>4. status \in [Txs -> Statuses] /\ "pending" \in Statuses
    BY DEF NodeInv, Statuses
  <2>5. /\ status' \in [Txs -> Statuses] /\ status'[tx] = "pending"
        /\ \A x \in Txs : x # tx => status'[x] = status[x]
    BY <2>1, <2>2, <2>4, StatusOf, Zenon
  <2>6. \A x \in Txs : InMempoolCache(x)' => InMempoolCache(x) \/ x.seq < LastSequence
    BY <2>3, <2>5, Zenon DEF InMempoolCache
  <2>7. status[tx] \notin {"committed", "failed"}
    BY <2>2, Zenon DEF InMempoolCache
  <2>8. status'[tx] \notin {"committed", "failed"}
    BY <2>5
  <2>9. \A x \in Txs : status'[x] \in {"committed", "failed"}
                               <=> status[x] \in {"committed", "failed"}
    BY <2>5, <2>7, <2>8, Zenon
  <2> QED
    BY <2>5, <2>6, <2>9, NodeKeeps, Zenon
<1> QED
  BY <1>1, <1>2, Zenon

\* The node forgets or refuses what it held.
LEMMA NodeForgets ==
    ASSUME NodeInv, NEW tx \in Txs, status[tx] = "pending",
           NEW how \in {"rejected", "wrongSequence", "evicted", "unknown"},
           status' = [status EXCEPT ![tx] = how], chainSeq' = chainSeq, Budget
    PROVE  NodeInv'
<1>1. status \in [Txs -> Statuses] /\ how \in Statuses
  BY DEF NodeInv, Statuses
<1>2. /\ status' \in [Txs -> Statuses] /\ status'[tx] = how
      /\ \A x \in Txs : x # tx => status'[x] = status[x]
  BY <1>1, StatusOf, Zenon
<1>3. status'[tx] \notin {"committed", "failed"} /\ status[tx] \notin {"committed", "failed"}
  BY <1>2
<1>4. \A x \in Txs : status'[x] \in {"committed", "failed"}
                               <=> status[x] \in {"committed", "failed"}
  BY <1>2, <1>3, Zenon
<1>5. \A x \in Txs : InMempoolCache(x)' => InMempoolCache(x)
  <2>1. how \notin {"pending", "committed", "failed"}
    OBVIOUS
  <2> QED
    BY <1>2, <2>1, Zenon DEF InMempoolCache
<1> QED
  BY <1>2, <1>4, <1>5, NodeKeeps, Zenon

\* A transaction gets into a block: one more submission is paid for.
LEMMA NodeCommits ==
    ASSUME NodeInv, PaidInv, NEW tx \in Txs, NEW outcome \in {"committed", "failed"},
           status[tx] = "pending", chainSeq' = chainSeq + 1,
           status' = [status EXCEPT ![tx] = outcome], spent' = spent
    PROVE  NodeInv'
<1> DEFINE paid == Cardinality(PaidFor)
<1>1. status \in [Txs -> Statuses] /\ outcome \in Statuses
  BY DEF NodeInv, Statuses
<1>2. /\ status' \in [Txs -> Statuses] /\ status'[tx] = outcome
      /\ \A x \in Txs : x # tx => status'[x] = status[x]
  BY <1>1, StatusOf, Zenon
<1>3. PICK t \in Submissions : tx.body = Body[t]
  BY TxAssumption DEF Txs, Bodies, Range
<1>4. t \notin PaidFor
  <2> SUFFICES ASSUME t \in PaidFor PROVE FALSE
    OBVIOUS
  <2>1. PICK x \in Txs : x.body = Body[t] /\ status[x] \in {"committed", "failed"}
    BY Zenon DEF PaidFor
  <2>2. x = tx
    BY <1>3, <2>1, Zenon DEF InMempoolCache, PaidInv, OnlyLastSigned
  <2> QED
    BY <2>1, <2>2
<1>5. PaidFor' = PaidFor \cup {t}
  <2>1. \A u \in Submissions : Body[u] = tx.body => u = t
    BY <1>3, TxAssumption, Zenon
  <2>2. \A u \in Submissions : u \in PaidFor' => u \in PaidFor \/ u = t
    BY <1>2, <2>1, Zenon DEF PaidFor
  <2>3. status[tx] \notin {"committed", "failed"}
    OBVIOUS
  <2>4. \A u \in Submissions : u \in PaidFor => u \in PaidFor'
    BY <1>2, <2>3, Zenon DEF PaidFor
  <2>5. t \in PaidFor'
    BY <1>2, <1>3, Zenon DEF PaidFor
  <2>6. PaidFor' \subseteq Submissions /\ PaidFor \subseteq Submissions
    BY Zenon DEF PaidFor
  <2> QED
    BY <2>2, <2>4, <2>5, <2>6, Zenon
<1>6. /\ paid \in Nat /\ Cardinality(PaidFor') = paid + 1
      /\ paid + 1 <= Cardinality(Submissions)
  <2>1. PaidFor \in SUBSET Submissions /\ PaidFor' \in SUBSET Submissions
    BY Zenon DEF PaidFor
  <2>2. IsFiniteSet(PaidFor) /\ IsFiniteSet(PaidFor') /\ Cardinality(PaidFor') <= Cardinality(Submissions)
    BY <2>1, TxAssumption, FS_Subset, Zenon
  <2>3. Cardinality(PaidFor') = paid + 1
    BY <1>4, <1>5, <2>2, FS_AddElement, Zenon
  <2>4. paid \in Nat
    BY <2>2, FS_CardinalityType, Zenon
  <2> QED
    BY <2>2, <2>3, <2>4, Zenon
<1>7. /\ chainSeq = FirstSequence + paid + spent.foreign /\ spent.foreign \in Nat
      /\ spent.foreign <= MaxForeign /\ FirstSequence \in Nat /\ MaxForeign \in Nat
      /\ Cardinality(Submissions) \in Nat
  BY TxAssumption, SequencesAreNumbers, Zenon DEF NodeInv
<1>8. Cardinality(PaidFor)' = Cardinality(PaidFor')
  BY Zenon
<1> HIDE DEF paid
<1>9. /\ chainSeq' = FirstSequence + (paid + 1) + spent.foreign
      /\ chainSeq' \in Nat /\ FirstSequence <= chainSeq' /\ chainSeq' <= LastSequence
  BY <1>6, <1>7 DEF LastSequence
<1>10. chainSeq' \in Sequences
  BY <1>9, SequencesAreNumbers, Zenon
<1>11. \A x \in Txs : InMempoolCache(x)' => InMempoolCache(x)
  BY <1>2, Zenon DEF InMempoolCache
<1>12. \A x \in Txs : InMempoolCache(x)' => x.seq < LastSequence
  BY <1>11, Zenon DEF NodeInv
<1> QED
  BY <1>2, <1>6, <1>8, <1>9, <1>10, <1>12, Zenon DEF NodeInv

\* Another client's transaction does.
LEMMA NodeCommitsOther ==
    ASSUME NodeInv, ForeignCommit
    PROVE  NodeInv'
<1> DEFINE paid == Cardinality(PaidFor)
<1>1. spent \in [Bounds -> Nat] /\ "foreign" \in Bounds
  BY DEF NodeInv, Bounds
<1>2. /\ spent' \in [Bounds -> Nat] /\ spent'.foreign = spent.foreign + 1
      /\ spent.foreign < MaxForeign
  BY <1>1, SpendKeeps, Zenon DEF ForeignCommit, Spend
<1>3. PaidFor' = PaidFor /\ chainSeq' = chainSeq + 1 /\ status' = status
  BY Zenon DEF ForeignCommit, PaidFor
<1>4. /\ chainSeq = FirstSequence + paid + spent.foreign /\ spent.foreign \in Nat
      /\ FirstSequence \in Nat /\ MaxForeign \in Nat /\ Cardinality(Submissions) \in Nat
  BY TxAssumption, SequencesAreNumbers, Zenon DEF NodeInv
<1>5. paid \in Nat /\ paid <= Cardinality(Submissions)
  <2>1. PaidFor \in SUBSET Submissions
    BY Zenon DEF PaidFor
  <2> QED
    BY <2>1, TxAssumption, FS_Subset, FS_CardinalityType, Zenon
<1>6. /\ chainSeq' = FirstSequence + paid + spent'.foreign /\ spent'.foreign <= MaxForeign
      /\ chainSeq' \in Nat /\ FirstSequence <= chainSeq' /\ chainSeq' <= LastSequence
  <2> HIDE DEF paid
  <2> QED
    BY <1>2, <1>3, <1>4, <1>5 DEF LastSequence
<1>7. chainSeq' \in Sequences
  BY <1>6, SequencesAreNumbers, Zenon
<1>8. \A x \in Txs : InMempoolCache(x)' => InMempoolCache(x)
  BY <1>3, Zenon DEF InMempoolCache
<1>9. spent' \in [{"foreign", "timeouts", "troubles", "drops"} -> Nat]
  BY <1>2, Zenon DEF Bounds
<1> QED
  BY <1>3, <1>6, <1>7, <1>8, <1>9, Zenon DEF NodeInv

-----------------------------------------------------------------------------
(* Without faults and other clients                                        *)

\* The sequence of the account is the one the node expects.
LEMMA CalmExpected ==
    ASSUME NodeInv, sequence \in Sequences, CalmNode, cells.account = "full"
    PROVE  Expected = sequence
<1>1. /\ sequence \in Nat /\ chainSeq \in Nat /\ Expected \in Nat /\ chainSeq <= sequence
      /\ Expected \in Sequences
  BY ExpectedIs, SequencesAreNumbers, Zenon DEF NodeInv, CalmNode
<1>2. Free(sequence)
  <2>1. ASSUME NEW tx \in Txs, tx.seq = sequence, status[tx] = "pending" PROVE FALSE
    <3>1. tx.seq < sequence
      BY <2>1, Zenon DEF CalmNode, Pending
    <3> QED
      BY <1>1, <2>1, <3>1
  <2>2. sequence >= chainSeq
    BY <1>1
  <2> QED
    BY <2>1, <2>2, Zenon DEF Free
<1>3. Expected <= sequence
  BY <1>2, ExpectedIs, Zenon
<1>4. ASSUME Expected < sequence PROVE FALSE
  <2>1. Expected >= chainSeq /\ \A tx \in Txs : tx.seq = Expected => status[tx] # "pending"
    BY ExpectedIs, Zenon DEF Free
  <2>2. Expected \in chainSeq..(sequence - 1)
    BY <1>1, <1>4, <2>1
  <2>3. \E tx \in Txs : Pending(tx) /\ tx.seq = Expected
    BY <2>2, Zenon DEF CalmNode
  <2> QED
    BY <2>1, <2>3, Zenon DEF Pending
<1> QED
  BY <1>1, <1>3, <1>4

\* So who holds the mutex has signed with it.
LEMMA CalmSigned ==
    ASSUME NodeInv, SignedInv, CellsInv, CalmInv, Calm, NEW t \in Submissions,
           task[t].at \in Holding
    PROVE  /\ task[t].seq = sequence /\ Expected = sequence /\ cells.account = "full"
           /\ ~InMempoolCache(Signed(t))
<1>1. task[t].at \notin BeforeAccount
  BY DEF Holding, BeforeAccount
<1>2. cells.account = "full"
  BY <1>1, Zenon DEF CellsInv
<1>3. CalmNode /\ sequence \in Sequences /\ task \in [Submissions -> Tasks]
  BY Zenon DEF CalmInv, SignedInv
<1>4. task[t].seq = sequence /\ Expected = sequence
  BY <1>2, <1>3, CalmExpected, Zenon DEF SignedInv
<1>5. ASSUME InMempoolCache(Signed(t)) PROVE FALSE
  <2>1. Signed(t) \in Txs /\ Signed(t).seq = sequence
    BY <1>3, <1>4, SignedIsTx, Zenon
  <2>2. chainSeq <= sequence /\ chainSeq \in Nat /\ sequence \in Nat
    BY <1>2, <1>3, SequencesAreNumbers, Zenon DEF CalmNode, NodeInv
  <2>3. Signed(t).seq < sequence \/ Signed(t).seq < chainSeq
    BY <1>3, <1>5, <2>1, Zenon DEF InMempoolCache, CalmNode, Pending
  <2> QED
    BY <2>1, <2>2, <2>3
<1> QED
  BY <1>2, <1>4, <1>5, Zenon

\* A step that leaves the node and the sequence alone.
LEMMA CalmNodeStays ==
    ASSUME CalmNode, UNCHANGED <<sequence, nodeState>>,
           cells'.account = "full" <=> cells.account = "full"
    PROVE  CalmNode'
<1>1. sequence' = sequence /\ chainSeq' = chainSeq /\ status' = status
  BY Zenon DEF nodeState
<1> QED
  BY <1>1, Zenon DEF CalmNode, Pending

\* The account is loaded: nothing is pending yet.
LEMMA CalmNodeLoaded ==
    ASSUME CalmNode, cells.account # "full", cells'.account = "full", UNCHANGED nodeState,
           chainSeq \in Nat, sequence' = chainSeq
    PROVE  CalmNode'
<1>1. chainSeq' = chainSeq /\ status' = status
  BY Zenon DEF nodeState
<1>2. \A tx \in Txs : ~Pending(tx) /\ ~Pending(tx)'
  BY <1>1, Zenon DEF CalmNode, Pending
<1>3. chainSeq' <= sequence' /\ \A s \in chainSeq'..(sequence' - 1) : FALSE
  BY <1>1
<1>4. /\ \A tx \in Txs : status'[tx] \in {"unknown", "pending", "committed", "failed"}
      /\ \A tx \in Txs : status'[tx] \in {"committed", "failed"} => tx.seq < chainSeq'
  BY <1>1, Zenon DEF CalmNode
<1> QED
  BY <1>2, <1>3, <1>4, Zenon DEF CalmNode

\* A transaction with the sequence of the account is accepted.
LEMMA CalmNodeSent ==
    ASSUME CalmNode, NodeInv, sequence \in Sequences, cells.account = "full",
           cells' = cells, chainSeq' = chainSeq, NEW tx \in Txs, tx.seq = sequence,
           ~InMempoolCache(tx), status' = [status EXCEPT ![tx] = "pending"],
           sequence' = sequence + 1
    PROVE  CalmNode'
<1>0. status \in [Txs -> Statuses] /\ "pending" \in Statuses
  BY DEF NodeInv, Statuses
<1>1. /\ status'[tx] = "pending"
      /\ \A x \in Txs : x # tx => status'[x] = status[x]
  BY <1>0, StatusOf, Zenon
<1>2. sequence \in Nat /\ chainSeq \in Nat /\ chainSeq <= sequence
  BY SequencesAreNumbers, Zenon DEF NodeInv, CalmNode
<1>3. \A x \in Txs : Pending(x)' <=> Pending(x) \/ x = tx
  BY <1>1, Zenon DEF Pending
<1>4. \A x \in Txs : x.seq \in Nat
  BY SequencesAreNumbers DEF Txs
<1>5. \A x \in Txs : Pending(x) => chainSeq <= x.seq /\ x.seq < sequence /\ x # tx
  <2>1. \A x \in Txs : Pending(x) => chainSeq <= x.seq /\ x.seq < sequence
    BY Zenon DEF CalmNode
  <2>2. ~(tx.seq < sequence)
    BY <1>2
  <2> QED
    BY <2>1, <2>2, Zenon
<1>6. \A x \in Txs : Pending(x)' => chainSeq <= x.seq /\ x.seq < sequence + 1
  <2> TAKE x \in Txs
  <2>1. CASE Pending(x)
    BY <1>2, <1>4, <1>5, <2>1
  <2>2. CASE x = tx
    BY <1>2, <2>2
  <2> QED
    BY <1>3, <2>1, <2>2, Zenon
<1>7. \A x, y \in Txs : Pending(x)' /\ Pending(y)' /\ x.seq = y.seq => x = y
  <2>1. \A x \in Txs : Pending(x) => x.seq # sequence
    BY <1>2, <1>4, <1>5
  <2> QED
    BY <1>3, <2>1, Zenon DEF CalmNode
<1>8. \A s \in chainSeq..((sequence + 1) - 1) : \E x \in Txs : Pending(x)' /\ x.seq = s
  <2> TAKE s \in chainSeq..((sequence + 1) - 1)
  <2>1. s \in chainSeq..(sequence - 1) \/ s = sequence
    BY <1>2
  <2>2. CASE s \in chainSeq..(sequence - 1)
    BY <1>3, <2>2, Zenon DEF CalmNode
  <2>3. CASE s = sequence
    BY <1>3, <2>3, Zenon
  <2> QED
    BY <2>1, <2>2, <2>3, Zenon
<1>9. chainSeq <= sequence + 1
  BY <1>2
<1>10. \A x \in Txs : status'[x] \in {"unknown", "pending", "committed", "failed"}
  BY <1>1, Zenon DEF CalmNode
<1>11. \A x \in Txs : status'[x] \in {"committed", "failed"} => x.seq < chainSeq
  <2>1. status'[tx] \notin {"committed", "failed"}
    BY <1>1
  <2> QED
    BY <1>1, <2>1, Zenon DEF CalmNode
<1> QED
  BY <1>6, <1>7, <1>8, <1>9, <1>10, <1>11, Zenon DEF CalmNode

\* The first of those that are pending gets into a block.
LEMMA CalmNodeCommits ==
    ASSUME CalmNode, NodeInv, sequence \in Sequences, UNCHANGED <<cells, sequence>>,
           NEW tx \in Txs, NEW outcome \in {"committed", "failed"},
           status[tx] = "pending", tx.seq = chainSeq, chainSeq' = chainSeq + 1,
           status' = [status EXCEPT ![tx] = outcome]
    PROVE  CalmNode'
<1>0. status \in [Txs -> Statuses] /\ outcome \in Statuses
  BY DEF NodeInv, Statuses
<1>1. /\ status'[tx] = outcome
      /\ \A x \in Txs : x # tx => status'[x] = status[x]
  BY <1>0, StatusOf, Zenon
<1>2. sequence \in Nat /\ chainSeq \in Nat
  BY SequencesAreNumbers, Zenon DEF NodeInv
<1>3. \A x \in Txs : Pending(x)' <=> Pending(x) /\ x # tx
  <2>1. status'[tx] # "pending"
    BY <1>1
  <2> QED
    BY <1>1, <2>1, Zenon DEF Pending
<1>4. \A x \in Txs : x.seq \in Nat
  BY SequencesAreNumbers DEF Txs
<1>5. cells.account = "full" /\ chainSeq < sequence
  BY Zenon DEF CalmNode, Pending
<1>6. \A x \in Txs : Pending(x)' => chainSeq + 1 <= x.seq /\ x.seq < sequence
  <2> SUFFICES ASSUME NEW x \in Txs, Pending(x)' PROVE chainSeq + 1 <= x.seq /\ x.seq < sequence
    BY Zenon
  <2>1. Pending(x) /\ x # tx /\ Pending(tx)
    BY <1>3, Zenon DEF Pending
  <2>2. chainSeq <= x.seq /\ x.seq < sequence /\ x.seq # chainSeq
    BY <2>1, Zenon DEF CalmNode
  <2> QED
    BY <1>2, <1>4, <2>2
<1>7. \A x, y \in Txs : Pending(x)' /\ Pending(y)' /\ x.seq = y.seq => x = y
  BY <1>3, Zenon DEF CalmNode
<1>8. \A s \in (chainSeq + 1)..(sequence - 1) : \E x \in Txs : Pending(x)' /\ x.seq = s
  <2> TAKE s \in (chainSeq + 1)..(sequence - 1)
  <2>1. s \in chainSeq..(sequence - 1) /\ s # chainSeq
    BY <1>2
  <2>2. PICK x \in Txs : Pending(x) /\ x.seq = s
    BY <1>5, <2>1, Zenon DEF CalmNode
  <2> QED
    BY <1>3, <2>1, <2>2, Zenon
<1>9. chainSeq + 1 <= sequence
  BY <1>2, <1>5
<1>10. \A x \in Txs : status'[x] \in {"unknown", "pending", "committed", "failed"}
  BY <1>1, Zenon DEF CalmNode
<1>11. \A x \in Txs : status'[x] \in {"committed", "failed"} => x.seq < chainSeq + 1
  <2> SUFFICES ASSUME NEW x \in Txs, status'[x] \in {"committed", "failed"}
               PROVE  x.seq < chainSeq + 1
    BY Zenon
  <2>1. x = tx \/ x.seq < chainSeq
    BY <1>1, Zenon DEF CalmNode
  <2> QED
    BY <1>2, <1>4, <2>1
<1> QED
  BY <1>5, <1>6, <1>7, <1>8, <1>9, <1>10, <1>11, Zenon DEF CalmNode

\* What the tasks wait for.
LEMMA CalmTasksStep ==
    ASSUME CalmTasks, task \in [Submissions -> Tasks], NEW t \in Submissions,
           NEW place, NEW q, Turns(t, place, q),
           place \notin {"evictedAgain", "unknownAgain", "rollback"},
           place = "status" => q = task[t].seq /\ InMempoolCache(Signed(t))',
           \A tx \in Txs : InMempoolCache(tx) => InMempoolCache(tx)'
    PROVE  CalmTasks'
<1>a. /\ \A u \in Submissions : u # t => task'[u].at = task[u].at /\ task'[u].seq = task[u].seq
      /\ task'[t].at = place /\ task'[t].seq = q
  BY Zenon DEF Turns
<1>1. ASSUME NEW u \in Submissions, u # t, task'[u].at = "status"
      PROVE  InMempoolCache(Signed(u))'
  <2>1. Signed(u)' = Signed(u) /\ Signed(u) \in Txs /\ task[u].at = "status"
    BY <1>1, <1>a, SignedIsTx, Zenon DEF Signed
  <2>2. InMempoolCache(Signed(u))
    BY <2>1, Zenon DEF CalmTasks
  <2>3. status'[Signed(u)] \in {"pending", "committed", "failed"}
    BY <2>1, <2>2, Zenon DEF InMempoolCache
  <2> QED
    BY <2>1, <2>3, Zenon DEF InMempoolCache
<1>2. \A u \in Submissions : task'[u].at = "status" => InMempoolCache(Signed(u))'
  BY <1>1, <1>a, Zenon
<1>3. \A u \in Submissions : task'[u].at \notin {"evictedAgain", "unknownAgain", "rollback"}
  BY <1>a, Zenon DEF CalmTasks
<1> QED
  BY <1>2, <1>3, Zenon DEF CalmTasks

-----------------------------------------------------------------------------
(* Every step keeps the invariants                                         *)

\* The inductive invariant.
KnownInv == LockInv /\ CellsInv /\ NodeInv /\ SignedInv /\ CalmInv

\* A step that leaves the node and the sequence of the account alone.
LEMMA QuietKeeps ==
    ASSUME KnownInv, NEW t \in Submissions, NEW place, NEW q, Turns(t, place, q),
           LockInv', CellsInv', UNCHANGED <<sequence, nodeState, spent>>,
           cells'.account = "full" <=> cells.account = "full",
           place \in Holding => q = sequence,
           Calm => /\ place \notin {"evictedAgain", "unknownAgain", "rollback"}
                   /\ place = "status" => q = task[t].seq /\ InMempoolCache(Signed(t))
    PROVE  KnownInv'
<1>1. /\ NodeInv /\ SignedInv /\ CalmInv /\ task \in [Submissions -> Tasks]
      /\ sequence \in Sequences /\ sequence' = sequence /\ spent' = spent
  BY Zenon DEF KnownInv, SignedInv
<1>2. Budget /\ (Calm' <=> Calm)
  BY <1>1, Zenon DEF Budget, Bounds, NodeInv, Calm
<1>3. NodeInv'
  BY <1>1, <1>2, NodeStays, Zenon
<1>4. SignedInv'
  BY <1>1, SignedStep, Zenon
<1>5. ASSUME Calm' PROVE CalmNode' /\ CalmTasks'
  <2>1. Calm /\ CalmNode /\ CalmTasks
    BY <1>1, <1>2, <1>5, Zenon DEF CalmInv
  <2>2. CalmNode'
    BY <2>1, CalmNodeStays, Zenon
  <2>3. \A tx : InMempoolCache(tx)' <=> InMempoolCache(tx)
    BY Zenon DEF InMempoolCache, nodeState
  <2>4. place = "status" => q = task[t].seq /\ InMempoolCache(Signed(t))'
    <3>1. task'[t].seq = q /\ status' = status
      BY Zenon DEF Turns, nodeState
    <3>2. q = task[t].seq => Signed(t)' = Signed(t)
      BY <3>1, Zenon DEF Signed
    <3> QED
      BY <2>1, <3>1, <3>2, Zenon DEF InMempoolCache
  <2>5. CalmTasks'
    BY <1>1, <2>1, <2>3, <2>4, CalmTasksStep, Zenon
  <2> QED
    BY <2>2, <2>5, Zenon
<1> QED
  BY <1>3, <1>4, <1>5, Zenon DEF KnownInv, CalmInv

\* A task that fails, or ends with the result the node has for it.
LEMMA EndKeepsKnown ==
    ASSUME KnownInv, NEW t \in Submissions, NEW result \in Results, End(t, result),
           result \in {"error", "dropped"} \/ task[t].at \notin BeforeAccount,
           UNCHANGED <<sequence, nodeState, spent>>
    PROVE  KnownInv'
<1>1. LockInv /\ CellsInv /\ task \in [Submissions -> Tasks]
  BY Zenon DEF KnownInv, SignedInv
<1>2. /\ Turns(t, result, task[t].seq) /\ LockInv' /\ CellsInv'
      /\ cells'.account = "full" <=> cells.account = "full"
  BY <1>1, EndKeeps, Zenon
<1>3. /\ result \notin Holding /\ result # "status"
      /\ result \notin {"evictedAgain", "unknownAgain", "rollback"}
  BY DEF Results, Holding
<1> QED
  BY <1>2, <1>3, QuietKeeps, Zenon

\* A task that goes to another place outside the queue of the mutex, or stays in its turn.
LEMMA WalkKeepsKnown ==
    ASSUME KnownInv, NEW t \in Submissions, NEW place, Turns(t, place, task[t].seq),
           cells' \in Cells, cells'.account = cells.account, lock' = lock,
           UNCHANGED <<sequence, nodeState, spent>>,
           place # "getAccount", place \in BeforeAccount \/ task[t].at \notin BeforeAccount,
           task[t].at \in Holding <=> place \in Holding,
           task[t].at \in InLock => place \in InLock,
           Calm => /\ place \notin {"evictedAgain", "unknownAgain", "rollback"}
                   /\ place = "status" => InMempoolCache(Signed(t))
    PROVE  KnownInv'
<1>1. LockInv /\ CellsInv /\ SignedInv
  BY Zenon DEF KnownInv
<1>2. place \in Holding => 1 \in 1..Len(lock) /\ lock[1] = t /\ task[t].seq = sequence
  BY <1>1, Zenon DEF LockInv, SignedInv
<1>3. LockInv'
  BY <1>1, <1>2, LockStays, Zenon
<1>4. place \in BeforeAccount \/ cells'.account = "full"
  BY <1>1, Zenon DEF CellsInv
<1>5. CellsInv'
  BY <1>1, <1>4, CellsStep, Zenon
<1>6. Calm => /\ place \notin {"evictedAgain", "unknownAgain", "rollback"}
              /\ place = "status" => task[t].seq = task[t].seq /\ InMempoolCache(Signed(t))
  BY Zenon
<1> QED
  BY <1>2, <1>3, <1>5, <1>6, QuietKeeps, Zenon

\* A task that signs again, with the sequence the node named.
LEMMA ResignKeepsKnown ==
    ASSUME KnownInv, ListInv', NEW t \in Submissions, task[t].at \in Holding,
           task[t].seq # Expected, Resign(t), UNCHANGED <<nodeState, spent>>
    PROVE  KnownInv'
<1>1. /\ LockInv /\ CellsInv /\ SignedInv /\ NodeInv /\ CalmInv /\ spent' = spent
      /\ task \in [Submissions -> Tasks] /\ sequence' = Expected /\ LoopWith(t, Expected)
      /\ cells' = cells /\ lock' = lock
  BY Zenon DEF KnownInv, SignedInv, Resign
<1>2. ~Calm
  BY <1>1, CalmSigned, Zenon
<1>3. Budget /\ ~Calm'
  BY <1>1, <1>2, Zenon DEF Budget, Bounds, NodeInv, Calm
<1>4. Expected \in Sequences
  BY <1>1, ExpectedIs, Zenon
<1>5. Turns(t, FirstCall(t), Expected) /\ FirstCall(t) \in Holding
  BY <1>1, <1>4, LoopTurns, Zenon
<1>6. /\ FirstCall(t) \in InLock /\ FirstCall(t) # "getAccount"
      /\ task[t].at \notin BeforeAccount
  BY <1>5 DEF InLock, Holding, BeforeAccount
<1>7. LockInv'
  <2>1. 1 \in 1..Len(lock) /\ lock[1] = t
    BY <1>1, Zenon DEF LockInv
  <2> QED
    BY <1>1, <1>5, <1>6, <2>1, LockStays, Zenon
<1>8. CellsInv'
  <2>1. cells.account = "full" /\ cells' \in Cells
    BY <1>1, <1>6, Zenon DEF CellsInv, Cells
  <2> QED
    BY <1>1, <1>5, <1>6, <2>1, CellsStep, Zenon
<1>9. SignedInv'
  <2>1. \A u \in Submissions : u # t => task[u].at \notin Holding
    BY <1>1, OnlyHolder, Zenon
  <2> QED
    BY <1>1, <1>4, <1>5, <2>1, SignedStep, Zenon
<1>10. NodeInv'
  BY <1>1, <1>3, NodeStays, Zenon
<1> QED
  BY <1>3, <1>7, <1>8, <1>9, <1>10, Zenon DEF KnownInv, CalmInv

\* Until the account is loaded and the mutex asked for.
LEMMA PrepareKeepsKnown ==
    ASSUME KnownInv, ListInv', NEW t \in Submissions,
           Submit(t) \/ LoadChainState(t) \/ GotBlock(t) \/ LockAccount(t)
    PROVE  KnownInv'
<1>0. /\ LockInv /\ CellsInv /\ task \in [Submissions -> Tasks] /\ cells \in Cells
      /\ {"chain", "getBlock", "account", "getAccount", "lock"} \subseteq Places
  BY DEF KnownInv, SignedInv, CellsInv, Cells, Places, Calls
<1>a. /\ \A x \in {"idle", "chain", "getBlock", "account", "getAccount"} :
              x \in BeforeAccount /\ x \notin InLock /\ x \notin Holding
      /\ "lock" \notin Holding
  BY DEF BeforeAccount, InLock, Holding
<1>b. /\ "error" \in Results /\ "error" \in {"error", "dropped"}
      /\ \A x \in {"chain", "getBlock", "account"} :
            x # "getAccount" /\ x # "status" /\ x \notin {"evictedAgain", "unknownAgain", "rollback"}
  BY DEF Results
<1>c. ASSUME NEW place \in {"chain", "getBlock", "account"},
             task[t].at \in {"idle", "chain", "getBlock", "account", "getAccount"},
             Turns(t, place, task[t].seq), cells' \in Cells, cells'.account = cells.account,
             lock' = lock, UNCHANGED <<sequence, nodeState, spent>>
      PROVE  KnownInv'
  <2>1. place \in BeforeAccount /\ place \notin Holding /\ task[t].at \notin Holding
        /\ task[t].at \notin InLock
    BY <1>a, <1>c, Zenon
  <2> QED
    BY <1>b, <1>c, <2>1, WalkKeepsKnown, Zenon
<1>1. CASE Submit(t)
  <2>1. Go(t, "chain") /\ task[t].at = "idle" /\ cells' = cells /\ lock' = lock
        /\ UNCHANGED <<sequence, nodeState, spent>>
    BY <1>1, Zenon DEF Submit
  <2>2. Turns(t, "chain", task[t].seq)
    BY <1>0, <2>1, GoTurns, Zenon
  <2> QED
    BY <1>0, <1>c, <2>1, <2>2, Zenon
<1>2. CASE Initialize(t, "chain", "getBlock")
  <2>1. /\ Start(t, "getBlock") /\ task[t].at = "chain" /\ lock' = lock
        /\ UNCHANGED <<sequence, nodeState, spent>>
    BY <1>2, Zenon DEF Initialize
  <2>2. cells' \in Cells /\ cells'.account = cells.account
    BY <1>0, <1>2 DEF Initialize, Cells
  <2>3. Turns(t, "getBlock", task[t].seq)
    BY <1>0, <2>1, StartTurns, Zenon
  <2> QED
    BY <1>c, <2>1, <2>2, <2>3, Zenon
<1>3. ASSUME task[t].at = "chain", Go(t, "account"), cells' = cells, lock' = lock,
             UNCHANGED <<sequence, nodeState, spent>>
      PROVE  KnownInv'
  <2>1. Turns(t, "account", task[t].seq)
    BY <1>0, <1>3, GoTurns, Zenon
  <2> QED
    BY <1>0, <1>3, <1>c, <2>1, Zenon
<1>4. ASSUME End(t, "error"), UNCHANGED <<sequence, nodeState, spent>>
      PROVE  KnownInv'
  BY <1>4, <1>b, EndKeepsKnown, Zenon
<1>5. CASE GotBlock(t)
  <2>1. CASE End(t, "error")
    BY <1>4, <1>5, <2>1, Zenon DEF GotBlock
  <2>2. CASE Go(t, "account") /\ cells' = [cells EXCEPT !.chain = "full"] /\ UNCHANGED lock
    <3>1. cells' \in Cells /\ cells'.account = cells.account
      BY <1>0, <2>2 DEF Cells
    <3>2. Turns(t, "account", task[t].seq)
      BY <1>0, <2>2, GoTurns, Zenon
    <3>3. task[t].at = "getBlock" /\ UNCHANGED <<sequence, nodeState, spent>> /\ lock' = lock
      BY <1>5, <2>2, Zenon DEF GotBlock
    <3> QED
      BY <1>c, <3>1, <3>2, <3>3, Zenon
  <2> QED
    BY <1>5, <2>1, <2>2, Zenon DEF GotBlock
<1>6. CASE Initialize(t, "account", "getAccount")
  <2>1. /\ Start(t, "getAccount") /\ task[t].at = "account" /\ lock' = lock
        /\ UNCHANGED <<sequence, nodeState, spent>> /\ cells.account = "empty"
    BY <1>6, Zenon DEF Initialize
  <2>2. cells' \in Cells /\ cells'.account = "busy"
    BY <1>0, <1>6 DEF Initialize, Cells
  <2>3. Turns(t, "getAccount", task[t].seq)
    BY <1>0, <2>1, StartTurns, Zenon
  <2>4. CellsInv'
    BY <1>0, <2>1, <2>2, <2>3, CellsAsked, Zenon
  <2>5. LockInv'
    BY <1>0, <1>a, <2>1, <2>3, LockStays, Zenon
  <2>6. /\ cells'.account = "full" <=> cells.account = "full"
        /\ "getAccount" \notin {"evictedAgain", "unknownAgain", "rollback"}
        /\ "getAccount" # "status" /\ "getAccount" \notin Holding
    BY <1>a, <2>1, <2>2
  <2> QED
    BY <2>1, <2>3, <2>4, <2>5, <2>6, QuietKeeps, Zenon
<1>7. ASSUME task[t].at = "account", cells.account = "full", Go(t, "lock"),
             lock' = Append(lock, t), cells' = cells, UNCHANGED <<sequence, nodeState, spent>>
      PROVE  KnownInv'
  <2>1. Turns(t, "lock", task[t].seq)
    BY <1>0, <1>7, GoTurns, Zenon
  <2>2. LockInv'
    BY <1>0, <1>7, <1>a, <2>1, LockJoined, Zenon
  <2>3. "lock" # "getAccount" /\ "lock" # "status"
        /\ "lock" \notin {"evictedAgain", "unknownAgain", "rollback"}
    OBVIOUS
  <2>4. CellsInv'
    BY <1>0, <1>7, <2>1, <2>3, CellsStep, Zenon
  <2> QED
    BY <1>7, <1>a, <2>1, <2>2, <2>3, <2>4, QuietKeeps, Zenon
<1>8. CASE LoadChainState(t)
  BY <1>2, <1>3, <1>4, <1>8, Zenon DEF LoadChainState
<1>9. CASE LockAccount(t)
  BY <1>6, <1>7, <1>9, Zenon DEF LockAccount
<1> QED
  BY <1>1, <1>5, <1>8, <1>9, Zenon

\* The account is loaded.
LEMMA GotAccountKeepsKnown ==
    ASSUME KnownInv, NEW t \in Submissions, GotAccount(t)
    PROVE  KnownInv'
<1>1. /\ LockInv /\ CellsInv /\ SignedInv /\ NodeInv /\ CalmInv /\ spent' = spent
      /\ task \in [Submissions -> Tasks] /\ sequence' = chainSeq /\ Go(t, "lock")
      /\ lock' = Append(lock, t) /\ task[t].at = "getAccount" /\ UNCHANGED nodeState
      /\ cells \in Cells /\ cells' = [cells EXCEPT !.account = "full"]
  BY Zenon DEF KnownInv, SignedInv, GotAccount, CellsInv, Cells
<1>2. /\ "lock" \in Places /\ "lock" \notin Holding /\ "lock" # "getAccount" /\ "lock" # "status"
      /\ "getAccount" \notin InLock /\ "lock" \notin {"evictedAgain", "unknownAgain", "rollback"}
      /\ \A x \in BeforeAccount : x \notin Holding
  BY DEF Places, Holding, InLock, BeforeAccount
<1>3. Turns(t, "lock", task[t].seq)
  BY <1>1, <1>2, GoTurns, Zenon
<1>4. LockInv'
  BY <1>1, <1>2, <1>3, LockJoined, Zenon
<1>5. cells' \in Cells /\ cells'.account = "full" /\ cells.account = "busy"
  BY <1>1 DEF Cells, CellsInv
<1>6. CellsInv'
  BY <1>1, <1>2, <1>3, <1>5, CellsStep, Zenon
<1>7. cells.account # "full"
  BY <1>5
<1>8. SignedInv'
  <2>1. \A u \in Submissions : task[u].at \notin Holding
    BY <1>1, <1>2, <1>7, Zenon DEF CellsInv
  <2>2. sequence' \in Sequences
    BY <1>1, Zenon DEF NodeInv
  <2> QED
    BY <1>1, <1>2, <1>3, <2>1, <2>2, SignedStep, Zenon
<1>9. Budget /\ (Calm' <=> Calm)
  BY <1>1, Zenon DEF Budget, Bounds, NodeInv, Calm
<1>10. NodeInv'
  BY <1>1, <1>9, NodeStays, Zenon
<1>11. ASSUME Calm' PROVE CalmNode' /\ CalmTasks'
  <2>1. CalmNode /\ CalmTasks /\ chainSeq \in Nat
    BY <1>1, <1>9, <1>11, SequencesAreNumbers, Zenon DEF CalmInv, NodeInv
  <2>2. CalmNode'
    BY <1>1, <1>5, <1>7, <2>1, CalmNodeLoaded, Zenon
  <2>3. \A tx \in Txs : InMempoolCache(tx) => InMempoolCache(tx)'
    BY <1>1, Zenon DEF InMempoolCache, nodeState
  <2>4. CalmTasks'
    BY <1>1, <1>2, <1>3, <2>1, <2>3, CalmTasksStep, Zenon
  <2> QED
    BY <2>2, <2>4, Zenon
<1> QED
  BY <1>4, <1>6, <1>8, <1>10, <1>11, Zenon DEF KnownInv, CalmInv

\* A task gets the mutex and signs, or finds out the gas.
LEMMA SignKeepsKnown ==
    ASSUME KnownInv, ListInv', NEW t \in Submissions,
           GotLock(t) \/ GotGas(t) \/ EstimateMismatch(t) \/ BroadcastMismatch(t)
           \/ BroadcastRefused(t)
    PROVE  KnownInv'
<1>0. /\ LockInv /\ CellsInv /\ SignedInv /\ task \in [Submissions -> Tasks]
      /\ sequence \in Sequences /\ cells \in Cells
  BY Zenon DEF KnownInv, SignedInv, CellsInv, Cells
<1>a. /\ "broadcast" \in Holding /\ "estimate" \in Holding /\ "price" \in Holding
      /\ "broadcast" \in Places /\ "error" \in Results /\ "error" \in {"error", "dropped"}
      /\ "lock" \notin BeforeAccount
      /\ \A x \in Holding : /\ x \in InLock /\ x \notin BeforeAccount
                            /\ x # "getAccount" /\ x # "status"
                            /\ x \notin {"evictedAgain", "unknownAgain", "rollback"}
  BY DEF Holding, InLock, BeforeAccount, Places, Calls, Results
<1>b. ASSUME NEW place \in Holding, task[t].at \in Holding, Turns(t, place, task[t].seq),
             cells' = cells, lock' = lock, UNCHANGED <<sequence, nodeState, spent>>
      PROVE  KnownInv'
  BY <1>0, <1>a, <1>b, WalkKeepsKnown, Zenon
<1>1. CASE GotLock(t)
  <2>1. /\ task[t].at = "lock" /\ lock # <<>> /\ Head(lock) = t /\ LoopWith(t, sequence)
        /\ cells' = cells /\ lock' = lock /\ UNCHANGED <<sequence, nodeState, spent>>
    BY <1>1, Zenon DEF GotLock
  <2>2. Turns(t, FirstCall(t), sequence) /\ FirstCall(t) \in Holding
    BY <1>0, <2>1, LoopTurns, Zenon
  <2>3. 1 \in 1..Len(lock) /\ lock[1] = t
    BY <1>0, <2>1 DEF LockInv
  <2>4. LockInv'
    BY <1>0, <1>a, <2>1, <2>2, <2>3, LockStays, Zenon
  <2>5. cells.account = "full"
    BY <1>0, <1>a, <2>1, Zenon DEF CellsInv
  <2>6. CellsInv'
    BY <1>0, <1>a, <2>1, <2>2, <2>5, CellsStep, Zenon
  <2> QED
    BY <1>a, <2>1, <2>2, <2>4, <2>6, QuietKeeps, Zenon
<1>2. CASE GotGas(t)
  <2>1. task[t].at \in Holding /\ UNCHANGED <<sequence, nodeState, spent>>
    BY <1>2, <1>a, Zenon DEF GotGas
  <2>2. CASE Start(t, "broadcast") /\ UNCHANGED <<cells, lock>>
    <3>1. Turns(t, "broadcast", task[t].seq)
      BY <1>0, <1>a, <2>2, StartTurns, Zenon
    <3> QED
      BY <1>a, <1>b, <2>1, <2>2, <3>1, Zenon
  <2>3. CASE End(t, "error")
    BY <1>a, <2>1, <2>3, EndKeepsKnown, Zenon
  <2> QED
    BY <1>2, <2>2, <2>3, Zenon DEF GotGas
<1>3. CASE EstimateMismatch(t)
  <2>1. task[t].at \in Holding /\ task[t].seq # Expected /\ UNCHANGED <<nodeState, spent>>
    BY <1>3, <1>a, Zenon DEF EstimateMismatch
  <2>2. CASE NextEndpoint(t) /\ UNCHANGED <<cells, lock, sequence>>
    <3>1. Turns(t, task[t].at, task[t].seq)
      BY <1>0, <2>2, NextEndpointTurns, Zenon
    <3> QED
      BY <1>b, <2>1, <2>2, <3>1, Zenon
  <2>3. CASE Resign(t)
    BY <2>1, <2>3, ResignKeepsKnown, Zenon
  <2> QED
    BY <1>3, <2>2, <2>3, Zenon DEF EstimateMismatch
<1>4. CASE BroadcastMismatch(t)
  BY <1>4, <1>a, ResignKeepsKnown, Zenon DEF BroadcastMismatch
<1>5. CASE BroadcastRefused(t)
  BY <1>5, <1>a, EndKeepsKnown, Zenon DEF BroadcastRefused
<1> QED
  BY <1>1, <1>2, <1>3, <1>4, <1>5, Zenon

\* The broadcast is answered: the sequence is used, the mutex is given back.
LEMMA BroadcastedKeepsKnown ==
    ASSUME KnownInv, PaidInv, ListInv', NEW t \in Submissions, Broadcasted(t)
    PROVE  KnownInv'
<1>1. /\ LockInv /\ CellsInv /\ SignedInv /\ NodeInv /\ CalmInv /\ spent' = spent
      /\ task \in [Submissions -> Tasks] /\ sequence' = sequence + 1 /\ Start(t, "status")
      /\ lock' = LockWithout(t) /\ task[t].at = "broadcast" /\ chainSeq' = chainSeq
      /\ cells \in Cells /\ cells' = cells /\ Received(Signed(t))
      /\ Acceptable(Signed(t)) \/ InMempoolCache(Signed(t))
  BY Zenon DEF KnownInv, SignedInv, Broadcasted, CellsInv, Cells, AfterBroadcast, InMempool
<1>2. /\ "status" \in Places /\ "status" \notin Holding /\ "status" \notin InLock
      /\ "status" # "getAccount" /\ "broadcast" \in Holding /\ "broadcast" \notin BeforeAccount
      /\ "status" \notin {"evictedAgain", "unknownAgain", "rollback"}
  BY DEF Places, Calls, Holding, InLock, BeforeAccount
<1>3. Turns(t, "status", task[t].seq)
  BY <1>1, <1>2, StartTurns, Zenon
<1>4. LockInv'
  BY <1>1, <1>2, <1>3, LockLeft, Zenon
<1>5. cells.account = "full"
  BY <1>1, <1>2, Zenon DEF CellsInv
<1>6. CellsInv'
  BY <1>1, <1>2, <1>3, <1>5, CellsStep, Zenon
<1>7. Signed(t) \in Txs /\ Signed(t).seq = sequence /\ task[t].seq = sequence
  BY <1>1, <1>2, SignedIsTx, Zenon DEF SignedInv
<1>8. SignedInv'
  <2>1. \A u \in Submissions : u # t => task[u].at \notin Holding
    BY <1>1, <1>2, OnlyHolder, Zenon
  <2>2. sequence < LastSequence
    BY <1>1, <1>7, AcceptableBelowLast, Zenon DEF NodeInv
  <2>3. sequence \in Nat /\ FirstSequence <= sequence /\ FirstSequence \in Nat /\ LastSequence \in Nat
    BY <1>1, SequencesAreNumbers, TxAssumption, Zenon DEF SignedInv
  <2>4. sequence + 1 \in Nat /\ FirstSequence <= sequence + 1 /\ sequence + 1 <= LastSequence
    BY <2>2, <2>3
  <2>5. sequence' \in Sequences
    BY <1>1, <2>4, SequencesAreNumbers, Zenon
  <2> QED
    BY <1>1, <1>2, <1>3, <2>1, <2>5, SignedStep, Zenon
<1>9. Budget /\ (Calm' <=> Calm)
  BY <1>1, Zenon DEF Budget, Bounds, NodeInv, Calm
<1>10. NodeInv'
  BY <1>1, <1>9, NodeReceives, Zenon
<1>11. ASSUME Calm' PROVE CalmNode' /\ CalmTasks'
  <2>1. Calm /\ CalmNode /\ CalmTasks
    BY <1>1, <1>9, <1>11, Zenon DEF CalmInv
  <2>2. ~InMempoolCache(Signed(t))
    BY <1>1, <1>2, <2>1, CalmSigned, Zenon
  <2>3. status' = [status EXCEPT ![Signed(t)] = "pending"]
    BY <1>1, <2>2, Zenon DEF Received
  <2>4. CalmNode'
    BY <1>1, <1>5, <1>7, <2>1, <2>2, <2>3, CalmNodeSent, Zenon DEF SignedInv
  <2>5. /\ status'[Signed(t)] = "pending"
        /\ \A x \in Txs : x # Signed(t) => status'[x] = status[x]
    <3>1. status \in [Txs -> Statuses] /\ "pending" \in Statuses
      BY <1>1 DEF NodeInv, Statuses
    <3> QED
      BY <1>7, <2>3, <3>1, StatusOf, Zenon
  <2>6. \A tx \in Txs : InMempoolCache(tx) => InMempoolCache(tx)'
    BY <2>5, Zenon DEF InMempoolCache
  <2>7. InMempoolCache(Signed(t))'
    <3>1. Signed(t)' = Signed(t)
      BY <1>3, Zenon DEF Turns, Signed
    <3> QED
      BY <2>5, <3>1, Zenon DEF InMempoolCache
  <2>8. CalmTasks'
    BY <1>1, <1>2, <1>3, <2>1, <2>6, <2>7, CalmTasksStep, Zenon
  <2> QED
    BY <2>4, <2>8, Zenon
<1> QED
  BY <1>4, <1>6, <1>8, <1>10, <1>11, Zenon DEF KnownInv, CalmInv

\* The status is answered.
LEMMA ConfirmedKeepsKnown ==
    ASSUME KnownInv, ListInv', NEW t \in Submissions, Confirmed(t)
    PROVE  KnownInv'
<1>1. /\ LockInv /\ CellsInv /\ CalmInv /\ task \in [Submissions -> Tasks] /\ cells \in Cells
      /\ task[t].at = "status" /\ UNCHANGED <<sequence, nodeState, spent>>
  BY Zenon DEF KnownInv, SignedInv, CellsInv, Cells, Confirmed
<1>2. /\ {"ok", "executionFailed", "rejected"} \subseteq Results
      /\ {"status", "evictedAgain", "unknownAgain", "rollback"} \subseteq Places
      /\ \A x \in {"status", "evictedAgain", "unknownAgain"} :
            x \notin Holding /\ x \notin InLock /\ x # "getAccount"
      /\ "rollback" \notin Holding /\ "rollback" # "getAccount" /\ "rollback" # "status"
      /\ "status" \notin BeforeAccount
  BY DEF Results, Places, Calls, Holding, InLock, BeforeAccount
<1>3. Calm => status[Signed(t)] \in {"pending", "committed", "failed"}
  BY <1>1, Zenon DEF CalmInv, CalmTasks, InMempoolCache
<1>a. ASSUME NEW result \in {"ok", "executionFailed", "rejected"}, End(t, result)
      PROVE  KnownInv'
  <2>1. result \in Results
    BY <1>2, <1>a, Zenon
  <2> QED
    BY <1>1, <1>2, <1>a, <2>1, EndKeepsKnown, Zenon
<1>b. ASSUME NEW place \in {"status", "evictedAgain", "unknownAgain"}, Start(t, place),
             UNCHANGED <<cells, lock>>,
             Calm => place = "status"
      PROVE  KnownInv'
  <2>0. place \in Places /\ place \notin Holding /\ place \notin InLock /\ place # "getAccount"
    BY <1>2, <1>b, Zenon
  <2>1. Turns(t, place, task[t].seq)
    BY <1>1, <1>b, <2>0, StartTurns, Zenon
  <2>2. Calm => /\ place \notin {"evictedAgain", "unknownAgain", "rollback"}
                /\ place = "status" => InMempoolCache(Signed(t))
    BY <1>3, <1>b DEF InMempoolCache
  <2>3. cells' \in Cells /\ cells'.account = cells.account /\ lock' = lock
    BY <1>1, <1>b, Zenon
  <2>4. (task[t].at \in Holding <=> place \in Holding) /\ (task[t].at \in InLock => place \in InLock)
    BY <1>1, <1>2, <2>0, Zenon
  <2> QED
    BY <1>1, <1>2, <2>0, <2>1, <2>2, <2>3, <2>4, WalkKeepsKnown, Zenon
<1>4. CASE status[Signed(t)] = "pending"
  <2>1. Start(t, "status") /\ UNCHANGED <<cells, lock>>
    BY <1>4, Zenon DEF Confirmed
  <2> QED
    BY <1>b, <2>1, Zenon
<1>5. CASE status[Signed(t)] = "committed"
  <2>1. End(t, "ok")
    BY <1>5 DEF Confirmed
  <2> QED
    BY <1>a, <2>1, Zenon
<1>6. CASE status[Signed(t)] = "failed"
  <2>1. End(t, "executionFailed")
    BY <1>6 DEF Confirmed
  <2> QED
    BY <1>a, <2>1, Zenon
<1>7. CASE status[Signed(t)] = "wrongSequence"
  <2>1. End(t, "rejected")
    BY <1>7 DEF Confirmed
  <2> QED
    BY <1>a, <2>1, Zenon
<1>8. CASE status[Signed(t)] = "rejected"
  <2>1. Go(t, "rollback") /\ lock' = Append(lock, t) /\ UNCHANGED cells
    BY <1>8 DEF Confirmed
  <2>2. ~Calm
    BY <1>3, <1>8
  <2>3. Turns(t, "rollback", task[t].seq)
    BY <1>1, <1>2, <2>1, GoTurns, Zenon
  <2>4. LockInv'
    BY <1>1, <1>2, <2>1, <2>3, LockJoined, Zenon
  <2>5. cells.account = "full"
    BY <1>1, <1>2, Zenon DEF CellsInv
  <2>6. CellsInv'
    BY <1>1, <1>2, <2>1, <2>3, <2>5, CellsStep, Zenon
  <2> QED
    BY <1>1, <1>2, <2>1, <2>2, <2>3, <2>4, <2>6, QuietKeeps, Zenon
<1>9. CASE status[Signed(t)] = "evicted"
  <2>1. Start(t, "evictedAgain") /\ UNCHANGED <<cells, lock>>
    BY <1>9 DEF Confirmed
  <2>2. ~Calm
    BY <1>3, <1>9
  <2> QED
    BY <1>b, <2>1, <2>2, Zenon
<1>10. CASE status[Signed(t)] \notin {"pending", "committed", "failed", "wrongSequence",
                                     "rejected", "evicted"}
  <2>1. Start(t, "unknownAgain") /\ UNCHANGED <<cells, lock>>
    BY <1>10 DEF Confirmed
  <2>2. ~Calm
    BY <1>3, <1>10
  <2> QED
    BY <1>b, <2>1, <2>2, Zenon
<1> QED
  BY <1>4, <1>5, <1>6, <1>7, <1>8, <1>9, <1>10, Zenon

\* What happens only after the node has dropped something, or a call has failed.
LEMMA NoisyKeeps ==
    ASSUME KnownInv, NEW t \in Submissions, NEW place, NEW q, Turns(t, place, q),
           LockInv', CellsInv', NodeInv', ~Calm', sequence' \in Sequences,
           place \in Holding => q = sequence',
           sequence' = sequence \/ \A u \in Submissions : u # t => task[u].at \notin Holding
    PROVE  KnownInv'
<1>1. SignedInv'
  BY SignedStep, Zenon DEF KnownInv
<1> QED
  BY <1>1, Zenon DEF KnownInv, CalmInv

\* A rejected transaction is rolled back, a lost one sent again: after a fault only.
LEMMA RetryKeepsKnown ==
    ASSUME KnownInv, PaidInv, ListInv', NEW t \in Submissions, Rollback(t) \/ Retransmitted(t)
    PROVE  KnownInv'
<1>1. /\ LockInv /\ CellsInv /\ NodeInv /\ CalmInv /\ task \in [Submissions -> Tasks]
      /\ cells \in Cells /\ sequence \in Sequences /\ spent' = spent /\ chainSeq' = chainSeq
  BY Zenon DEF KnownInv, SignedInv, CellsInv, Cells, Rollback, Retransmitted, nodeState
<1>2. task[t].at \in {"rollback", "evictedAgain", "unknownAgain"}
  BY Zenon DEF Rollback, Retransmitted
<1>3. ~Calm
  BY <1>1, <1>2, Zenon DEF CalmInv, CalmTasks
<1>4. Budget /\ ~Calm'
  BY <1>1, <1>3, Zenon DEF Budget, Bounds, NodeInv, Calm
<1>5. /\ {"rejected", "evicted", "notFound"} \subseteq Results /\ "status" \in Places
      /\ \A x \in {"rejected", "evicted", "notFound", "status"} : x \notin Holding
      /\ "status" \notin InLock /\ "status" # "getAccount"
      /\ \A x \in {"rollback", "evictedAgain", "unknownAgain"} : x \notin BeforeAccount
      /\ "evictedAgain" \notin InLock /\ "unknownAgain" \notin InLock
  BY DEF Results, Places, Calls, Holding, InLock, BeforeAccount
<1>6. task[t].at \notin BeforeAccount /\ cells.account = "full"
  BY <1>1, <1>2, <1>5, Zenon DEF CellsInv
<1>7. CASE Rollback(t)
  <2>1. /\ End(t, "rejected") /\ lock # <<>> /\ Head(lock) = t /\ sequence' = task[t].seq
        /\ UNCHANGED nodeState
    BY <1>7, Zenon DEF Rollback, RolledBack
  <2>2. Turns(t, "rejected", task[t].seq) /\ LockInv' /\ CellsInv'
    BY <1>1, <1>5, <1>6, <2>1, EndKeeps, Zenon
  <2>3. NodeInv'
    BY <1>1, <1>4, <2>1, NodeStays, Zenon
  <2>4. \A u \in Submissions : u # t => task[u].at \notin Holding
    BY <1>1, <2>1, OnlyHolder, Zenon
  <2>5. sequence' \in Sequences
    <3>1. task[t] \in Tasks
      BY <1>1, Zenon
    <3> QED
      BY <2>1, <3>1, TaskFields, Zenon
  <2> QED
    BY <1>4, <1>5, <2>2, <2>3, <2>4, <2>5, NoisyKeeps, Zenon
<1>8. CASE Retransmitted(t)
  <2>1. Received(Signed(t)) /\ sequence' = sequence
        /\ task[t].at \in {"evictedAgain", "unknownAgain"}
    BY <1>8, Zenon DEF Retransmitted
  <2>2. NodeInv'
    BY <1>1, <1>4, <2>1, NodeReceives, Zenon
  <2>3. CASE Start(t, "status") /\ UNCHANGED <<cells, lock>>
    <3>1. Turns(t, "status", task[t].seq)
      BY <1>1, <1>5, <2>3, StartTurns, Zenon
    <3>2. task[t].at \notin InLock
      BY <1>5, <2>1, Zenon
    <3>3. LockInv'
      BY <1>1, <1>5, <2>3, <3>1, <3>2, LockStays, Zenon
    <3>4. CellsInv'
      BY <1>1, <1>5, <1>6, <2>3, <3>1, CellsStep, Zenon
    <3> QED
      BY <1>1, <1>4, <1>5, <2>1, <2>2, <3>1, <3>3, <3>4, NoisyKeeps, Zenon
  <2>4. ASSUME NEW result \in {"evicted", "notFound"}, End(t, result) PROVE KnownInv'
    <3>1. result \in Results /\ result \notin Holding
      BY <1>5, <2>4, Zenon
    <3>2. Turns(t, result, task[t].seq) /\ LockInv' /\ CellsInv'
      BY <1>1, <1>6, <2>4, <3>1, EndKeeps, Zenon
    <3> QED
      BY <1>1, <1>4, <2>1, <2>2, <3>1, <3>2, NoisyKeeps, Zenon
  <2> QED
    BY <1>8, <2>3, <2>4, Zenon DEF Retransmitted
<1> QED
  BY <1>7, <1>8, Zenon

\* A call times out, or its future is dropped.
LEMMA FaultKeepsKnown ==
    ASSUME KnownInv, PaidInv, ListInv', NEW t \in Submissions, Timeout(t) \/ Drop(t)
    PROVE  KnownInv'
<1>1. /\ LockInv /\ CellsInv /\ NodeInv /\ SignedInv /\ task \in [Submissions -> Tasks]
      /\ sequence \in Sequences /\ sequence' = sequence /\ chainSeq' = chainSeq
  BY Zenon DEF KnownInv, SignedInv, Timeout, Drop
<1>2. Budget /\ ~Calm'
  <2>1. "timeouts" \in Bounds \ {"foreign"} /\ "drops" \in Bounds \ {"foreign"}
    BY DEF Bounds
  <2> QED
    BY <1>1, <2>1, SpendIsBudget, Zenon DEF Timeout, Drop
<1>3. NodeInv'
  <2>1. CASE UNCHANGED status
    BY <1>1, <1>2, <2>1, NodeStays, Zenon DEF nodeState
  <2>2. CASE Received(Signed(t))
    BY <1>1, <1>2, <2>2, NodeReceives, Zenon
  <2> QED
    BY <2>1, <2>2, Zenon DEF Timeout, Drop
<1>4. ASSUME NEW result \in Results, End(t, result),
             result \in {"error", "dropped"} \/ task[t].at \notin BeforeAccount
      PROVE  KnownInv'
  <2>1. Turns(t, result, task[t].seq) /\ LockInv' /\ CellsInv'
    BY <1>1, <1>4, EndKeeps, Zenon
  <2>2. result \notin Holding
    BY DEF Results, Holding
  <2> QED
    BY <1>1, <1>2, <1>3, <2>1, <2>2, NoisyKeeps, Zenon
<1>5. /\ {"evicted", "notFound", "error", "dropped"} \subseteq Results
      /\ "evictedAgain" \notin BeforeAccount /\ "unknownAgain" \notin BeforeAccount
  BY DEF Results, BeforeAccount
<1>6. CASE Drop(t)
  BY <1>4, <1>5, <1>6, Zenon DEF Drop
<1>7. CASE NextEndpoint(t) /\ UNCHANGED <<cells, lock>>
  <2>1. Turns(t, task[t].at, task[t].seq)
    BY <1>1, <1>7, NextEndpointTurns, Zenon
  <2>2. task[t].at \in Holding => 1 \in 1..Len(lock) /\ lock[1] = t /\ task[t].seq = sequence
    BY <1>1, Zenon DEF LockInv, SignedInv
  <2>3. LockInv'
    BY <1>1, <1>7, <2>1, <2>2, LockStays, Zenon
  <2>4. CellsInv'
    BY <1>1, <1>7, <2>1, CellsStay, Zenon
  <2> QED
    BY <1>1, <1>2, <1>3, <2>1, <2>2, <2>3, <2>4, NoisyKeeps, Zenon
<1>8. CASE Timeout(t) /\ ~(NextEndpoint(t) /\ UNCHANGED <<cells, lock>>)
  <2>1. End(t, CASE task[t].at = "evictedAgain" -> "evicted"
                 [] task[t].at = "unknownAgain" -> "notFound"
                 [] OTHER -> "error")
    BY <1>8, Zenon DEF Timeout
  <2>2. CASE task[t].at = "evictedAgain"
    <3>1. End(t, "evicted")
      BY <2>1, <2>2
    <3> QED
      BY <1>4, <1>5, <2>2, <3>1, Zenon
  <2>3. CASE task[t].at = "unknownAgain"
    <3>1. End(t, "notFound")
      BY <2>1, <2>3
    <3> QED
      BY <1>4, <1>5, <2>3, <3>1, Zenon
  <2>4. CASE task[t].at \notin {"evictedAgain", "unknownAgain"}
    <3>1. End(t, "error")
      BY <2>1, <2>4
    <3> QED
      BY <1>4, <1>5, <3>1, Zenon
  <2> QED
    BY <2>2, <2>3, <2>4, Zenon
<1> QED
  BY <1>6, <1>7, <1>8, Zenon

\* The client stands still while the node takes a step.
LEMMA ClientStays ==
    ASSUME KnownInv, UNCHANGED clientState, NodeInv', Calm' => CalmNode' /\ CalmTasks'
    PROVE  KnownInv'
<1>1. cells' = cells /\ sequence' = sequence /\ lock' = lock /\ task' = task
  BY Zenon DEF clientState
<1>2. LockInv' /\ CellsInv'
  BY <1>1, Zenon DEF KnownInv, LockInv, CellsInv
<1>3. SignedInv'
  BY <1>1, Zenon DEF KnownInv, SignedInv
<1> QED
  BY <1>2, <1>3, Zenon DEF KnownInv, CalmInv

\* The transaction with the sequence of the chain gets into a block.
LEMMA CommitKeepsKnown ==
    ASSUME KnownInv, PaidInv, Commit
    PROVE  KnownInv'
<1>1. NodeInv /\ CalmInv /\ task \in [Submissions -> Tasks] /\ sequence \in Sequences
  BY Zenon DEF KnownInv, SignedInv
<1>2. PICK tx \in Txs, outcome \in {"committed", "failed"} :
          /\ status[tx] = "pending" /\ tx.seq = chainSeq
          /\ chainSeq' = chainSeq + 1
          /\ status' = [status EXCEPT ![tx] = outcome]
          /\ UNCHANGED <<clientState, spent>>
  BY Zenon DEF Commit
<1>3. spent' = spent /\ UNCHANGED <<cells, sequence>> /\ task' = task /\ UNCHANGED clientState
  BY <1>2, Zenon DEF clientState
<1>4. NodeInv'
  BY <1>1, <1>2, <1>3, NodeCommits, Zenon
<1>5. ASSUME Calm' PROVE CalmNode' /\ CalmTasks'
  <2>1. CalmNode /\ CalmTasks
    BY <1>1, <1>3, <1>5, Zenon DEF CalmInv, Calm
  <2>2. CalmNode'
    BY <1>1, <1>2, <1>3, <2>1, CalmNodeCommits, Zenon
  <2>3. \A x \in Txs : InMempoolCache(x) => InMempoolCache(x)'
    <3>1. status \in [Txs -> Statuses] /\ outcome \in Statuses
      BY <1>1 DEF NodeInv, Statuses
    <3>2. status'[tx] = outcome /\ \A x \in Txs : x # tx => status'[x] = status[x]
      BY <1>2, <3>1, StatusOf, Zenon
    <3> QED
      BY <3>2, Zenon DEF InMempoolCache
  <2>4. \A t \in Submissions : Signed(t)' = Signed(t) /\ Signed(t) \in Txs
    BY <1>1, <1>3, SignedIsTx, Zenon DEF Signed
  <2>5. ASSUME NEW t \in Submissions, task[t].at = "status" PROVE InMempoolCache(Signed(t))'
    <3>1. InMempoolCache(Signed(t))
      BY <2>1, <2>5, Zenon DEF CalmTasks
    <3>2. status'[Signed(t)] \in {"pending", "committed", "failed"}
      BY <2>3, <2>4, <3>1, Zenon DEF InMempoolCache
    <3> QED
      BY <2>4, <3>2, Zenon DEF InMempoolCache
  <2>6. CalmTasks'
    BY <1>3, <2>1, <2>5, Zenon DEF CalmTasks
  <2> QED
    BY <2>2, <2>6, Zenon
<1> QED
  BY <1>3, <1>4, <1>5, ClientStays, Zenon

\* The node drops a transaction: without a fault it has no reason to.
LEMMA ForgetKeepsKnown ==
    ASSUME KnownInv, Reject \/ RejectForSequence \/ Lose
    PROVE  KnownInv'
<1>1. NodeInv /\ CalmInv /\ sequence \in Sequences
  BY Zenon DEF KnownInv, SignedInv
<1>2. ASSUME NEW tx \in Txs, status[tx] = "pending",
             NEW how \in {"rejected", "wrongSequence", "evicted", "unknown"},
             status' = [status EXCEPT ![tx] = how],
             UNCHANGED <<clientState, chainSeq>>, Budget, ~Calm'
      PROVE  KnownInv'
  <2>1. NodeInv'
    BY <1>1, <1>2, NodeForgets, Zenon
  <2> QED
    BY <1>2, <2>1, ClientStays, Zenon
<1>3. ASSUME Spend("troubles", MaxTroubles) PROVE Budget /\ ~Calm'
  <2>1. "troubles" \in Bounds \ {"foreign"}
    BY DEF Bounds
  <2> QED
    BY <1>1, <1>3, <2>1, SpendIsBudget, Zenon
<1>4. CASE Reject \/ Lose
  BY <1>2, <1>3, <1>4, Zenon DEF Reject, Lose
<1>5. CASE RejectForSequence
  <2>1. PICK tx \in Txs :
            /\ status[tx] = "pending"
            /\ tx.seq < chainSeq \/ tx.seq > Expected
            /\ status' = [status EXCEPT ![tx] = "wrongSequence"]
            /\ UNCHANGED <<clientState, chainSeq, spent>>
    BY <1>5, Zenon DEF RejectForSequence
  <2>2. Budget /\ (Calm' <=> Calm)
    BY <1>1, <2>1, Zenon DEF Budget, Bounds, NodeInv, Calm
  <2>3. ASSUME Calm PROVE FALSE
    <3>1. CalmNode
      BY <1>1, <2>3, Zenon DEF CalmInv
    <3>2. cells.account = "full" /\ chainSeq <= tx.seq /\ tx.seq < sequence
      BY <2>1, <3>1, Zenon DEF CalmNode, Pending
    <3>3. Expected = sequence
      BY <1>1, <3>1, <3>2, CalmExpected, Zenon
    <3>4. tx.seq \in Nat /\ chainSeq \in Nat /\ sequence \in Nat
      <4>1. tx.seq \in Sequences
        BY DEF Txs
      <4> QED
        BY <1>1, <4>1, SequencesAreNumbers, Zenon DEF NodeInv
    <3>5. tx.seq < chainSeq \/ tx.seq > sequence
      BY <2>1, <3>3, Zenon
    <3> QED
      BY <3>2, <3>4, <3>5
  <2> QED
    BY <1>2, <2>1, <2>2, <2>3, Zenon
<1> QED
  BY <1>4, <1>5, Zenon

\* Another client uses the account.
LEMMA ForeignKeepsKnown ==
    ASSUME KnownInv, ForeignCommit
    PROVE  KnownInv'
<1>1. NodeInv /\ spent \in [Bounds -> Nat] /\ "foreign" \in Bounds
  BY DEF KnownInv, NodeInv, Bounds
<1>2. NodeInv'
  BY <1>1, NodeCommitsOther, Zenon
<1>3. ~Calm'
  BY <1>1, SpendKeeps, Zenon DEF ForeignCommit
<1>4. UNCHANGED clientState
  BY Zenon DEF ForeignCommit
<1> QED
  BY <1>2, <1>3, <1>4, ClientStays, Zenon

\* A client that has just been built, and an account nobody has used.
LEMMA KnownAtStart ==
    ASSUME Init
    PROVE  KnownInv
<1>1. LockInv /\ CellsInv
  <2>1. task = [t \in Submissions |->
                  [at |-> "idle", snapshot |-> Endpoints, idx |-> 1, seq |-> FirstSequence]]
        /\ lock = <<>> /\ cells = [chain |-> "empty", account |-> "empty"]
    BY Zenon DEF Init
  <2>2. \A t \in Submissions : task[t].at = "idle"
    BY <2>1
  <2>3. "idle" \notin Holding /\ "idle" \in BeforeAccount /\ "idle" # "getAccount"
    BY DEF Holding, BeforeAccount
  <2>4. lock \in Seq(Submissions) /\ \A i \in 1..Len(lock) : FALSE
    BY <2>1
  <2>5. LockInv
    BY <2>2, <2>3, <2>4, Zenon DEF LockInv
  <2>6. cells \in [{"chain", "account"} -> {"empty", "busy", "full"}]
    BY <2>1
  <2>7. CellsInv
    BY <2>2, <2>3, <2>6, Zenon DEF CellsInv
  <2> QED
    BY <2>5, <2>7, Zenon
<1>2. FirstSequence \in Sequences
  <2>1. FirstSequence \in Nat /\ Cardinality(Submissions) \in Nat /\ MaxForeign \in Nat
    BY TxAssumption, SequencesAreNumbers, Zenon
  <2> QED
    BY <2>1 DEF Sequences
<1>3. SignedInv
  <2>1. "idle" \in Places /\ "idle" \notin Holding
    BY DEF Places, Holding
  <2>2. Endpoints \in Seq(Range(Endpoints)) /\ 1 \in 1..Len(Endpoints)
    BY TxAssumption, SomeEndpoint, Zenon
  <2>3. [at |-> "idle", snapshot |-> Endpoints, idx |-> 1, seq |-> FirstSequence] \in Tasks
    BY <1>2, <2>1, <2>2, Zenon DEF Tasks
  <2>4. task \in [Submissions -> Tasks] /\ \A t \in Submissions : task[t].at = "idle"
    BY <2>3 DEF Init
  <2>5. sequence \in Sequences
    BY <1>2, Zenon DEF Init
  <2> QED
    BY <2>1, <2>4, <2>5, Zenon DEF SignedInv
<1>4. status = [tx \in Txs |-> "unknown"] /\ \A tx \in Txs : status[tx] = "unknown"
  BY Zenon DEF Init
<1>5. \A tx \in Txs : ~InMempoolCache(tx) /\ ~Pending(tx) /\ status[tx] \notin {"committed", "failed"}
  BY <1>4 DEF InMempoolCache, Pending
<1>6. NodeInv
  <2>1. PaidFor = {}
    BY <1>5, Zenon DEF PaidFor
  <2>2. Cardinality(PaidFor) = 0
    BY <2>1, FS_EmptySet, Zenon
  <2>3. spent \in [{"foreign", "timeouts", "troubles", "drops"} -> Nat] /\ spent.foreign = 0
    BY DEF Init
  <2>4. chainSeq \in Sequences /\ chainSeq = FirstSequence
    BY <1>2, Zenon DEF Init
  <2>5. "unknown" \in Statuses
    BY DEF Statuses
  <2>6. status \in [Txs -> Statuses]
    BY <1>4, <2>5, Zenon
  <2>7. spent.foreign <= MaxForeign /\ chainSeq = FirstSequence + Cardinality(PaidFor) + spent.foreign
    <3>1. FirstSequence \in Nat /\ MaxForeign \in Nat
      BY TxAssumption, Zenon
    <3> QED
      BY <2>2, <2>3, <2>4, <3>1
  <2> QED
    BY <1>5, <2>3, <2>4, <2>6, <2>7, Zenon DEF NodeInv
<1>7. CalmNode
  <2>1. cells.account # "full"
    BY DEF Init
  <2> QED
    BY <1>4, <1>5, <2>1, Zenon DEF CalmNode
<1>8. CalmTasks
  BY DEF Init, CalmTasks
<1> QED
  BY <1>1, <1>3, <1>6, <1>7, <1>8, Zenon DEF KnownInv, CalmInv

\* Every sequence is used in order: however the submissions of one client overlap, what is
\* signed has the sequence the node expects, as long as no other client, no failed call and
\* no dropped transaction interferes; and the state has its types whatever interferes.
THEOREM SequenceStaysKnown == Spec => []SequenceIsKnown
<1>1. Init => KnownInv
  BY KnownAtStart
<1>2. KnownInv /\ PaidInv /\ ListInv' /\ [Next]_vars => KnownInv'
  <2> SUFFICES ASSUME KnownInv, PaidInv, ListInv', [Next]_vars PROVE KnownInv'
    OBVIOUS
  <2>1. ASSUME NEW t \in Submissions, Step(t) PROVE KnownInv'
    <3>1. CASE Submit(t) \/ LoadChainState(t) \/ GotBlock(t) \/ LockAccount(t)
      BY <3>1, PrepareKeepsKnown, Zenon
    <3>2. CASE GotAccount(t)
      BY <3>2, GotAccountKeepsKnown, Zenon
    <3>3. CASE GotLock(t) \/ GotGas(t) \/ EstimateMismatch(t) \/ BroadcastMismatch(t)
               \/ BroadcastRefused(t)
      BY <3>3, SignKeepsKnown, Zenon
    <3>4. CASE Broadcasted(t)
      BY <3>4, BroadcastedKeepsKnown, Zenon
    <3>5. CASE Confirmed(t)
      BY <3>5, ConfirmedKeepsKnown, Zenon
    <3>6. CASE Rollback(t) \/ Retransmitted(t)
      BY <3>6, RetryKeepsKnown, Zenon
    <3> QED
      BY <2>1, <3>1, <3>2, <3>3, <3>4, <3>5, <3>6, Zenon DEF Step
  <2>2. ASSUME NEW t \in Submissions, Timeout(t) \/ Drop(t) PROVE KnownInv'
    BY <2>2, FaultKeepsKnown, Zenon
  <2>3. CASE UNCHANGED vars
    <3>1. UNCHANGED clientState /\ chainSeq' = chainSeq /\ status' = status /\ spent' = spent
      BY <2>3, Zenon DEF vars, nodeState
    <3>2. NodeInv'
      BY <3>1, Zenon DEF KnownInv, NodeInv, PaidFor, InMempoolCache
    <3>3. Calm' => CalmNode' /\ CalmTasks'
      <4>1. cells' = cells /\ sequence' = sequence /\ task' = task
        BY <3>1, Zenon DEF clientState
      <4>2. Calm' => Calm
        BY <3>1, Zenon DEF Calm
      <4>3. CalmNode => CalmNode'
        BY <3>1, <4>1, Zenon DEF CalmNode, Pending
      <4>4. CalmTasks => CalmTasks'
        BY <3>1, <4>1, Zenon DEF CalmTasks, InMempoolCache, Signed
      <4> QED
        BY <4>2, <4>3, <4>4, Zenon DEF KnownInv, CalmInv
    <3> QED
      BY <3>1, <3>2, <3>3, ClientStays, Zenon
  <2>4. CASE Commit
    BY <2>4, CommitKeepsKnown, Zenon
  <2>5. CASE Reject \/ RejectForSequence \/ Lose
    BY <2>5, ForgetKeepsKnown, Zenon
  <2>6. CASE ForeignCommit
    BY <2>6, ForeignKeepsKnown, Zenon
  <2> QED
    BY <2>1, <2>2, <2>3, <2>4, <2>5, <2>6, Zenon DEF Next
<1>3. KnownInv /\ ListInv => SequenceIsKnown
  <2> SUFFICES ASSUME KnownInv, ListInv PROVE SequenceIsKnown
    OBVIOUS
  <2>1. /\ LockInv /\ CellsInv /\ NodeInv /\ SignedInv /\ CalmInv
    BY Zenon DEF KnownInv
  <2>2. TypeOK
    BY <2>1, Zenon DEF TypeOK, LockInv, CellsInv, NodeInv, SignedInv, Tasks, ListInv, IsList
  <2>3. ASSUME Calm, NEW t \in Submissions, task[t].at \in {"estimate", "price", "broadcast"}
        PROVE  task[t].seq = Expected
    BY <2>1, <2>3, CalmSigned, Zenon DEF Holding
  <2> QED
    BY <2>2, <2>3, Zenon DEF SequenceIsKnown, Calm
<1> QED
  BY <1>1, <1>2, <1>3, OnlyLastSignedInNode, ListsStayLists, PTL DEF Spec
=============================================================================
