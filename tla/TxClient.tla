------------------------------ MODULE TxClient ------------------------------
(***************************************************************************)
(* Submitting transactions with GrpcClient (grpc/src/client.rs): tasks of  *)
(* one client share the chain state, the account with its sequence, and    *)
(* the list of endpoints, which a call reorders when it had to fall back   *)
(* (grpc/grpc-macros/src/lib.rs).  A transaction is the body of a          *)
(* submission signed with a sequence.  Each attempt at an endpoint is one  *)
(* step.  The consensus node behind the endpoints is external.             *)
(***************************************************************************)
EXTENDS Integers, Sequences, FiniteSets, FiniteSetsExt

CONSTANTS
    Submissions,    \* the calls of submit_message, submit_blobs, broadcast_*
    Body,           \* Body[t]: the transaction body of submission t
    Gas,            \* Gas[t]: "estimate" (no gas limit), "price" (limit only) or "fixed"
    Endpoints,      \* the endpoints, in the order they were configured
    FirstSequence,  \* the account's sequence on chain at the start
    MaxForeign,     \* bound on transactions of the account sent by other clients
    MaxTimeouts,    \* bound on network errors
    MaxTroubles,    \* bound on rejections, evictions and losses in the node
    MaxDrops        \* bound on callers that drop their future

ASSUME TxAssumption ==
    /\ Endpoints \in Seq(Range(Endpoints)) /\ Endpoints # <<>>
    /\ DOMAIN Body = Submissions
    /\ \A t, u \in Submissions : Body[t] = Body[u] => t = u
    /\ FirstSequence \in Nat /\ MaxForeign \in Nat
    /\ IsFiniteSet(Submissions)
    /\ \A t \in Submissions : Gas[t] \in {"estimate", "price", "fixed"}

VARIABLES
    cells,          \* the OnceCells chain_state and account.base
    sequence,       \* account.base.sequence
    lock,           \* the mutex of account.base: its holder, then those who wait
    transports,     \* the shared list of endpoints
    task,           \* the submissions: place, call under way, signed sequence
    chainSeq,       \* external: the account's sequence on chain
    status,         \* external: what the node knows of a transaction
    spent           \* how much of each bound is used

clientState == <<cells, sequence, lock, transports, task>>
nodeState == <<chainSeq, status>>
vars == <<clientState, nodeState, spent>>

Sequences == FirstSequence..(FirstSequence + Cardinality(Submissions) + MaxForeign)
Bodies == Range(Body)
Txs == [body : Bodies, seq : Sequences]
Statuses == {"unknown", "pending", "evicted", "rejected", "wrongSequence", "committed", "failed"}

Calls == {"getBlock", "getAccount", "estimate", "price", "broadcast", "status",
          "evictedAgain", "unknownAgain"}
Results == {"ok", "executionFailed", "rejected", "evicted", "notFound", "error", "dropped"}
Places == {"idle", "chain", "account", "lock", "rollback"} \cup Calls \cup Results

TypeOK ==
    /\ cells \in [{"chain", "account"} -> {"empty", "busy", "full"}]
    /\ sequence \in Sequences
    /\ lock \in Seq(Submissions)
    /\ transports \in Seq(Range(Endpoints))
    /\ task \in [Submissions -> [at : Places, snapshot : Seq(Range(Endpoints)),
                                 idx : 1..Len(Endpoints), seq : Sequences]]
    /\ chainSeq \in Sequences
    /\ status \in [Txs -> Statuses]

Init ==
    /\ cells = [chain |-> "empty", account |-> "empty"]
    /\ sequence = FirstSequence
    /\ lock = <<>>
    /\ transports = Endpoints
    /\ task = [t \in Submissions |->
                  [at |-> "idle", snapshot |-> Endpoints, idx |-> 1, seq |-> FirstSequence]]
    /\ chainSeq = FirstSequence
    /\ status = [tx \in Txs |-> "unknown"]
    /\ spent = [foreign |-> 0, timeouts |-> 0, troubles |-> 0, drops |-> 0]

Spend(what, max) == spent[what] < max /\ spent' = [spent EXCEPT ![what] = @ + 1]

-----------------------------------------------------------------------------
(* The consensus node, as far as the client can tell                       *)

Signed(t) == [body |-> Body[t], seq |-> task[t].seq]

\* The sequence the node wants next: after those of the transactions it holds.
Expected ==
    Min({s \in Sequences : s >= chainSeq /\ \A tx \in Txs : tx.seq = s => status[tx] # "pending"})

InMempoolCache(tx) == status[tx] \in {"pending", "committed", "failed"}
Acceptable(tx) == ~InMempoolCache(tx) /\ tx.seq = Expected

\* What a broadcast does to the node when it gets there.
Received(tx) ==
    status' = IF Acceptable(tx) THEN [status EXCEPT ![tx] = "pending"] ELSE status

\* The transaction gets into a block; it may fail, its sequence is used.
\* Those signed with the same sequence can no longer be included.
Commit ==
    \E tx \in Txs, outcome \in {"committed", "failed"} :
        /\ status[tx] = "pending" /\ tx.seq = chainSeq
        /\ chainSeq' = chainSeq + 1
        /\ status' = [status EXCEPT ![tx] = outcome]
        /\ UNCHANGED <<clientState, spent>>

\* A proposer drops the transaction.
Reject ==
    \E tx \in Txs :
        /\ status[tx] = "pending" /\ tx.seq = chainSeq
        /\ Spend("troubles", MaxTroubles)
        /\ status' = [status EXCEPT ![tx] = "rejected"]
        /\ UNCHANGED <<clientState, chainSeq>>

\* ... and those that follow it, or whose sequence was used.
RejectForSequence ==
    \E tx \in Txs :
        /\ status[tx] = "pending"
        /\ tx.seq < chainSeq \/ tx.seq > Expected
        /\ status' = [status EXCEPT ![tx] = "wrongSequence"]
        /\ UNCHANGED <<clientState, chainSeq, spent>>

\* The transaction is evicted from the mempool, or the node lost it.
Lose ==
    \E tx \in Txs, how \in {"evicted", "unknown"} :
        /\ status[tx] = "pending"
        /\ Spend("troubles", MaxTroubles)
        /\ status' = [status EXCEPT ![tx] = how]
        /\ UNCHANGED <<clientState, chainSeq>>

\* Another client of the same account has a transaction committed.
ForeignCommit ==
    /\ Spend("foreign", MaxForeign)
    /\ chainSeq' = chainSeq + 1
    /\ UNCHANGED <<clientState, status>>

-----------------------------------------------------------------------------
(* A call of a grpc method: every endpoint of the snapshot, in order       *)

\* transports.load() when the call is first polled.
CallTo(t, rpc) == [task[t] EXCEPT !.at = rpc, !.snapshot = transports', !.idx = 1]
Go(t, place) == task' = [task EXCEPT ![t].at = place]
Start(t, rpc) == task' = [task EXCEPT ![t] = CallTo(t, rpc)]

\* Mutation: the endpoint that answered is copied to the front.
AnsweredCopies(t) ==
    transports' = IF task[t].idx = 1 THEN transports
                  ELSE [task[t].snapshot EXCEPT ![1] = task[t].snapshot[task[t].idx]]

\* An endpoint answered; it comes first from now on.  The list stored is the
\* caller's snapshot, whatever was stored meanwhile.
Answered(t) ==
    LET snapshot == task[t].snapshot
        i == task[t].idx
    IN  transports' = IF i = 1 THEN transports
                      ELSE [snapshot EXCEPT ![1] = snapshot[i], ![i] = snapshot[1]]

LastEndpoint(t) == task[t].idx = Len(task[t].snapshot)
NextEndpoint(t) == ~LastEndpoint(t) /\ task' = [task EXCEPT ![t].idx = @ + 1]

-----------------------------------------------------------------------------
(* How a task ends                                                         *)

\* The guards of a task are dropped with it: an initialization under way is left
\* to the next caller, the mutex goes to the first who waits.
CellsWithout(t) ==
    [c \in DOMAIN cells |-> IF task[t].at = [chain |-> "getBlock", account |-> "getAccount"][c]
                            THEN "empty" ELSE cells[c]]

\* Mutation: the mutex stays locked.
LockKept(t) == lock

LockWithout(t) ==
    IF \E i \in 1..Len(lock) : lock[i] = t
    THEN LET i == CHOOSE i \in 1..Len(lock) : lock[i] = t
         IN  [j \in 1..(Len(lock) - 1) |-> IF j < i THEN lock[j] ELSE lock[j + 1]]
    ELSE lock

End(t, result) ==
    /\ Go(t, result)
    /\ cells' = CellsWithout(t)
    /\ lock' = LockWithout(t)

\* A network error: the next endpoint is tried, and the error is returned when
\* there is none.  A broadcast may have got through all the same.
Timeout(t) ==
    /\ task[t].at \in Calls
    /\ Spend("timeouts", MaxTimeouts)
    /\ \/ task[t].at \in {"broadcast", "evictedAgain", "unknownAgain"} /\ Received(Signed(t))
       \/ UNCHANGED status
    /\ \/ NextEndpoint(t) /\ UNCHANGED <<cells, lock>>
       \/ /\ LastEndpoint(t)
          /\ End(t, CASE task[t].at = "evictedAgain" -> "evicted"
                      [] task[t].at = "unknownAgain" -> "notFound"
                      [] OTHER -> "error")
    /\ UNCHANGED <<sequence, transports, chainSeq>>

\* The caller drops the future while it waits.
Drop(t) ==
    /\ task[t].at \notin {"idle"} \cup Results
    /\ Spend("drops", MaxDrops)
    /\ End(t, "dropped")
    /\ \/ task[t].at \in {"broadcast", "evictedAgain", "unknownAgain"} /\ Received(Signed(t))
       \/ UNCHANGED status
    /\ UNCHANGED <<sequence, transports, chainSeq>>

-----------------------------------------------------------------------------
(* load_chain_state and lock_account                                       *)

Submit(t) ==
    /\ task[t].at = "idle"
    /\ Go(t, "chain")
    /\ UNCHANGED <<cells, sequence, lock, transports, nodeState, spent>>

\* get_or_try_init of a cell: one caller initializes it, the others wait.
Initialize(t, cell, rpc) ==
    /\ task[t].at = cell
    /\ cells[cell] = "empty"
    /\ cells' = [cells EXCEPT ![cell] = "busy"]
    /\ UNCHANGED <<sequence, lock, transports, nodeState, spent>>
    /\ Start(t, rpc)

LoadChainState(t) ==
    \/ Initialize(t, "chain", "getBlock")
    \/ /\ task[t].at = "chain" /\ cells.chain = "full"
       /\ \/ Go(t, "account") /\ UNCHANGED <<cells, lock>>
          \/ End(t, "error")       \* a blob is not valid, or there is no signer
       /\ UNCHANGED <<sequence, transports, nodeState, spent>>

GotBlock(t) ==
    /\ task[t].at = "getBlock"
    /\ Answered(t)
    /\ \/ /\ Go(t, "account")
          /\ cells' = [cells EXCEPT !.chain = "full"]
          /\ UNCHANGED lock
       \/ End(t, "error")       \* UnsupportedAppVersion
    /\ UNCHANGED <<sequence, nodeState, spent>>

\* Tasks get the mutex in the order they ask for it.
LockAccount(t) ==
    \/ Initialize(t, "account", "getAccount")
    \/ /\ task[t].at = "account" /\ cells.account = "full"
       /\ Go(t, "lock")
       /\ lock' = Append(lock, t)
       /\ UNCHANGED <<cells, sequence, transports, nodeState, spent>>

\* The account holds the sequence on chain, not the one the mempool leads to.
GotAccount(t) ==
    /\ task[t].at = "getAccount"
    /\ Answered(t)
    /\ cells' = [cells EXCEPT !.account = "full"]
    /\ sequence' = chainSeq
    /\ Go(t, "lock")
    /\ lock' = Append(lock, t)
    /\ UNCHANGED <<nodeState, spent>>

-----------------------------------------------------------------------------
(* sign_and_broadcast_tx, sign_and_broadcast_blobs                         *)

\* The top of the loop with the sequence seq: the gas is estimated for a
\* transaction signed with it, or the transaction is signed and broadcast.
FirstCall(t) == IF Gas[t] = "fixed" THEN "broadcast" ELSE Gas[t]
LoopWith(t, seq) == task' = [task EXCEPT ![t] = [CallTo(t, FirstCall(t)) EXCEPT !.seq = seq]]

GotLock(t) ==
    /\ task[t].at = "lock"
    /\ lock # <<>> /\ Head(lock) = t
    /\ UNCHANGED <<cells, sequence, lock, transports, nodeState, spent>>
    /\ LoopWith(t, sequence)

\* calculate_transaction_gas_params is done, or the node cannot estimate.
GotGas(t) ==
    /\ task[t].at = "price" \/ (task[t].at = "estimate" /\ task[t].seq = Expected)
    /\ Answered(t)
    /\ \/ Start(t, "broadcast") /\ UNCHANGED <<cells, lock>>
       \/ End(t, "error")
    /\ UNCHANGED <<sequence, nodeState, spent>>

\* extract_sequence_on_mismatch: the error names the expected sequence, the
\* transaction is signed again with it.
Resign(t) == sequence' = Expected /\ LoopWith(t, Expected) /\ UNCHANGED <<cells, lock>>

\* The estimation reports a sequence mismatch.  With status code Unknown, which
\* counts as a network error, the other endpoints are asked first.
EstimateMismatch(t) ==
    /\ task[t].at = "estimate" /\ task[t].seq # Expected
    /\ UNCHANGED <<transports, nodeState, spent>>
    /\ \/ NextEndpoint(t) /\ UNCHANGED <<cells, lock, sequence>>
       \/ Resign(t)

\* Mutation: only a transaction the node did not know yet counts.
InMempoolNever(tx) == FALSE

\* ErrorCode::TxInMempoolCache
InMempool(tx) == InMempoolCache(tx)

\* Mutation: the sequence of a transaction the node has accepted is used again.
AfterBroadcastSame == sequence

AfterBroadcast == sequence + 1

\* broadcast_tx_with_account: accepted, or known to the node already.
Broadcasted(t) ==
    /\ task[t].at = "broadcast"
    /\ Acceptable(Signed(t)) \/ InMempool(Signed(t))
    /\ Received(Signed(t))
    /\ Answered(t)
    /\ sequence' = AfterBroadcast
    /\ lock' = LockWithout(t)
    /\ Start(t, "status")
    /\ UNCHANGED <<cells, chainSeq, spent>>

BroadcastMismatch(t) ==
    /\ task[t].at = "broadcast"
    /\ ~InMempool(Signed(t)) /\ task[t].seq # Expected
    /\ Answered(t)
    /\ Resign(t)
    /\ UNCHANGED <<nodeState, spent>>

\* Any other code: insufficient fee, ...
BroadcastRefused(t) ==
    /\ task[t].at = "broadcast" /\ Acceptable(Signed(t))
    /\ Answered(t)
    /\ End(t, "error")
    /\ UNCHANGED <<sequence, nodeState, spent>>

-----------------------------------------------------------------------------
(* confirm_tx                                                              *)

Confirmed(t) ==
    /\ task[t].at = "status"
    /\ Answered(t)
    /\ UNCHANGED <<sequence, nodeState, spent>>
    /\ CASE status[Signed(t)] = "pending" -> Start(t, "status") /\ UNCHANGED <<cells, lock>>
         [] status[Signed(t)] = "committed" -> End(t, "ok")
         [] status[Signed(t)] = "failed" -> End(t, "executionFailed")
         [] status[Signed(t)] = "wrongSequence" -> End(t, "rejected")
         [] status[Signed(t)] = "rejected" ->
               Go(t, "rollback") /\ lock' = Append(lock, t) /\ UNCHANGED cells
         [] status[Signed(t)] = "evicted" -> Start(t, "evictedAgain") /\ UNCHANGED <<cells, lock>>
         [] OTHER -> Start(t, "unknownAgain") /\ UNCHANGED <<cells, lock>>

\* The sequence of a rejected transaction was not used: the next one gets it.
RolledBack(t) == task[t].seq

Rollback(t) ==
    /\ task[t].at = "rollback"
    /\ lock # <<>> /\ Head(lock) = t
    /\ sequence' = RolledBack(t)
    /\ End(t, "rejected")
    /\ UNCHANGED <<transports, nodeState, spent>>

\* The same bytes are broadcast again.  That they are in the mempool already
\* is an error here.
Retransmitted(t) ==
    /\ task[t].at \in {"evictedAgain", "unknownAgain"}
    /\ Received(Signed(t))
    /\ Answered(t)
    /\ \/ Acceptable(Signed(t)) /\ Start(t, "status") /\ UNCHANGED <<cells, lock>>
       \/ /\ ~Acceptable(Signed(t))
          /\ End(t, IF task[t].at = "evictedAgain" THEN "evicted" ELSE "notFound")
    /\ UNCHANGED <<sequence, chainSeq, spent>>

-----------------------------------------------------------------------------

Step(t) ==
    \/ Submit(t) \/ LoadChainState(t) \/ GotBlock(t) \/ LockAccount(t) \/ GotAccount(t)
    \/ GotLock(t) \/ GotGas(t) \/ EstimateMismatch(t)
    \/ Broadcasted(t) \/ BroadcastMismatch(t) \/ BroadcastRefused(t)
    \/ Confirmed(t) \/ Rollback(t) \/ Retransmitted(t)

Next ==
    \/ \E t \in Submissions : Step(t) \/ Timeout(t) \/ Drop(t)
    \/ Commit \/ Reject \/ RejectForSequence \/ Lose \/ ForeignCommit

Spec == Init /\ [][Next]_vars

(***************************************************************************)
(* A task that is not dropped is polled, every attempt is answered or      *)
(* times out, and the chain includes or rejects what the node holds.       *)
(***************************************************************************)
FairSpec ==
    /\ Spec
    /\ \A t \in Submissions : WF_vars(Step(t))
    /\ WF_vars(Commit)
    /\ WF_vars(RejectForSequence)

-----------------------------------------------------------------------------

\* Neither the shared list of endpoints nor a snapshot of it loses or repeats an
\* endpoint, although calls store their reordered snapshots over each other's: a
\* call that returns a network error has tried every endpoint.
EndpointsAreKept ==
    \A list \in {transports} \cup {task[t].snapshot : t \in Submissions} :
        Len(list) = Len(Endpoints) /\ Range(list) = Range(Endpoints)

\* What makes that so: before its first broadcast nothing of a submission is in the
\* node, and later at most the transaction it has signed last.
BeforeBroadcast ==
    {"idle", "chain", "getBlock", "account", "getAccount", "lock", "estimate", "price"}
OnlyLastSigned ==
    \A t \in Submissions : \A tx \in Txs :
        tx.body = Body[t] /\ InMempoolCache(tx)
            => tx = Signed(t) /\ task[t].at \notin BeforeBroadcast

\* A submission is paid for at most once: of the transactions signed for it, with
\* one sequence after the other, at most one gets into a block, although a
\* broadcast that timed out may have got through.
CommittedAtMostOnce ==
    \A tx1, tx2 \in Txs :
        /\ tx1.body = tx2.body
        /\ {status[tx1], status[tx2]} \subseteq {"committed", "failed"}
        => tx1 = tx2

\* Submissions of one client, however they overlap, never run into a sequence
\* mismatch of their own making: as long as no other client uses the account, no
\* call fails and the node drops nothing, the sequence a transaction is signed
\* with is the one the node expects.
SequenceIsKnown ==
    /\ TypeOK
    /\ (\A bound \in DOMAIN spent : spent[bound] = 0) =>
          \A t \in Submissions :
              task[t].at \in {"estimate", "price", "broadcast"} => task[t].seq = Expected

\* Every submission ends, although others that wait for the same account or the
\* same initialization fail or are dropped, and sequences are used by others.
SubmissionsEnd == \A t \in Submissions : task[t].at # "idle" ~> task[t].at \in Results
====
