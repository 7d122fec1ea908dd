# Lumina in TLA+

A TLA+ model of the Celestia light node in this repository, with TLC
configurations that check it on small instances and proofs that TLAPS checks
for every instance. `PROJECT.json` maps every definition to the lines it models.

## The system

A light node follows the chain through its headers, and samples the data of
recent blocks to convince itself that it is available. Inside one process
(`node/src/node.rs`) these workers run as independent tasks:

| part | source (under `node/src`) | role |
| --- | --- | --- |
| Header store | `store.rs`, `store/*.rs`, `block_ranges.rs` | headers, and the ranges of stored, sampled and pruned heights |
| Syncer | `syncer.rs` | finds the network head, fetches missing headers, inserts them |
| Daser | `daser.rs` | samples the blocks of stored headers, newest first |
| Pruner | `pruner.rs` | removes headers and sampled blocks outside the windows |
| P2p | `p2p.rs`, `p2p/*` | libp2p swarm: header exchange, Bitswap, shrex, gossip |
| Subscriptions | `node/subscriptions.rs` | announces headers to the user in order |

Daser, Pruner and Syncer share the store and the blockstore. The Pruner sends
commands to the Daser (`WantToPrune`, `UpdateHighestPrunableHeight`,
`UpdateNumberOfPrunableBlocks`), and waits for the answer to the first. The
Syncer asks the P2p worker for ranges of headers, which a header session fetches
with concurrent requests of the header exchange client.

The other crates are `types` (headers, shares, proofs), `grpc` (transactions),
`rpc`, `client`, `proto`, `utils`, `cli` and the bindings `node-wasm` and
`node-uniffi`.

## Modules

| module | models |
| --- | --- |
| `HeaderStore` | what every user of a store relies on, as four sets: the abstract specification of the store; `Disposable`, the headers a Pruner may remove |
| `StoreTables` | the tables of the redb, IndexedDB and in-memory stores: transactions, opening with migration, closing, crashes, `wait_height` and `wait_new_head` |
| `BlockRanges` | the algorithms of `block_ranges.rs` on sequences of ranges |
| `Daser`, `Pruner` | the two workers, one action per stretch of code between two awaits |
| `SamplingAndPruning` | both workers over one store, with Syncer, network, clock and restarts as environment; the properties and the inductive invariant |
| `BroadcastingStore` | `init_broadcast`, `announce_insert` and the stream of announced headers |
| `Syncer` | the worker of `syncer.rs`, and what it uses of header-sub |
| `Syncing` | the Syncer with the network, and Daser and Pruner as they affect the store |
| `HeaderExClient` | `HeaderExClientHandler` and what servers answer |
| `HeaderSession` | `HeaderSession` |
| `HeaderExchange` | a session, callers of the head, and the client they share |
| `Peers` | `PeerTracker`, `SwarmManager` and `connection_control`, over the connections of libp2p |
| `Shrex` | shrex's `PoolTracker` and client, on the peers of `Peers`, and the stop of the P2p worker |
| `TxClient` | submitting transactions with `GrpcClient`: endpoints, account, broadcast, confirmation |
| `IntervalLemmas` | lemmas on intervals and sets of numbers that several proofs use |
| `SamplingAndPruningProofs`, `SyncingProofs`, `HeaderExchangeProofs`, `StoreTablesProofs`, `TxClientProofs` | the theorems on the module each is named after |
| `PeersProofs`, `NetworkProofs` | the theorems on `Peers` and `Shrex`: what the steps of the peer tracker preserve, and the rest |
| `MC...` | values for TLC; `MCStores` also puts `BlockRanges` beside `StoreTables` in one run |

How state and actions correspond to the code:

- Ranges are sets of heights. `BlockRanges` checks the range algorithms against
  sets, and its check of insertion constraints against `HeaderStore`'s.
- The block at height h has time h. Windows are lengths in block times. A
  timestamp exactly at a border therefore occurs, and blocks may be ahead of the
  clock by `ClockDrift`.
- A worker is a task: only at an `await` may another one run. Each access to the
  store, the network or a channel that a handler awaits is a step of its own
  (`dpc`, `ppc`, `spc` say which is next), so what was read before an await may be
  stale after it. A handler that does not await is one action.
- A store operation is one step: it runs under a lock or in a transaction.
- A sampling asks for a set of CIDs. Which shares those are is left out.
- In the header exchange, a request is a record that moves from the command
  channel to the queue of its peer kind, to a peer, and back. A queue is a set,
  since the peers are shuffled. Decoding a response is part of receiving it.
- A database is a record of tables that changes with a commit. A header is a height
  and the chain it belongs to, which is also its hash.
- libp2p is the set of open connections, the events it has not handed out yet and
  the peers it dials. Latencies are left out: which of several candidates has the
  lowest is a choice. A peer is forgotten by `gc` at any time after it left.
- A data hash is the height it belongs to, the hash of empty blocks, or a wrong one.
- Each attempt of a gRPC call at an endpoint is one step. The consensus node is
  external: a mempool that expects the next sequence, and blocks. It stands behind
  all endpoints, and what is in flight arrives before its caller acts on the answer.
- Operators whose comment says "mutation" are wrong variants of the definition
  that follows them. No specification uses them: they are put in its place to
  see that the properties notice.

`Syncing` stands on `SamplingAndPruning`: its Pruner removes any `Disposable`
header at any time, and that the real Pruner removes no others is
`OnlyDisposableHeadersPruned`.

## What TLC checks

| run | checks | shows |
| --- | --- | --- |
| `prune_as_sampled` | `SamplingKeepsHeader`, `OnlyDisposableHeadersPruned` | pruning inside the sampling window, with late Bitswap blocks: a header is not removed under a sampling, nor while it is needed as a neighbour |
| `faults` | `NoFatalError`, `NoLeakedBlocks` | the process restarts between any two steps, or all peers are lost with work under way and a pruned head is inserted again; no block stays in the blockstore unrecorded |
| `progress` | `TypeOK`, `ExpiredHeadersArePruned`, `QueueDrains` | Daser and Pruner do not wait for each other for ever |
| `syncing` | `BatchIsNotOrphaned`, `ContiguousStream`, `NothingIsSkipped`, `NoRefetch` | what is asked for, inserted and announced while peers lag and headers are pruned |
| `sync_progress` | `HeadIsSynced`, `WindowIsSynced` | the Syncer catches up and completes the window |
| `header_exchange` | `RangeIsPartitioned`, `ResultIsTheRange`, `LastTryIsArchival`, `HeadIsAgreed`, `SessionEnds`, `HeadCallersAreAnswered` | sessions and head requests with short, failed and reordered answers, lost peers and a stopping worker |
| `stores` | `ImplementsHeaderStore`, `TablesAgree`, `NeighboursVerify`, `HeadNeverLags`, `QuietWhenClosed`, `WaitersAreWoken`; `RangesMatchHeights` and `QueriesAreExact` of `BlockRanges` | every backend, from every older schema, with two writers, dropped callers and a crash, implements `HeaderStore`; every operation on ranges against sets of heights |
| `network` | `CountersAgree`, `PeersAreReported`, `KeepAliveAgrees`, `GapsAreFilled`, `NeverIsolated`, `StopEnds`; `PoolsAgree`, `HonestPeersStay`, `RequestsEnd` | connections and protection of peers; announcements, pools, requests and retries of shrex; stopping |
| `transactions` | `EndpointsAreKept`, `CommittedAtMostOnce`, `SequenceIsKnown`, `SubmissionsEnd` | two submissions share account, endpoints and sequence while calls time out, the node rejects, evicts and forgets, another client uses the account and a caller goes away |

One invariant of each composed module includes the types of its variables;
`NothingIsSkipped` and what `syncing` shows of the stream are about processes whose
trusted peers did not report a head below what the node has (`lagged`, a history
variable, remembers it); `QueriesAreExact` is the conjunction of six invariants, one for each kind of query.

Three runs end in a counterexample, each against a sentence of the source:

| run | the source says | the code does |
| --- | --- | --- |
| `late_block` | recording CIDs first keeps blocks from leaking (`daser.rs:487`) | a block that arrives for a timed-out request between the Pruner's two removals is stored and never recorded again |
| `missed_head` | `wait_new_head` "returns when new head is available" (`store.rs:73`) | a head inserted between `update_queue`'s read and the first poll becomes the baseline, and the Daser learns of it with the next head |
| `outside_window` | "make sure we're inside the sampling window" (`syncer.rs:534`) | the check passes when the header it reads was pruned; the batch fetched is rejected by the store, and asked for again |

Seen while modelling, and not stated as a property of a run:

- after a restart a trusted peer may report a head below the one in the store
  (head 2 stored, restart, head 1 reported). `init_broadcast` then sets
  `last_sent_height` below a stored height that nothing announces again, and the
  stream of headers stands still there (`subscriptions.rs:54`, `node.rs:548`); the
  assertion "range cannot cross last_sent_height" (`subscriptions.rs:120`) may fail
  for the same reason. Without such a peer both are proved not to happen;
- reconnecting with an unchanged head leaves an entry in `pending` for ever
  (`subscriptions.rs:94`); after a restart the stream of headers waits for the
  next head before it goes on;
- a batch that the store rejects is reported both as failed and as finished
  (`syncer.rs:623`);
- `tailn` is not exact at `u64::MAX`, where its sum saturates;
- abandoned requests stay in `pending_reqs`, and go on asking for archival peers,
  until a peer of their kind is connected (`header_ex/client.rs:232`);
- IndexedDB's cached head is not refreshed by `remove_height`, and its
  `get_sampling_metadata` reads in two transactions;
- a caller dropped between the commit of an insertion and its notification leaves
  those who wait asleep until the next one (`WaitersAreWoken` excludes it);
- the pool tracker misses a first header inserted between `get_head` and
  `wait_new_head` (`pool_tracker.rs:140`), as in `missed_head`;
- `gc` keeps peers that never connected (`peer_tracker.rs:401`);
- `confirm_tx` treats an eviction as final because there is one endpoint
  (`client.rs:955`), which the fallback between endpoints has made untrue.

### Bounds

- Daser and Pruner: two or three heights. Two let one height be sampled while the
  other is asked about; three give a range an inner height, which `edges` treats
  differently. Concurrency 1 (+1 for header-sub) reaches the limit, a batch of
  2 fills up, a channel of capacity 1 blocks. In `faults` a sampling chooses one of
  two CIDs, so that the next sampling of a height may choose another. Time runs
  until the lowest height has left both windows while the highest is still inside,
  so that both kinds exist side by side.
- Restarts, lost connections and reinsertions happen at most once, and a behaviour
  of `faults` has a restart or the other two (`FaultsApart`): a restart leaves
  nothing of the workers, only stores that the other behaviours reach as well.
- Syncing: up to six heights, batches of 2, so that several batches, a gap and
  new heads occur together. `SlowSyncThreshold` is 0: below the pruning window
  the Syncer waits while any stored header is unsampled.
- Header exchange: five heights in batches of at most 2, two requests at a time,
  so that one batch is left; three tries as in the code; three peers, of which
  one has every header, one the upper ones and one none; one failure or lost
  connection. A workload is either a session or two callers of the head: the two
  share the peers and the worker, and no behaviour has both at once.
- Stores: three heights, two chains and one crash; three calls of two writers, or
  two beside a waiter; old databases hold two headers. `BlockRanges`: all sequences
  of at most three ranges over six heights, with the highest playing `u64::MAX`.
- Network: a bootnode and another peer, both full nodes, the second with up to two
  connections and archival; one is protected for each reason; one connection is
  lost. Behaviours with shrex start with both connected: four heights of which
  three are empty, a window of 2, so that heights are evicted; one peer is honest,
  the other announces anything; one request with up to two tries. What the peers
  do beside shrex is bounded to what shrex causes.
- Transactions: two submissions with and without estimated gas, two endpoints, two
  network errors, one transaction that the node drops, one of another client and
  one caller that goes away.

`CHECK_DEADLOCK FALSE` is set in the runs whose systems end: the chain stops at
`MaxHeight`, the worker is stopped, the calls are made.

### Fairness

- A task that can run is polled (weak fairness of each worker's steps).
- `select!` picks among ready branches at random, so a branch that is ready again
  and again is taken (strong fairness of `OnHeaderSub`, `OnFetchResult`, and the
  end of a sampling, which has a timeout).
- `UpdateCachedData` is throttled for a second at most (strong fairness).
- Requests to a connected network are not answered with an error for ever.
- Header exchange: libp2p answers or fails every request; a search for peers that
  is repeated finds one (strong fairness of `PeerFound`); failures are bounded.
- Stores: a future that was polled is polled again, and the blocking pool runs its
  tasks. No caller is forced to call.
- Network: the swarm is polled, the health check and the client's scheduler are on
  intervals, tasks of the pool tracker end with a header or a timeout, requests
  with an answer or an error, cooldowns pass. No dial is forced to succeed:
  `NeverIsolated` says that the node goes on dialling.
- Transactions: attempts are answered or time out, and the chain includes or rejects
  what the node holds.
- Nothing forces a caller to leave, a peer to disconnect or a worker to stop.

`sync_progress` has no disconnections and equal windows, because without these
the properties depend on more blocks being made: after a short loss of all peers
the Syncer goes on only with the next header-sub message, and so does a slow sync
that was paused. In the model the chain ends.

## What is proved

The theorems hold for every value of the constants that the named assumptions of
the modules allow: any number of heights, peers, submissions or callers, any
window, batch size, limit and number of tries, subject to what the code fixes
(a batch size is positive, a request has at least two tries, bootnodes are peers).
TLC evaluates the assumptions in the runs. Each safety property of a run has a
theorem, but for those listed at the end of this section; `PROJECT.json` pairs them.

Hardly any of the properties is inductive. For each component there is an inductive
invariant that says what the code relies on between two steps; it was first checked
as an invariant by TLC. A proof has one case per action.

**Sampling and pruning** (`TypeCorrect`, `InductiveInvariant`,
`SamplingKeepsItsHeader`, `WorkersSurvive`, `BlocksDoNotLeak`,
`PrunedWasDisposable`). That a header under sampling is not removed depends on what
the Pruner has in its batch, on what the Daser promised, and on answers still in the
channel. `IInv` says these things:

- `DaserInv`: queue, ongoing samplings and the height just popped are disjoint
  from what is sampled and from `will_be_pruned`, and ongoing ones are stored;
- `PrunerInv`: the snapshots of a round are still true of the store, and the batch
  is stored and consists of sampled or promised heights;
- `ChannelInv`: at most one `WantToPrune` is under way, for the height the Pruner
  is waiting on, and a positive answer is backed by a promise.

So the heights the Pruner removes and the heights the Daser samples are disjoint.
`BlockInv` adds that every share a live sampling awaits is of a recorded CID, and
that no block comes back between the Pruner's two removals. It needs Bitswap queries
to be cancelled with their requests (`~LazyCancel`), which is what `late_block` shows
them not to be. `DisposableInv` adds that the Pruner's cached borders are outside the
windows and that what it is about to remove is disposable already.

**Syncing** (`SyncInvariant`, `BatchIsNew`, `BatchKeepsNeighbour`,
`StreamIsContiguous`, `StreamSkipsNothing`, `RangeNeverCrosses`). `SyncInv`: what the
Syncer read of the range tables is still true when it uses it, because the Pruner
only moves heights from one table to the other. `StreamInv`: the announced heights
are contiguous up to `last_sent_height`. `FreshInv`, while no trusted peer lagged:
header-sub brings headers above all that the node has or has asked for (`KnownInv`),
so that what is above `last_sent_height` is in pending ranges that do not overlap
(`PendingInv`). The loop of `announce_insert` over `pending` is a recursive function;
its rounds are as many as the pending ranges, and an induction over the rounds,
bounded by that number, shows that they preserve both.

**Header exchange** (`ExchangeInvariant`, `SessionPartitionsRange`,
`SessionReturnsRange`, `LastTryGoesToArchival`, `CallersGetTheAgreedHead`).
`RequestsInv`: where a request is, which tries it has left and which kind of peer it
goes to fit together; the last try is archival, which takes two tries at least.
`SessionInv`: the spans received, the requests under way and `to_fetch` partition the
range. The result is right because sorting disjoint spans that tile an interval puts
each header at its own place: the position of a header is the number of headers below.

**Stores** (`StoreInvariant`, `TablesAlwaysAgree`, `NeighboursAlwaysVerify`,
`HeadDoesNotLag`, `NothingWritesWhenClosed`, `StoresImplementHeaderStore`). `StoreInv`:
at any time, also between two transactions of an opening, there is a database that
some schema version describes; each transaction takes such a database to another.
`HeadInv`: the cached head is behind a header only while the call that inserted it has
not returned. The refinement maps the tables to the four sets of `HeaderStore`; each
step is one of its steps or changes none of them.

**Transactions** (`OnlyLastSignedInNode`, `PaidAtMostOnce`, `NoEndpointIsLost`,
`SequenceStaysKnown`).
`PaidInv`: of what was signed for a submission only the last transaction can be in the
node, since the client signs again only once the node has refused or dropped the one
before. `ListInv`: the shared list and each call's snapshot are permutations of the
endpoints, so overwriting one with another loses none. `KnownInv`: a task that holds
the mutex is the head of `lock` and signs with the account's sequence; the chain's
sequence is the first one plus the submissions paid for and what other clients used,
so that there always is a sequence nothing pending has; and without faults or other
clients (`CalmInv`) the pending transactions have the sequences from the chain's to
the account's, each once. So the sequence the node expects is the account's.

**Network** (`NetworkInvariant`, `ProtectionIsCounted`, `ReportsAreTrue`,
`ProtectedAreKeptAlive`, `PoolsStayInStep`, `HonestAreNotBlocked`). `TrackerInv`: the
tracker agrees with libp2p's connections up to the events that have not been handed
out, the counters are the cardinalities they stand for, and handlers are told what
their peers' protection says. `PoolsInv`: pools, their tasks and `validated_pools`
agree, and requests under way are with peers. `HonestInv`: while headers come in time,
a peer that announces each block once and truly is neither blocked nor about to be.
The three are proved together: whom the swarm blocks comes from the events of the
pools, and whom a request asks comes from the tracker.

### Only model-checked

- Liveness: `ExpiredHeadersArePruned`, `QueueDrains`, `HeadIsSynced`,
  `WindowIsSynced`, `SessionEnds`, `HeadCallersAreAnswered`, `WaitersAreWoken`,
  `GapsAreFilled`, `NeverIsolated`, `StopEnds`, `RequestsEnd`, `SubmissionsEnd`.
  Fairness and ENABLED are outside what the proof system handles.
- `RangesMatchHeights` and `QueriesAreExact`: what the recursive operators of
  `BlockRanges` compute for every input would need an induction over sequences, for
  which the installed provers cannot instantiate the library's theorems.
- The counterexamples of `late_block`, `missed_head` and `outside_window`.

## What is not modelled

- `types` and the cryptography in it: headers are heights (in `StoreTables` also
  the chain they are on), and verification succeeds for headers of one chain.
- Wire formats (the codecs of header exchange and shrex, and header exchange by
  hash), and the verification of what shrex and Bitswap return, which is a yes or no.
- Kademlia's routing table and queries, of which only the peers found matter here.
- Fraud proofs, which stop the node.
- A consensus node behind each endpoint with a mempool of its own.
- The gRPC wrappers without state, `rpc`, `client`, `cli`, `proto`, `utils`, the
  bindings: stubs, forwarding, generated code, platform wrappers.
