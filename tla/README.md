# A verification of BBC

BBC is a small blockchain: full nodes that validate, store and relay blocks and
transactions, miners that search for proofs of work, wallets that sign, and a
control endpoint for each process. This directory holds TLA+ models of its
components, the TLC configurations that check them on small instances, and
proofs that TLAPS checks for every value of the constants. Every definition is
translated from the C++ source (`src/src`, `src/include`); `PROJECT.json` names
the lines each one stands for.

To check one run: `tlc -config MCBlockchain.cfg MCBlockchain`. To check a proof:
`tlapm BlockchainProofs.tla`.

## The system and its parts

| Part | Source (under `src/src`) | State | Concurrency and failures | Modules |
| --- | --- | --- | --- | --- |
| account state | `chain/state.cpp` | balances and nonces (64 bits) | pure function of a block | `ChainState` |
| block tree and fork choice | `chain/blockchain.cpp` | stored blocks, tree, active chain | called under `state_mutex_`; blocks come in any order | `BlockTree`, `Blockchain` |
| block locator | `chain/blockchain.cpp` | none | pure function | `BlockLocator` |
| mempool | `mempool/mempool.cpp` | pending transactions, their order | called under `state_mutex_` | `Mempool` |
| chain store | `storage/chain_store.cpp` | `blocks.dat`, `chain.db`, memory | crashes between steps, torn writes, failed truncations | `ChainStore`, `DurableLog` |
| data directory: mempool store, offline commands | `storage/mempool_store.cpp`, `app/chain_commands.cpp`, `app/mempool_commands.cpp`, `app/block_commands.cpp` | both stores, block files | a node and commands one after the other, killed anywhere, failing writes, reorganizations | `DataDirectory` |
| relay and synchronization | `node/control_server.cpp` | `sync_*`, advertised tip | network, mining and control thread; messages; lost sessions; restarts | `FullNodes` |
| peer network | `network/peer_network.cpp` | targets, sessions, timers | simultaneous connects, duplicates, timeouts, limits | `PeerNetwork` |
| one session, frames and messages | `network/peer_network.cpp`, `network/protocol.cpp` | outbound queue, reads and writes, PING timers | a connection that is cut, falls silent or damages a frame | `Protocol`, `Session` |
| block and transaction format | `chain/block.cpp`, `transaction/transaction.cpp` | none | pure functions | `BlockFormat` |
| mining | `node/control_server.cpp`, `consensus/proof_of_work.cpp` | `mining_*`, templates, the worker | coordinator, worker, network and control thread; lost sessions | `Mining` |
| submission by a wallet | `node/control_server.cpp` | `transaction_state_`, pending id and peer | control and network thread; lost sessions | `Submission` |
| configuration | `config/application_config.cpp`, `node/scenario_actor_config.cpp` | none | pure functions of a document | `Configuration` |
| node process | `app/node_commands.cpp`, `node/control_server.cpp` | stage of the main thread, threads | a start that fails anywhere, other starts, the wait of the coordinator | `NodeStart` |
| control endpoint | `node/control_server.cpp`, `app/rpc_commands.cpp` | connections, requests, answers | clients, threads beside the main thread | `ControlServer` |
| RPC token | `rpc/token.cpp` | token file | overlapping starts, kills | `TokenFile` |
| wallet files and selection | `wallet/wallet_file.cpp`, `app/wallet_selection.cpp`, `app/application.cpp` | wallet files, the setting | overlapping commands, kills, failing writes | `WalletFiles` |

They interact as follows. A `NodeRuntime` (`control_server.cpp`) owns a chain
store and a mempool store, both guarded by `state_mutex_`, and a `PeerNetwork`
with a thread of its own. Peer messages are handled on the network thread; a
mining worker and a coordinator run beside it; the main thread accepts control
connections. The handlers change the chain under the lock and publish the result
(advertised tip, relayed blocks, cancelled work) after they have released it: most
of what is interesting happens in these gaps. On disk the processes of one user
meet in three places: the data directory, the token file and the wallet files.

## Modules

How the modules build on each other (`A <- B`: B extends A):

    ChainState <- BlockTree <- Blockchain
    ChainState <- Mempool
    BlockTree <- DurableLog, ChainStore, BlockLocator
    ChainStore, Mempool <- DataDirectory     (its chain store implements DurableLog)
    BlockLocator, Mempool <- FullNodes
    Protocol <- BlockFormat <- Session
    TokenFile <- NodeStart <- ControlServer  (NodeStart instantiates Configuration)
    PeerNetwork, Mining, Submission, WalletFiles: on their own

    Blockchain, ChainStateProofs <- BlockchainProofs
    DataDirectory <- DirectoryProofs
    TokenFile <- TokenFileProofs;  ControlServer, TokenFileProofs <- ControlProofs
    Submission <- SubmissionProofs;  WalletFiles <- WalletFilesProofs
    SetInduction: induction over numbers, for the proofs

`ChainState`, `BlockTree`, `Mempool`, `BlockLocator`, `Protocol`, `BlockFormat` and
`Configuration` hold the operators of a component, translated once; the others are
the state machines that call them. So `FullNodes` and `DataDirectory` run the same
fork choice and the same mempool that `Blockchain` is about. Module `MC<M>` gives
the constants of `<M>` their values for TLC.

**ChainState, BlockTree, Blockchain.** A block is a record with the fields that
the checks read (chain id, height, previous id, time, proof of work valid or not,
reward address, transactions). `Blockchain.Append(b)` is `Blockchain::append`
with the checks in the order of the code, the state of the parent, the fork
choice and the reported detached and attached blocks. The 64-bit limit is the
constant `MaxU64`.

**ChainStore, DurableLog.** An append is two steps, `WriteRecord` (the flushed
record) and `Commit` (the rebuild of the database and then the publication in
memory), between which a crash may come. A write may be torn, a rebuild may fail,
and the truncation that follows may fail too; the variable `reliable`, chosen
once, says whether truncations succeed, and the replay and the refinement are
stated where they do. `DurableLog` is the promise: a log that grows at its end and
of which an acknowledged prefix is never lost.

**DataDirectory.** Every action is a step of the process that has the directory:
a node, or one of `chain init`, `verify` (also `tip`, `balance`), `add`, `mempool
list` (also `status`), `add`, `block candidate`; `block mine` works on the files
only. A process has its memory in `process`, which a kill (`Ends`, `KillWriting`)
loses; the directory keeps `blocks.dat`, both databases and the block files. The
chain store's steps are those of `ChainStore`, the pool's those of `Mempool`; after
an append come the reconciliation with the detached blocks and the rewrite of
`mempool.db`, either of which may not happen.

**FullNodes.** Each handler of a message (`HELLO`, block, transaction,
`get_blocks`, `blocks`) is an action; what a handler does after it has released
`state_mutex_` is a second action of the same thread, so that the mining thread
can come between. A frame that is posted to the network thread is sent with the
step that posts it, and messages are well formed. The state and the sync lock of
the end of a batch are taken in one step. Which nodes connect to which, their
initial chains and the bounds of a run are a `setting`, a variable that `Init`
chooses and no action changes: one run covers several networks.

**PeerNetwork.** Two ends of every connection, with connect, accept, handshake,
duplicate resolution by nonces, pings, timeouts, reconnect timers and the limits
per process and per address. The limits, and what users ask for, are a variable
that `Init` chooses and no action changes, so that one run has connections below
the limits and at them.

**Protocol, BlockFormat, Session.** `Session` is the class of that name from both
ends: `send` with the limit of the queue, one write at a time, the read of a
header and then of a payload, HELLO first, and the two timers of an idle session.
A message has its size in bytes, computed as the program computes it, so that the
limits are compared with the real sizes; `Protocol` has the tests of the receiver.
`BlockFormat` builds, signs, encodes and decodes blocks and transactions field by
field; a hash is the term it is the hash of.

**Mining.** Coordinator, worker, network and control thread of one process, as a
full node (`Local`) or as a mining-only process with one source. Each thread is
a sequence of steps between its locks; adjacent stores to atomics that no other
thread tests separately are one step. The wait of the coordinator is two steps,
the test and the block, as the flags change without its mutex. A block is the path
of labels from Genesis. Mining by the source itself is represented by blocks of
others that the source stores.

**Configuration, NodeStart, ControlServer.** A configuration document is a record
of its members; the tests are made in the order of the code, and the first that
fails is the error. `NodeStart` takes the process from there through the token
file (it is the run `Self` of `TokenFile`, beside other starts), the stores, the
listener, the peers, the endpoint and the threads, and back on every way out.
`ControlServer` adds the accept loop, one connection at a time, and the clients.
The document, the role and the surroundings are chosen once (`process`); methods
are grouped by what they do. An operation that is acknowledged is first handed to
the network thread (`Post`), which runs what it was given in order (`RunPosted`),
the handler of `PeerNetwork::stop` last. A coordinator thread that cannot be
started ends the process at once: nothing catches that exception. The template of a mere miner is asked
for, taken and launched in three steps, between which mining may be stopped.

**Submission, TokenFile, WalletFiles.** The submission protocol of a process
without a chain; the steps of `load_or_create_token`; the wallet commands. Files
survive the kill of a process; loss of power is not modelled. A failed write of
the setting leaves any beginning of the path, which is read as a path.

## Runs

Passing runs. Unless the configuration says otherwise deadlock is checked; it is
switched off where the system really comes to rest (all bounded inputs used up,
or the process has ended).

| Run | Checks | Bounds, and why they suffice |
| --- | --- | --- |
| `fork_choice` | the tree is consistent, the active tip is the first seen of the strongest blocks, money is conserved and every balance in range, the reported detached and attached blocks are the exact difference | three branches with transfers and one block for every refusal, in every order; the width lets balances reach the limit |
| `data_directory` | acknowledged blocks stay on file and the database agrees with memory, even when truncations fail; where they succeed, a replay of the file gives the memory and the store implements `DurableLog`; the pool is its database and follows the tip; pending transactions are consistent; templates and mined candidate files are accepted; no eligible transaction is lost | five records: two branches with a reorganization that detaches a payment, or confirms its competitor, and stray or torn records; a queue of three transactions for a pool of two, so that a submission meets a full pool and a reorganization drives one out of it; every command; candidate files that are mined and added at any later time |
| `nodes` | one request outstanding, reported synchronization state is true, an undisturbed node catches up, synchronization and relay end | any two forks of up to four blocks with batches of two (several batches and a reorganization); a node between two longer peers; two nodes that mine, two faults; a triangle, the smallest cycle, with a payment |
| `peers` | one completed session per peer; a target keeps a session, an attempt or a timer unless it is given up at the limit of sessions or for a session to the same process; below the limit both sides come to rest on one connection | two processes that connect to each other at the same time, with one fault or request at any moment; three connections below the limit of sessions; two at a limit of two sessions and one connection per address, where retries and accepts meet the limits; two with requests to connect to oneself or to a second endpoint of the other process |
| `session` | what the program builds its receiver accepts; no payload is lost, repeated, reordered or altered and the queue's count is right; the bytes of a block identify it; an answered session stays, a dead one is noticed | every message at its smallest and largest size; five large ones, one more than the queue takes; two PINGs of a user beside the idle ones; one damaged field in any frame, its type and length included; incompatible ends; blocks with up to six transactions, altered in every field |
| `mining` | after stop-mining a full node does no work, stopping and shutting down end, continuous mining of a full node goes on; what is reported accepted is stored and an attended miner knows its source's tip; work that was started concludes | a full node with any two requests, one on a chain that forks with exhausted nonces; a mining-only process with a patient runner, three heights, three requests; one with two sessions that is stopped at any point |
| `submission` | the reported outcome is true, one submission under way, every submission comes to a result unless its peer is lost | two nodes, three sessions, four calls: one more than the sessions |
| `control` | what was acknowledged and handed to the network thread is run, in the order of the answers, before the process ends; no thread outlives the main thread, an accepted configuration starts, starts agree on the token, nothing is reported after stopped and no mining before ready, a shutdown ends | some 400 documents: every kind of valid one with one member changed; three starts on one token file; two connections, every kind and role of process, a start that may fail anywhere |
| `wallet_files` | while commands do not overlap a created wallet stays, and a setting that was written to its end names a whole wallet with the key its command had | three commands, two paths of which one begins with the other, any write cut off anywhere |

Three more runs check what a document says and end with a counterexample;
`findings` in `PROJECT.json` quotes the sentence and the line of code.

| Run | What happens |
| --- | --- |
| `sync_reconnect` | a session lost while a request is outstanding: `pending_sync_request_` and `sync_state_` stay, `maybe_start_sync` returns early after every reconnect, and the node never synchronizes again |
| `mining_alone` | a mining-only process alone with its source: the coordinator asks for a second template between two steps of the worker, the result of the submitted block is ignored, and mining comes to a standstill |
| `shutdown_missed` | a persistent miner is asked to shut down while its coordinator has tested the flags and not yet blocked: the flags change and the notification is sent without `mining_coordinator_mutex_`, nobody notifies again, and the join never returns |

Every property of a passing run is also checked against a mutant of the code's
translation that breaks it (`mutants` in `PROJECT.json`; the mutated definitions
stand beside the originals with a comment).

### Conditions of the properties, and where the code is weaker than its documents

Some properties carry a condition because the code does not keep the
unconditional form. These are the cases met while modelling; each follows from
the lines named, and, the loop of `peer_network.cpp:280` apart, the models contain
the behaviour.

| Source | What happens | Document |
| --- | --- | --- |
| `mempool_store.cpp:299` | at the limit of the pool a reorganization drops valid pending transactions (`NoEligibleLost` allows it) | `docs/mempool.md:41-43` |
| `mempool.cpp:51` | the last nonce of the range is admitted behind a pending transaction and can never be mined | `docs/mempool.md:5` |
| `chain_store.cpp:419` | after an append whose truncation failed as well, the stray record is read at the restart, which may come back with another tip (`ReplayIsMemory` needs `reliable`) | `docs/chain-store.md:91-93` |
| `control_server.cpp:1331` | two threads publish their tips in the wrong order; the older stays advertised | `docs/sync-protocol-v1.md:20` |
| `control_server.cpp:1294` | two connected nodes on a tie do not converge by the next block (`CatchesUpUndisturbed` excludes new blocks) | `docs/adr/0015-fork-aware-synchronization.md:46-47` |
| `peer_network.cpp:280` | a full queue closes the session and erases the element on which the loop of `broadcast()` or `ping_all()` stands | `docs/p2p-protocol-v1.md:157-159` |
| `peer_network.cpp:741` | connects and accepts that overlap exceed the limit of sessions, and a retry that meets the limit is dropped for good; at the limit two processes may go on closing and making connections (`TargetServed` names the limit as a reason, `Settles` is stated below it) | `docs/p2p-protocol-v1.md:150,157`, `docs/internet-p2p.md:91` |
| `peer_network.cpp:837` | a connection that is a duplicate of one kept for another target is closed without a retry, and its own target is left alone even after that session ends (`TargetServed` names this as the second reason) | `docs/internet-p2p.md:91` |
| `peer_network.cpp:453` | the side whose duplicate was closed sets a retry although a session is there | `docs/p2p-protocol-v1.md:138-140` |
| `control_server.cpp:1326` | a block that arrives between the creation of a candidate and its launch cancels nothing, and the search on the former tip goes on | `docs/mining-protocol-v1.md:80-82` |
| `control_server.cpp:1732` | a tip that changes by synchronization does not cancel the work on the former one | `docs/architecture.md:67-68` |
| `control_server.cpp:907` | a template request whose session is lost stays pending, so that continuous mining does not resume after the reconnect | `docs/mining-protocol-v1.md:82-83` |
| `control_server.cpp:1224` | the network thread of a mining-only process launches without the mutex: work may begin after stop-mining has answered, and a stop may wait for a block (`StopEndsWork` and `StopAnswers` are stated for full nodes) | `docs/rpc.md:58-59` |
| `control_server.cpp:1193`, `:1247` | a mining-only process that connected late, or whose source reorganized, refuses the templates on the source's tip (`Attended`) | `docs/architecture.md:65-66` |
| `control_server.cpp:334` | the flags of the coordinator change, and it is notified, without its mutex: a notification between its test and its wait is lost. A shutdown then hangs, and so may the end of the process after a failure (`ShutdownEnds` and `StopAnswers` exclude a coordinator that missed it) | `docs/rpc.md:63`, `docs/node-control.md:124` |
| `control_server.cpp:2286` | the network thread runs before `ready` is written at line 2315: after a restart on the former port (`tools/scenario.py:425-436`) a peer that reconnects is reported first (`EventsFramed` has only mining wait for `ready`) | `docs/node-control.md:121-122` |
| `wallet_selection.cpp:117` | a failed write leaves a beginning of the path, which `selected_wallet` takes for a path when a file has that name (`SelectionUsable` is about settings written to their end) | none |
| `wallet_file.cpp:191` | of two overlapping `wallet create` commands the later replaces the earlier wallet (`CreatedStays` excludes an overlap) | `docs/adr/0001-cryptography-and-wallet-protection.md:34-35` |
| `peer_network.cpp:264` | an id is reported for a transaction that a lost session never sent | `docs/rpc.md:60-62` |

### Fairness

Weak fairness is assumed of the steps of a thread of the process (the scheduler
runs it), of frames being delivered while a session lives (TCP), of timers that
are set (asio), and of a connect or accept coming to a result. `FullNodes` has
one weak fairness per node: a node with work to do (a frame to read, a handler to
go on with) does some of it, which is weaker than fairness of each handler. It is
never assumed of control requests, faults, submissions or of blocks found by
others. `Lucky` in `Mining` is strong fairness of `Found` and stands in the
properties that need a block to be found in the end: a search that is started
again and again succeeds once, which is what the proof of work promises with
probability one. In `ControlServer` a connected client writes
its request or closes in the end, and takes its answer: the endpoint serves one
connection at a time and its read has no timeout, so nothing else frees it.
`Settles` excludes a process that was asked to connect to
itself, which goes on connecting and closing as the code does.

## Proofs

| Theorem | States |
| --- | --- |
| `ApplyBlockStateType` (`ChainStateProofs`) | `apply_block_state` keeps balances and nonces in the range of the integers |
| `ForkChoiceSafe` (`BlockchainProofs`) | `Spec => []` of `TypeOK`, `TreeConsistent`, `ActiveChainIsBranch` and `FirstSeenStrongest`: for every set of blocks and addresses and every width |
| `OneTokenHolds`, `NeverPartialHolds`, `TokenStaysHolds` (`TokenFileProofs`) | for any number of overlapping starts: one token, never partial, never replaced |
| `ControlOneToken`, `NothingOutlivesHolds`, `AcceptedStartsHolds`, `AcknowledgedRunsHolds` (`ControlProofs`) | for every configuration document, any clients and any overlapping starts: the node agrees with the other starts on the token; when the main thread has ended no thread is left; an accepted configuration is refused by no part that starts later; what was acknowledged and handed over is run, in order, before the process ends |
| `AcknowledgedOnFileHolds`, `ReplayIsMemoryHolds`, `PendingStoredHolds` (`DirectoryProofs`) | for any blocks, processes and number of records: an acknowledged block stays on file; where truncations succeed, the database and the replay of the file give the memory; the pending transactions in memory are the rows of `mempool.db` |
| `OutcomeTrueHolds`, `OneInFlightHolds` (`SubmissionProofs`) | for any nodes, sessions and requests: the reported outcome is the decision of the node that was asked, and one submission is under way |
| `CreatedStaysHolds`, `SelectionUsableHolds` (`WalletFilesProofs`) | for any number of commands and paths that do not overlap in time: a created wallet stays, a setting written to its end names a whole one |

**Fork choice.** None of the four invariants is inductive alone, their
conjunction `IInv` is. That the new tip has the greatest work needs that work
grows by one from parent to child (`TreeConsistent`); that the active chain is a
branch needs that the walk from the new tip ends at Genesis (`PathToIsPath`, by
strong induction on the index: a parent is stored before its child); and that the
walk and the old chain can be compared needs both. `AcceptedBlock` collects what
the checks of `append` establish about an accepted block, `StoreKeepsTree` is the
step that only stores it, `StoredOnly` and `Activated` are the two outcomes of
the fork choice. `SetInduction` states induction over a set of numbers in a form
without an operator parameter.

The assumptions are `StateAssumption` (the width is a natural number, the subsidy
fits in it, and the mark for "no address" is no address) and `BlockAssumption`
(heights and times are in range, only Genesis has height 0, the reward goes to an
address, and the transactions of a block are well-formed records). All of them
are what the decoder guarantees of a block before it reaches `append`, and TLC
evaluates them in `fork_choice`.

**Token file.** `TokenInv` says where each run is: a run that sets permissions or
links has written its whole temporary file; a run that loads finds a file under
the final name; and if the final name is the file of a run, that run is past its
write. `OneToken` alone is not inductive: the second run's link fails only
because the name is there, which the invariant carries.

**Node process.** `ControlImplementsTokenFile` shows that a process with its
control endpoint is a run of `TokenFile`, so that what is proved of the token file
holds of it. `ThreadInv` says at which stages of the main thread which threads are
left: that nothing outlives the end needs the order of the joins. `AcceptedInv`
carries the tests of `application_config.cpp` to the stages where the same
conditions are tested again: past the tests the document is an accepted one, and
the runtime's configuration is computed from it. For `AcknowledgedRuns`,
`QueueInv` says that the queue of the network thread is exactly what was handed
over and has not been run, followed by the handler of `stop()` while the main
thread waits for that thread; and `HandInv` that the thread is gone, or has not
begun, only with an empty queue. The handler of `stop()` is no request of a client
(`ControlAssumption`). That an operation is run says nothing of its effect: it may
find the session it was for gone.

**Chain store.** `StoreInv` says what is on file and in the database at each point
of an append: at rest both are the store in memory, and after the write of a
record the file is what replays plus one record that waits for the rebuild. That
the database still is the former store in this second state is what a failing
rebuild falls back on. The replay is a recursive function over the file;
`ReplayUnfolds` and `ReplayOfAppend` prove, by induction over its length, that a
record appended is one step of the replay.

**Mempool store.** `PendingStored` is the first part of `PoolInStep`. Beside it
`PoolInv` needs only that a process has the fields it should have.

**Submission.** `FlowInv` follows the one submission: at most one of the posted
frame, the transaction on the wire and the result on the wire exists, on the
session in `pending_peer`, and nothing is on its way unless the state is
"submitted". A result on the wire is the decision of the node at the other end.

**Wallet files.** While no two commands have overlapped, at most one is active,
and `StepInv` says what it relies on at each of its steps, such as that the
path it is about to open has no file.

The assumptions of these modules say that marks such as `None` are no paths, runs
or errors, that bounds are natural numbers, and that the workloads are made of the
blocks and transactions of the model. TLC evaluates each of them in the run of its
module.

Only model-checked: all liveness (fairness and `ENABLED` are out of the prover's
reach); `SupplyConserved`, `ReportIsDifference`, `PendingConsistent`,
`NoEligibleLost` and the part of `PoolInStep` about the tip, which rest on what
recursive definitions compute; the refinement of `DurableLog`, for the same reason
(a selection from a sequence); and `FullNodes`, `PeerNetwork`, `Mining` and
`Session`. The other way round, `ActiveChainIsBranch` and `NeverPartial` are
proved and need no run.

## Abstractions to know about

- Digests do not collide and a proof of work is valid or not; a block is
  identified with its id.
- A block's work is one, as in the code (the target is fixed).
- One process owns a data directory, as `docs/chain-store.md` requires; nothing
  in the code prevents a second one, and it is not modelled.
- `block_file.cpp` and `transaction_file.cpp` save like `wallet_file.cpp`
  (a test for the file, then a truncating open); the overlap of two such commands
  is modelled for the wallet only.
- A wallet whose session is lost while the state is "submitted" cannot submit
  again; the documents exclude a retry, and `Resolves` allows a lost peer.

## Not modelled

| Part | Why |
| --- | --- |
| cryptography (`crypto/`) | calls of libsodium; digests do not collide, signatures are valid or not |
| wallet keys and addresses | pure functions of keys; a wallet is identified with its address |
| encryption of a wallet file, `wallet sign`, `wallet verify` | no state; a wallet file is whole or not |
| hashing and 256-bit comparison of the proof of work | whether a block meets the target is a field of the block; the search loop is in `Mining` |
| network profiles | constant tables; chains and magics are constants of the modules |
| transaction commands and files | one process, one file that no other process uses; signing and decoding are in `BlockFormat` |
| `block create`, `block genesis` | they only make a block file; `DataDirectory` adds blocks from any origin |
| command line, printing, progress events | no state |
| scenario runner | the test harness; what it asks of a process is in `ControlServer` and `Mining` |
| `broadcast()` and `ping_all()` over several full queues | undefined behaviour within one loop of one thread: whether the process survives is up to the build |
| loss of power | files are what was written to them; only processes are killed |
