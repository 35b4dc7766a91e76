---------------------------- MODULE DataDirectory ----------------------------
(***************************************************************************)
(* A data directory and the processes that work on it, one at a time       *)
(* (docs/chain-store.md: one writer per data directory): the chain store   *)
(* of ChainStore, the mempool store (src/storage/mempool_store.cpp) and    *)
(* the block files, under a node (NodeRuntime, src/node/control_server.cpp)*)
(* and the commands of src/app/chain_commands.cpp, mempool_commands.cpp    *)
(* and block_commands.cpp.  A process may die between any two steps.       *)
(*                                                                         *)
(* SQLite is external: a transaction on the database either takes effect   *)
(* as a whole or, when an operation fails, not at all.                     *)
(***************************************************************************)
EXTENDS ChainStore, Mempool

CONSTANTS
  MaximumBlockTransactions,   \* maximum_transactions_per_block
  Workloads,                  \* what users do with a directory
  Miner,                      \* the --reward-to of `block candidate`
  Timestamps,                 \* the values of its --timestamp
  None                        \* no value

(* A node, and the commands `chain init`, `chain verify` (and tip and        *)
(* balance), `chain add`, `mempool list` (and status), `mempool add` and     *)
(* `block candidate`.                                                        *)
Kinds == {"node", "init", "verify", "add", "list", "submit", "candidate"}

ASSUME DirectoryAssumption ==
  /\ Miner \in Addresses
  /\ Timestamps \subseteq Nat
  /\ \A w \in Workloads :
       /\ w.kinds \subseteq Kinds
       /\ w.submissions \subseteq Transactions
       /\ w.blocks \subseteq Block

VARIABLES
  workload,    \* the processes, transactions and blocks; never changes
  rows,        \* the rows of mempool.db, in arrival order
  process,     \* the process at work: what it is, how far, and its memory
  candidate,   \* the file that `block candidate` saves
  mined        \* the file that `block mine` saves

files == <<candidate, mined>>
directoryVars == <<vars, workload, rows, process, files>>

(***************************************************************************)
(* The locals of a process: where it is, mempool_, and of an append the    *)
(* state before it and the blocks it detached.                             *)
(***************************************************************************)
NewProcess(kind) ==
  [kind |-> kind, at |-> "chain", pool |-> NewMempool(EmptyState),
   previous |-> EmptyState, detached |-> << >>, maintained |-> TRUE]

Running(kinds, step) ==
  process # None /\ process.kind \in kinds /\ process.at = step

Moved(step) == process' = [process EXCEPT !.at = step]

(* Where a process goes on when an append has failed, or is complete. *)
Resumed == IF process.kind = "node" THEN "work" ELSE "end"

DirectoryInit ==
  /\ Init
  /\ workload \in Workloads
  /\ rows = << >>
  /\ process = None
  /\ candidate = None /\ mined = None

Begin(kind) ==
  /\ process = None
  /\ process' = NewProcess(kind)
  /\ UNCHANGED <<vars, rows, files>>

(***************************************************************************)
(* The process ends: after its last step, on an error that it reports, or  *)
(* because it is killed.                                                   *)
(***************************************************************************)
Ends ==
  /\ process # None
  /\ IF pc = "down" THEN UNCHANGED vars ELSE Crash
  /\ process' = None
  /\ UNCHANGED <<rows, files>>

-----------------------------------------------------------------------------
(***************************************************************************)
(* Opening the chain store.  NodeRuntime::initialize creates one where     *)
(* none is, `chain init` only that, every other command needs one.         *)
(***************************************************************************)
CreateChain ==
  /\ Running({"node", "init"}, "chain")
  /\ Initialize
  /\ process' = IF pc' = "creating" THEN process ELSE None
  /\ UNCHANGED <<rows, files>>

Opens(kinds, step) ==
  /\ Running(kinds, "chain")
  /\ Open
  /\ Moved(step)
  /\ UNCHANGED <<rows, files>>

(* `chain init` is done when the store that it created is open; `chain     *)
(* verify`, tip and balance, when the one they are given is.               *)
InitChain == pc = "creating" /\ Opens({"init"}, "end")

VerifyChain == Opens({"verify"}, "end")

NodeOpens == Opens({"node"}, "mempool")

AddOpens == Opens({"add"}, "append")

OpenStores == Opens({"list", "submit"}, "mempool")

CandidateOpens == Opens({"candidate"}, "mempool")

OpenChainFails ==
  /\ Running(Kinds, "chain")
  /\ OpenFails
  /\ process' = None
  /\ UNCHANGED <<rows, files>>

(* MempoolStore::open: the rows are read in arrival order and validated, *)
Load(state) == AddAll(NewMempool(state), rows)

(* and the database is rewritten with those that were admitted. *)
OpensMempool(kinds, state, step) ==
  LET loaded == Load(state)
  IN  /\ Running(kinds, "mempool")
      /\ rows' = loaded.txs
      /\ process' = [process EXCEPT !.pool = loaded, !.at = step]
      /\ UNCHANGED <<vars, files>>

OpenMempool ==
  OpensMempool({"node", "submit", "candidate"}, StateOf(store.chain), "work")

ListPending == OpensMempool({"list"}, StateOf(store.chain), "end")

(* `chain add` opens it after its append, on the state before. *)
AddOpensMempool == OpensMempool({"add"}, process.previous, "reconcile")

-----------------------------------------------------------------------------
(***************************************************************************)
(* Appending a block: `chain add` of a file, which may be one of the files *)
(* above, or the node's of a block of a peer or of its own.                *)
(***************************************************************************)
MayAppend ==
  \/ Running({"node"}, "work")
  \/ Running({"add"}, "append")

StoreBlock(b) ==
  /\ MayAppend
  /\ WriteRecord(b)
  /\ Moved("commit")
  /\ UNCHANGED <<rows, files>>

StoreFails(b) ==
  /\ MayAppend
  /\ WriteFails(b)
  /\ Moved(Resumed)
  /\ UNCHANGED <<rows, files>>

KillWriting(b) ==
  /\ MayAppend
  /\ CrashWriting(b)
  /\ process' = None
  /\ UNCHANGED <<rows, files>>

AppendResult ==
  AppendBlock(store.chain, next.chain.stored[Len(next.chain.stored)]).result

(***************************************************************************)
(* `chain add` opens the mempool and reconciles it in any case, the node   *)
(* only when the active chain changed.                                     *)
(***************************************************************************)
CommitBlock ==
  /\ Running({"node", "add"}, "commit")
  /\ Commit
  /\ process' = [process EXCEPT
       !.at = IF process.kind = "add" THEN "mempool"
              ELSE IF AppendResult.active_chain_changed THEN "reconcile"
              ELSE "work",
       !.previous = IF process.kind = "add" THEN StateOf(store.chain) ELSE @,
       !.detached = AppendResult.detached]
  /\ UNCHANGED <<rows, files>>

CommitFails ==
  /\ Running({"node", "add"}, "commit")
  /\ RebuildFails
  /\ Moved(Resumed)
  /\ UNCHANGED <<rows, files>>

(***************************************************************************)
(* reconcile_reorganization: a new pool on the new state, filled with the  *)
(* transactions of the detached blocks, oldest first, and then with what   *)
(* was pending.                                                            *)
(***************************************************************************)
(* Mutant: what was pending goes first. *)
PendingFirst ==
  AddAll(Revalidate(process.pool, StateOf(store.chain)),
         BlockTransactions(process.detached))

Reconciled ==
  AddAll(Restored(StateOf(store.chain), process.detached), process.pool.txs)

(* Mutant: the pool is published even when the database was not rewritten. *)
PublishAlways(pool, rewritten) ==
  /\ process' = [process EXCEPT !.pool = pool, !.detached = << >>,
                                !.at = Resumed, !.maintained = rewritten]
  /\ rows' = IF rewritten THEN pool.txs ELSE rows

(* A failed rewrite of the database leaves the pool, on the old state. *)
Publish(pool, rewritten) ==
  /\ process' = [process EXCEPT !.pool = IF rewritten THEN pool ELSE @,
                                !.detached = << >>,
                                !.at = Resumed, !.maintained = rewritten]
  /\ rows' = IF rewritten THEN pool.txs ELSE rows

Reconcile ==
  /\ Running({"node", "add"}, "reconcile")
  /\ \E rewritten \in BOOLEAN : Publish(Reconciled, rewritten)
  /\ UNCHANGED <<vars, files>>

(* MempoolStore::add: the copy is published only after the row is stored. *)
AddTransaction(tx) ==
  /\ Running({"node", "submit"}, "work")
  /\ AddError(process.pool, tx) = "none"
  /\ process' = [process EXCEPT !.pool = Add(@, tx), !.at = Resumed]
  /\ rows' = Append(rows, tx)
  /\ UNCHANGED <<vars, files>>

-----------------------------------------------------------------------------
(***************************************************************************)
(* A block on the tip with the selected transactions, before the search    *)
(* for a nonce: what a node hands out, and with a timestamp of the user's  *)
(* what `block candidate` saves; and what the search makes of it.          *)
(***************************************************************************)
Candidate(reward, time, maximum) ==
  [chain_id |-> ChainId, height |-> Tip(store.chain).height + 1,
   prev |-> Tip(store.chain), time |-> time, reward |-> reward,
   pow |-> FALSE, tag |-> 0, txs |-> Select(process.pool, maximum)]

Template(reward, maximum) ==
  Candidate(reward, Tip(store.chain).time + 1, maximum)

MineBlock(b) == [b EXCEPT !.pow = TRUE]

(* save_block() where no file is; the process may be killed while it writes. *)
Saved(b) == {Whole(b), Torn(b)}

(* Mutant: any timestamp will do. *)
SaveAnyTime ==
  /\ Running({"candidate"}, "work")
  /\ candidate = None
  /\ \E time \in Timestamps :
       candidate' \in Saved(Candidate(Miner, time, MaximumBlockTransactions))
  /\ Moved("end")
  /\ UNCHANGED <<vars, rows, mined>>

SaveCandidate ==
  /\ Running({"candidate"}, "work")
  /\ candidate = None
  /\ \E time \in Timestamps :
       /\ time > Tip(store.chain).time
       /\ candidate' \in Saved(Candidate(Miner, time, MaximumBlockTransactions))
  /\ Moved("end")
  /\ UNCHANGED <<vars, rows, mined>>

(* `block mine`, which does not use the directory. *)
Mine ==
  /\ candidate # None /\ ~candidate.torn
  /\ mined = None
  /\ mined' \in Saved(MineBlock(candidate.block))
  /\ UNCHANGED <<vars, rows, process, candidate>>

(* The user removes a file. *)
Remove ==
  /\ \/ candidate # None /\ candidate' = None /\ UNCHANGED mined
     \/ mined # None /\ mined' = None /\ UNCHANGED candidate
  /\ UNCHANGED <<vars, rows, process>>

(* The whole blocks that a process may be given. *)
Given ==
  workload.blocks \cup
    {f.block : f \in {g \in {candidate, mined} \ {None} : ~g.torn}}

DirectoryNext ==
  /\ \/ \E kind \in workload.kinds : Begin(kind)
     \/ Ends
     \/ CreateChain \/ OpenChainFails
     \/ InitChain \/ VerifyChain
     \/ NodeOpens \/ AddOpens \/ OpenStores \/ CandidateOpens
     \/ OpenMempool \/ ListPending \/ AddOpensMempool
     \/ \E b \in Given : StoreBlock(b) \/ StoreFails(b) \/ KillWriting(b)
     \/ CommitBlock \/ CommitFails
     \/ Reconcile
     \/ \E tx \in workload.submissions : AddTransaction(tx)
     \/ SaveCandidate \/ Mine \/ Remove
  /\ UNCHANGED workload

DirectorySpec == DirectoryInit /\ [][DirectoryNext]_directoryVars

-----------------------------------------------------------------------------
PoolOpen ==
  \/ Running({"node", "submit", "candidate"}, "work")
  \/ Running({"node", "add"}, "reconcile")
  \/ Running({"node"}, "commit")

(***************************************************************************)
(* While a process has the mempool open the database holds exactly what is *)
(* pending, in the same order, whatever processes worked on the directory  *)
(* before, wherever they died and whatever writes failed; and unless the   *)
(* last maintenance failed, what it works on is the account state of the   *)
(* active tip and not of an earlier one.                                   *)
(***************************************************************************)
PoolInStep ==
  PoolOpen =>
    /\ process.pool.txs = rows
    /\ process.at = "work" /\ process.maintained =>
         process.pool.state = StateOf(store.chain)

(***************************************************************************)
(* The pending transactions of one sender carry consecutive nonces from    *)
(* the confirmed one on, in arrival order, and the sender's confirmed      *)
(* balance pays for all of them together; the pool keeps to its limit,     *)
(* also when a reorganization restores transactions.                       *)
(***************************************************************************)
PendingConsistent ==
  PoolOpen =>
    /\ Len(process.pool.txs) <= MaximumMempoolTransactions
    /\ \A a \in Addresses :
         LET mine == SelectSeq(process.pool.txs, LAMBDA tx : tx.sender = a)
             reserved[i \in 0..Len(mine)] ==
               IF i = 0 THEN 0 ELSE reserved[i - 1] + Debit(mine[i])
         IN  /\ \A i \in 1..Len(mine) :
                  mine[i].nonce = process.pool.state[a].next_nonce + i - 1
             /\ reserved[Len(mine)] <= process.pool.state[a].balance

(***************************************************************************)
(* A template, whatever its size limit and its miner, is a block that this *)
(* directory accepts once it is mined, unless maintenance failed: neither  *)
(* the order of fees nor a limit that cuts a sender's queue breaks it.     *)
(***************************************************************************)
TemplateAccepted ==
  Running({"node", "candidate"}, "work") /\ process.maintained =>
    \A reward \in Addresses, maximum \in 0..MaximumBlockTransactions :
      AppendError(store.chain, MineBlock(Template(reward, maximum))) = "none"

(***************************************************************************)
(* `block candidate`, `block mine` and `chain add` fit together: whatever  *)
(* happened to the directory since the candidate was built, and whichever  *)
(* branch is active by now, every process that opens it accepts the block  *)
(* of a mined file, or has it already.                                     *)
(***************************************************************************)
MinedAccepted ==
  (pc = "idle" /\ mined # None /\ ~mined.torn) =>
    AppendError(store.chain, mined.block) \in {"none", "duplicate_block"}

(***************************************************************************)
(* No step loses a transaction that could still be confirmed: what was     *)
(* stored as pending, was confirmed, or is to be restored, is afterwards   *)
(* still one of these, or the mempool has refused it.  Transactions are    *)
(* lost where the maintenance after an append fails or never happens       *)
(* (Maintained), and in no other way.                                      *)
(***************************************************************************)
Elements(txs) == {txs[i] : i \in 1..Len(txs)}

Confirmed == Elements(BlockTransactions(ActiveBlocks(store.chain)))

Restoring ==
  IF process = None THEN {} ELSE Elements(BlockTransactions(process.detached))

Maintained ==
  /\ Restoring # {} => process' # None /\ process'.maintained
  /\ store' # store /\ pc # "written" => Len(file) = Len(store.records)

NoEligibleLost ==
  [][Maintained =>
       \A tx \in Elements(rows) \cup Confirmed \cup Restoring :
         \/ tx \in Elements(rows') \cup Confirmed' \cup Restoring'
         \/ AddError(process'.pool, tx) # "none"]_directoryVars

=============================================================================
