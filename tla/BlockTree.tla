------------------------------- MODULE BlockTree -------------------------------
(***************************************************************************)
(* bbc::chain::Blockchain (src/chain/blockchain.cpp): the tree of stored   *)
(* blocks, the fork choice, and the active chain.                          *)
(*                                                                         *)
(* A Blockchain is a record, because the program copies it (ChainStore     *)
(* appends to a copy and publishes it later):                              *)
(*   stored  stored_blocks_, in arrival order, Genesis first               *)
(*   nodes   nodes_: parent index, cumulative work and account state       *)
(*   active  active_indices_, from Genesis to the active tip               *)
(* Indices start at 1 here and at 0 in the code.  index_by_id_,            *)
(* active_flags_, blocks_ and state_ are functions of these three, which   *)
(* append() recomputes from them; they are the operators below.            *)
(***************************************************************************)
EXTENDS ChainState

CONSTANTS
  ChainId,     \* the network profile's chain id
  ZeroHash,    \* the all-zero hash, parent of Genesis
  Block        \* the decoded blocks that append() may be given

GenesisBlock ==
  [chain_id |-> ChainId, height |-> 0, prev |-> ZeroHash, time |-> 0,
   reward |-> NoAddress, pow |-> FALSE, tag |-> 0, txs |-> << >>]

(***************************************************************************)
(* What decoding guarantees of a block: deserialize_block accepts height 0 *)
(* only for canonical Genesis, create_block refuses it, and every other    *)
(* block names a reward recipient.  b.pow says whether the target is the   *)
(* profile's and the header hash is below it; b.tag stands for the mining  *)
(* nonce, which tells apart blocks that are otherwise equal.               *)
(***************************************************************************)
ASSUME BlockAssumption ==
  \A b \in Block :
    /\ b.height \in U64
    /\ b.time \in U64
    /\ b.height = 0 => b = GenesisBlock
    /\ b.height # 0 => b.reward \in Addresses
    /\ b.txs \in Seq(Transactions)
    /\ ValidTransactions(b.txs)

-----------------------------------------------------------------------------
(* The constructor: Genesis alone, active, with no work and no accounts. *)
NewBlockchain ==
  [stored |-> <<GenesisBlock>>,
   nodes  |-> <<[parent_index |-> 1, cumulative_work |-> 0,
                 state |-> EmptyState]>>,
   active |-> <<1>>]

ActiveTipIndex(chain) == chain.active[Len(chain.active)]

ActiveBlocks(chain) ==
  [k \in 1..Len(chain.active) |-> chain.stored[chain.active[k]]]

Tip(chain) == chain.stored[ActiveTipIndex(chain)]

StateOf(chain) == chain.nodes[ActiveTipIndex(chain)].state

Contains(chain, id) == \E i \in 1..Len(chain.stored) : chain.stored[i] = id

IndexOf(chain, id) ==
  CHOOSE i \in 1..Len(chain.stored) : chain.stored[i] = id

IsOnActiveChain(chain, id) ==
  \E k \in 1..Len(chain.active) : chain.stored[chain.active[k]] = id

CumulativeWork(chain, id) ==
  chain.nodes[IndexOf(chain, id)].cumulative_work

(***************************************************************************)
(* append(): the checks in the order the code makes them.  The proof of    *)
(* work is checked after the cheap header checks and before the account    *)
(* state of the parent branch, not of the active chain, is advanced.       *)
(***************************************************************************)
AppendError(chain, b) ==
  LET parent == chain.stored[IndexOf(chain, b.prev)]
      before == chain.nodes[IndexOf(chain, b.prev)].state
  IN  IF b.height = 0 THEN "genesis_cannot_be_appended"
      ELSE IF b.chain_id # Tip(chain).chain_id THEN "unexpected_chain"
      ELSE IF Contains(chain, b) THEN "duplicate_block"
      ELSE IF ~Contains(chain, b.prev) THEN "unexpected_parent"
      ELSE IF parent.height = MaxU64 THEN "height_overflow"
      ELSE IF b.height # parent.height + 1 THEN "unexpected_height"
      ELSE IF b.time <= parent.time THEN "timestamp_not_increasing"
      ELSE IF ~b.pow THEN "invalid_proof_of_work"
      ELSE IF BlockStateError(before, b) # "none"
           THEN "invalid_state_transition"
      ELSE "none"

(* Mutant: the state of the active tip is advanced, whatever the parent. *)
NewNodeFromTip(chain, b) ==
  LET p == IndexOf(chain, b.prev)
  IN  [parent_index    |-> p,
       cumulative_work |-> chain.nodes[p].cumulative_work + 1,
       state           |-> ApplyBlockState(StateOf(chain), b)]

(* The node that append() pushes for a valid block. *)
NewNode(chain, b) ==
  LET p == IndexOf(chain, b.prev)
  IN  [parent_index    |-> p,
       cumulative_work |-> chain.nodes[p].cumulative_work + 1,
       state           |-> ApplyBlockState(chain.nodes[p].state, b)]

(* The walk from a stored block to Genesis, reversed. *)
PathTo(nodes, index) ==
  LET path[i \in 1..Len(nodes)] ==
        IF i = 1 THEN <<1>> ELSE Append(path[nodes[i].parent_index], i)
  IN  path[index]

(* Mutant: the shorter sequence is taken for a prefix of the longer one. *)
CommonSizeByLength(s, t) == IF Len(s) <= Len(t) THEN Len(s) ELSE Len(t)

(* How many leading entries two index sequences share. *)
CommonSize(s, t) ==
  CHOOSE n \in 0..Len(s) :
    /\ n <= Len(t)
    /\ \A k \in 1..n : s[k] = t[k]
    /\ n < Len(s) /\ n < Len(t) => s[n + 1] # t[n + 1]

(* AppendResult, and what it is when the active chain did not change. *)
Unchanged(error) ==
  [error |-> error, active_chain_changed |-> FALSE, reorganized |-> FALSE,
   detached |-> << >>, attached |-> << >>]

Store(chain, b) ==
  [stored |-> Append(chain.stored, b),
   nodes  |-> Append(chain.nodes, NewNode(chain, b)),
   active |-> chain.active]

(* Mutant: a tie also switches. *)
StrongerOrEqual(chain, b) ==
  NewNode(chain, b).cumulative_work >=
    chain.nodes[ActiveTipIndex(chain)].cumulative_work

(* The new block has strictly more work than the active tip. *)
Stronger(chain, b) ==
  NewNode(chain, b).cumulative_work >
    chain.nodes[ActiveTipIndex(chain)].cumulative_work

(* Switch the active chain to the branch that ends in the last stored block. *)
Activate(chain) ==
  [stored |-> chain.stored,
   nodes  |-> chain.nodes,
   active |-> PathTo(chain.nodes, Len(chain.nodes))]

Reported(chain, next) ==
  LET common == CommonSize(chain.active, next.active)
      Suffix(c) == [k \in 1..(Len(c.active) - common) |->
                      next.stored[c.active[common + k]]]
  IN  [error |-> "none", active_chain_changed |-> TRUE,
       reorganized |-> common < Len(chain.active),
       detached |-> Suffix(chain), attached |-> Suffix(next)]

(* append() as a whole: the Blockchain it leaves and the AppendResult. *)
AppendBlock(chain, b) ==
  LET error    == AppendError(chain, b)
      stored   == Store(chain, b)
      switched == Activate(stored)
  IN  IF error # "none" THEN [chain |-> chain, result |-> Unchanged(error)]
      ELSE IF ~Stronger(chain, b)
           THEN [chain |-> stored, result |-> Unchanged("none")]
      ELSE [chain |-> switched, result |-> Reported(chain, switched)]

=============================================================================
