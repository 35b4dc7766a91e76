------------------------------ MODULE Blockchain ------------------------------
(***************************************************************************)
(* One Blockchain object to which decoded blocks are offered in any order, *)
(* any number of times: the fork choice of src/chain/blockchain.cpp as a   *)
(* state machine whose single action is append().                          *)
(***************************************************************************)
EXTENDS BlockTree, FiniteSetsExt

VARIABLES
  chain,   \* the Blockchain
  result   \* the AppendResult of the last append()

vars == <<chain, result>>

Init ==
  /\ chain = NewBlockchain
  /\ result = Unchanged("none")

Offer(b) ==
  LET appended == AppendBlock(chain, b)
  IN  /\ chain' = appended.chain
      /\ result' = appended.result

Next == \E b \in Block : Offer(b)

Spec == Init /\ [][Next]_vars

-----------------------------------------------------------------------------
Indices == 1..Len(chain.stored)

Work(i) == chain.nodes[i].cumulative_work

(* Every stored account value fits 64 bits, and every index is in range. *)
TypeOK ==
  /\ chain.stored \in Seq(Block \cup {GenesisBlock})
  /\ chain.nodes \in Seq([parent_index : Nat, cumulative_work : Nat,
                          state : ChainStates])
  /\ Len(chain.nodes) = Len(chain.stored)
  /\ chain.active \in Seq(Indices)
  /\ chain.active # << >>

(***************************************************************************)
(* The stored blocks are a tree rooted at Genesis: no block twice, every   *)
(* other block after its parent, one higher, later in time, with the work  *)
(* and the account state that its parent's give it.  Cumulative work is    *)
(* then the height, on every branch and not only on the active one.        *)
(***************************************************************************)
TreeConsistent ==
  /\ chain.stored[1] = GenesisBlock
  /\ \A i, j \in Indices : chain.stored[i] = chain.stored[j] => i = j
  /\ \A i \in Indices : Work(i) = chain.stored[i].height
  /\ \A i \in Indices \ {1} :
       LET p == chain.nodes[i].parent_index
       IN  /\ p \in 1..(i - 1)
           /\ chain.stored[p] = chain.stored[i].prev
           /\ chain.stored[i].height = chain.stored[p].height + 1
           /\ chain.stored[i].time > chain.stored[p].time
           /\ BlockStateError(chain.nodes[p].state, chain.stored[i]) = "none"
           /\ ApplyBlockState(chain.nodes[p].state, chain.stored[i]) =
                chain.nodes[i].state

(***************************************************************************)
(* The active chain is one branch: it starts at Genesis, each block is the *)
(* parent of the next, so block k of it has height k - 1.  get_blocks and  *)
(* the locator match index the active chain by height and rely on this.    *)
(***************************************************************************)
ActiveChainIsBranch ==
  /\ chain.active[1] = 1
  /\ \A k \in 2..Len(chain.active) :
       chain.nodes[chain.active[k]].parent_index = chain.active[k - 1]
  /\ \A k \in 1..Len(chain.active) :
       chain.stored[chain.active[k]].height = k - 1

(***************************************************************************)
(* Fork choice: the active tip is the first stored block among those of    *)
(* greatest cumulative work.  This is what makes a replay of the records   *)
(* in arrival order end on the same tip (docs/chain-store.md).             *)
(***************************************************************************)
FirstSeenStrongest ==
  \A i \in Indices :
    \/ Work(i) < Work(ActiveTipIndex(chain))
    \/ Work(i) = Work(ActiveTipIndex(chain)) /\ ActiveTipIndex(chain) <= i

(***************************************************************************)
(* Money: on every branch the balances add up to one subsidy per block,    *)
(* and none has left the range of a 64-bit integer, in which it would have *)
(* wrapped.  Fees and transfers, self-transfers included, only move funds. *)
(***************************************************************************)
SupplyConserved ==
  \A i \in Indices :
    /\ \A a \in Addresses : chain.nodes[i].state[a].balance \in 0..MaxU64
    /\ MapThenSumSet(LAMBDA a : chain.nodes[i].state[a].balance, Addresses) =
         BlockSubsidy * chain.stored[i].height

(***************************************************************************)
(* The AppendResult tells its caller exactly how the active chain changed: *)
(* the old one is a common part and then the detached blocks, the new one  *)
(* the same common part and then the attached blocks, and no block is in   *)
(* both lists.  The mempool is reconciled from these lists alone.          *)
(***************************************************************************)
ReportIsDifference ==
  [][LET before == ActiveBlocks(chain)
         after  == ActiveBlocks(chain')
         common == Len(before) - Len(result'.detached)
     IN  /\ result'.active_chain_changed <=> before # after
         /\ result'.reorganized <=> result'.detached # << >>
         /\ result'.active_chain_changed =>
              /\ before = SubSeq(before, 1, common) \o result'.detached
              /\ after = SubSeq(before, 1, common) \o result'.attached
              /\ \A d \in 1..Len(result'.detached) :
                   ~IsOnActiveChain(chain', result'.detached[d])]_vars

=============================================================================
