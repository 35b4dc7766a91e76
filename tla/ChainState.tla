------------------------------ MODULE ChainState ------------------------------
(***************************************************************************)
(* The account state of a chain and the transition one block makes on it   *)
(* (src/chain/state.cpp), with the transaction and block records it reads. *)
(*                                                                         *)
(* A transaction or a block is the value its canonical bytes encode, and   *)
(* its 32-byte identifier is that value: two transactions (blocks) have    *)
(* the same id exactly when they are equal.  The hash that a block keeps   *)
(* of its parent is therefore the parent block itself, b.prev.             *)
(***************************************************************************)
EXTENDS Integers, Sequences

CONSTANTS
  Addresses,     \* the 32-byte address hashes
  MaxU64,        \* the largest value of an unsigned 64-bit integer
  BlockSubsidy,  \* block_subsidy, in base units
  NoAddress      \* the absent reward recipient of Genesis

ASSUME StateAssumption ==
  /\ MaxU64 \in Nat
  /\ BlockSubsidy \in 0..MaxU64
  /\ NoAddress \notin Addresses

U64 == 0..MaxU64

-----------------------------------------------------------------------------
(***************************************************************************)
(* Transactions.  Only decodable ones exist: validate_fields refuses a     *)
(* zero amount and an amount + fee that does not fit 64 bits.              *)
(***************************************************************************)
Debit(tx) == tx.amount + tx.fee

ValidFields(tx) ==
  /\ tx.amount # 0
  /\ tx.fee <= MaxU64 - tx.amount

Transactions ==
  {tx \in [sender : Addresses, recipient : Addresses,
           amount : U64, fee : U64, nonce : U64] : ValidFields(tx)}

(***************************************************************************)
(* A block passes decoding only when it carries no transaction id twice    *)
(* (validate_transactions).  The count limit and the chain id of every     *)
(* transaction are constant over the blocks considered here.               *)
(***************************************************************************)
ValidTransactions(txs) ==
  \A i, j \in 1..Len(txs) : txs[i] = txs[j] => i = j

-----------------------------------------------------------------------------
(***************************************************************************)
(* ChainState: every address has an account, and an address absent from    *)
(* the code's map is the account with balance 0 and next nonce 0.          *)
(***************************************************************************)
Accounts == [balance : U64, next_nonce : U64]

ChainStates == [Addresses -> Accounts]

EmptyState == [a \in Addresses |-> [balance |-> 0, next_nonce |-> 0]]

(* The sender's and the recipient's half of a transfer, and any credit. *)
Debited(account, tx) ==
  [balance    |-> account.balance - Debit(tx),
   next_nonce |-> account.next_nonce + 1]

Credited(account, value) ==
  [balance    |-> account.balance + value,
   next_nonce |-> account.next_nonce]

DebitSender(state, tx) == [state EXCEPT ![tx.sender] = Debited(@, tx)]

(* Mutant: both accounts are read before either is written. *)
TransferFromCopies(state, tx) ==
  [DebitSender(state, tx) EXCEPT ![tx.recipient] =
     Credited(state[tx.recipient], tx.amount)]

Transfer(state, tx) ==
  [DebitSender(state, tx) EXCEPT ![tx.recipient] = Credited(@, tx.amount)]

(***************************************************************************)
(* The loop body of apply_block_state.  A run carries the working copy of  *)
(* the state, the fees collected so far, and the first error met; an error *)
(* returns at once, so the transactions after it change nothing.           *)
(***************************************************************************)
TransactionError(run, tx) ==
  LET sender == run.state[tx.sender]
  IN  IF tx.nonce # sender.next_nonce THEN "invalid_account_nonce"
      ELSE IF sender.next_nonce = MaxU64 THEN "account_nonce_exhausted"
      ELSE IF sender.balance < Debit(tx) THEN "insufficient_balance"
      ELSE IF DebitSender(run.state, tx)[tx.recipient].balance
                > MaxU64 - tx.amount
           THEN "recipient_balance_overflow"
      ELSE IF run.fees > MaxU64 - tx.fee THEN "fee_total_overflow"
      ELSE "none"

Failed(run, error) == [state |-> run.state, fees |-> run.fees, error |-> error]

ApplyTransaction(run, tx) ==
  IF run.error # "none" THEN run
  ELSE IF TransactionError(run, tx) # "none"
       THEN Failed(run, TransactionError(run, tx))
  ELSE [state |-> Transfer(run.state, tx),
        fees  |-> run.fees + tx.fee,
        error |-> "none"]

(* The run after all the transactions of the block, in block order. *)
RunTransactions(state, txs) ==
  LET run[i \in 0..Len(txs)] ==
        IF i = 0 THEN [state |-> state, fees |-> 0, error |-> "none"]
        ELSE ApplyTransaction(run[i - 1], txs[i])
  IN  run[Len(txs)]

(***************************************************************************)
(* apply_block_state: all the transactions, then the subsidy and the fees  *)
(* to the miner.  The caller's state is replaced only on success.          *)
(***************************************************************************)
RewardOverflows(run, miner) ==
  \/ run.fees > MaxU64 - BlockSubsidy
  \/ run.state[miner].balance > MaxU64 - (BlockSubsidy + run.fees)

Rewarded(run, miner) ==
  [run.state EXCEPT ![miner] = Credited(@, BlockSubsidy + run.fees)]

BlockStateError(state, block) ==
  LET run == RunTransactions(state, block.txs)
  IN  IF block.height = 0 THEN "genesis_has_no_transition"
      ELSE IF block.reward = NoAddress THEN "missing_reward_recipient"
      ELSE IF run.error # "none" THEN run.error
      ELSE IF RewardOverflows(run, block.reward) THEN "reward_overflow"
      ELSE "none"

ApplyBlockState(state, block) ==
  IF BlockStateError(state, block) # "none" THEN state
  ELSE Rewarded(RunTransactions(state, block.txs), block.reward)

=============================================================================
