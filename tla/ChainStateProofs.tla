--------------------------- MODULE ChainStateProofs ---------------------------
(***************************************************************************)
(* apply_block_state keeps every balance and every nonce within 64 bits,   *)
(* for every number of addresses, every transaction list and every width.  *)
(***************************************************************************)
EXTENDS ChainState, SetInduction

(* The values the working copy, the fees and the error of the loop take. *)
Runs == [state : ChainStates, fees : U64,
         error : {"none", "invalid_account_nonce", "account_nonce_exhausted",
                  "insufficient_balance", "recipient_balance_overflow",
                  "fee_total_overflow"}]

(* A credit that fits keeps the state well typed, and so does the debit of *)
(* a sender who can pay and whose nonce can grow.                          *)
LEMMA CreditType ==
  ASSUME NEW state \in ChainStates, NEW a \in Addresses, NEW value \in Nat,
         state[a].balance + value <= MaxU64
  PROVE  [state EXCEPT ![a] = Credited(@, value)] \in ChainStates
<1>1. state[a].balance \in Nat /\ state[a].next_nonce \in U64
  BY StateAssumption DEF ChainStates, Accounts, U64
<1>2. Credited(state[a], value) \in Accounts
  BY <1>1, StateAssumption DEF Credited, Accounts, U64
<1>. QED  BY <1>2 DEF ChainStates

(* The sender debited, the account states stay account states.             *)
LEMMA DebitType ==
  ASSUME NEW state \in ChainStates, NEW tx \in Transactions,
         state[tx.sender].next_nonce # MaxU64,
         state[tx.sender].balance >= Debit(tx)
  PROVE  DebitSender(state, tx) \in ChainStates
<1>1. tx.sender \in Addresses /\ tx.amount \in Nat /\ tx.fee \in Nat
  BY StateAssumption DEF Transactions, U64
<1>2. state[tx.sender].balance \in U64 /\ state[tx.sender].next_nonce \in U64
  BY <1>1 DEF ChainStates, Accounts
<1>3. Debited(state[tx.sender], tx) \in Accounts
  BY <1>1, <1>2, StateAssumption DEF Debited, Accounts, U64, Debit
<1>. QED  BY <1>1, <1>3 DEF DebitSender, ChainStates

(* The transfer of one transaction that passes the checks of the loop body *)
(* neither underflows nor overflows an account (state.cpp:37-57).          *)
LEMMA TransferType ==
  ASSUME NEW run \in Runs, NEW tx \in Transactions,
         TransactionError(run, tx) = "none"
  PROVE  Transfer(run.state, tx) \in ChainStates
<1>. DEFINE debited == DebitSender(run.state, tx)
<1>1. /\ run.state \in ChainStates
      /\ tx.sender \in Addresses /\ tx.recipient \in Addresses
      /\ tx.amount \in Nat /\ tx.fee \in Nat
  BY StateAssumption DEF Runs, Transactions, U64
<1>2. /\ run.state[tx.sender].next_nonce # MaxU64
      /\ ~(run.state[tx.sender].balance < Debit(tx))
      /\ ~(debited[tx.recipient].balance > MaxU64 - tx.amount)
  BY DEF TransactionError
<1>3. debited \in ChainStates
  <2>1. run.state[tx.sender].balance \in Nat /\ Debit(tx) \in Nat
    BY <1>1, StateAssumption DEF ChainStates, Accounts, U64, Debit
  <2>. QED  BY <1>1, <1>2, <2>1, DebitType
<1>4. debited[tx.recipient].balance \in Nat
  <2>. HIDE DEF debited
  <2>. QED  BY <1>1, <1>3, StateAssumption DEF ChainStates, Accounts, U64
<1>5. debited[tx.recipient].balance + tx.amount <= MaxU64
  <2>. HIDE DEF debited
  <2>. QED  BY <1>1, <1>2, <1>4, StateAssumption
<1>. HIDE DEF debited
<1>6. [debited EXCEPT ![tx.recipient] = Credited(@, tx.amount)] \in ChainStates
  BY <1>1, <1>3, <1>5, CreditType
<1>. QED  BY <1>6 DEF Transfer, debited

(* apply_transaction returns account states and an error code.             *)
LEMMA ApplyTransactionType ==
  ASSUME NEW run \in Runs, NEW tx \in Transactions
  PROVE  ApplyTransaction(run, tx) \in Runs
<1>1. CASE run.error # "none"
  BY <1>1 DEF ApplyTransaction
<1>2. CASE run.error = "none" /\ TransactionError(run, tx) # "none"
  BY <1>2 DEF ApplyTransaction, Runs, Failed, TransactionError
<1>3. CASE run.error = "none" /\ TransactionError(run, tx) = "none"
  <2>1. Transfer(run.state, tx) \in ChainStates
    BY <1>3, TransferType
  <2>2. run.fees + tx.fee \in U64
    <3>1. run.fees \in U64 /\ tx.fee \in U64
      BY DEF Runs, Transactions
    <3>2. ~(run.fees > MaxU64 - tx.fee)
      BY <1>3 DEF TransactionError
    <3>. QED  BY <3>1, <3>2, StateAssumption DEF U64
  <2>. QED  BY <1>3, <2>1, <2>2 DEF ApplyTransaction, Runs
<1>. QED  BY <1>1, <1>2, <1>3

(***************************************************************************)
(* The recursive definition of RunTransactions is well founded: the run    *)
(* after i transactions is the loop body applied to the run after i - 1.   *)
(***************************************************************************)
LEMMA RunTransactionsUnfold ==
  ASSUME NEW state \in ChainStates, NEW txs \in Seq(Transactions)
  PROVE  \E run \in [0..Len(txs) -> Runs] :
           /\ run[0] = [state |-> state, fees |-> 0, error |-> "none"]
           /\ \A i \in 1..Len(txs) :
                run[i] = ApplyTransaction(run[i - 1], txs[i])
           /\ RunTransactions(state, txs) = run[Len(txs)]
<1>. DEFINE n == Len(txs)
            base == [state |-> state, fees |-> 0, error |-> "none"]
            Body(f, i) == IF i = 0 THEN base
                          ELSE ApplyTransaction(f[i - 1], txs[i])
            run == CHOOSE r : r = [i \in 0..n |-> Body(r, i)]
            S == {m \in Nat : m <= n => \E f \in [0..m -> Runs] :
                                  \A i \in 0..m : f[i] = Body(f, i)}
            R == {m \in Nat : m <= n => run[m] \in Runs}
<1>1. n \in Nat /\ base \in Runs /\ \A i \in 1..n : txs[i] \in Transactions
  BY StateAssumption DEF Runs, U64
<1>2. \A f, i : f \in Runs /\ i \in 1..n => ApplyTransaction(f, txs[i]) \in Runs
  BY <1>1, ApplyTransactionType
<1>3. n \in S
  <2>1. 0 \in S
    <3>. DEFINE f == [i \in 0..0 |-> base]
    <3>1. f \in [0..0 -> Runs] /\ \A i \in 0..0 : f[i] = Body(f, i)
      BY <1>1
    <3>. QED  BY <3>1
  <2>2. ASSUME NEW m \in Nat, m \in S PROVE m + 1 \in S
    <3>. SUFFICES ASSUME m + 1 <= n
                  PROVE  \E g \in [0..(m + 1) -> Runs] :
                           \A i \in 0..(m + 1) : g[i] = Body(g, i)
      OBVIOUS
    <3>1. PICK f \in [0..m -> Runs] : \A i \in 0..m : f[i] = Body(f, i)
      BY <1>1, <2>2
    <3>. DEFINE g == [i \in 0..(m + 1) |->
                        IF i <= m THEN f[i]
                        ELSE ApplyTransaction(f[m], txs[m + 1])]
    <3>2. m + 1 \in 1..n /\ f[m] \in Runs
      BY <1>1
    <3>3. ApplyTransaction(f[m], txs[m + 1]) \in Runs
      BY <1>2, <3>2
    <3>4. g \in [0..(m + 1) -> Runs]
      BY <3>3
    <3>5. \A i \in 0..(m + 1) : g[i] = Body(g, i)
      BY <3>1
    <3>. QED  BY <3>4, <3>5
  <2>. HIDE DEF S
  <2>. QED  BY <1>1, <2>1, <2>2, InductionOnSet
<1>4. run = [i \in 0..n |-> Body(run, i)]
  <2>1. PICK f \in [0..n -> Runs] : \A i \in 0..n : f[i] = Body(f, i)
    BY <1>1, <1>3
  <2>2. f = [i \in 0..n |-> Body(f, i)]
    BY <2>1
  <2>. HIDE DEF Body
  <2>. QED  BY <2>2
<1>. HIDE DEF run
<1>5. /\ run[0] = base
      /\ \A i \in 1..n : run[i] = ApplyTransaction(run[i - 1], txs[i])
  BY <1>1, <1>4
<1>6. \A m \in Nat : m \in R
  <2>1. 0 \in R
    BY <1>1, <1>5
  <2>2. ASSUME NEW m \in Nat, m \in R PROVE m + 1 \in R
    BY <1>1, <1>2, <1>5, <2>2
  <2>. HIDE DEF R
  <2>. QED  BY <2>1, <2>2, InductionOnSet
<1>7. run \in [0..n -> Runs]
  BY <1>1, <1>4, <1>6
<1>8. RunTransactions(state, txs) = run[n]
  BY DEF RunTransactions, run
<1>. QED  BY <1>5, <1>7, <1>8

(***************************************************************************)
(* Whatever block it is given, apply_block_state leaves a state whose      *)
(* balances and nonces fit 64 bits: no arithmetic of state.cpp wraps.      *)
(***************************************************************************)
THEOREM ApplyBlockStateType ==
  ASSUME NEW state \in ChainStates, NEW block,
         block.txs \in Seq(Transactions),
         block.height # 0 => block.reward \in Addresses
  PROVE  ApplyBlockState(state, block) \in ChainStates
<1>. DEFINE run == RunTransactions(state, block.txs)
<1>1. CASE BlockStateError(state, block) # "none"
  BY <1>1 DEF ApplyBlockState
<1>2. CASE BlockStateError(state, block) = "none"
  <2>1. run \in Runs
    <3>1. PICK r \in [0..Len(block.txs) -> Runs] : run = r[Len(block.txs)]
      BY RunTransactionsUnfold
    <3>2. Len(block.txs) \in 0..Len(block.txs)
      OBVIOUS
    <3>. QED  BY <3>1, <3>2
  <2>2. /\ block.reward \in Addresses
        /\ ~(run.fees > MaxU64 - BlockSubsidy)
        /\ ~(run.state[block.reward].balance > MaxU64 - (BlockSubsidy + run.fees))
    BY <1>2 DEF BlockStateError, RewardOverflows
  <2>. HIDE DEF run
  <2>3. /\ run.state \in ChainStates
        /\ run.fees \in Nat
        /\ run.state[block.reward].balance \in Nat
    BY <2>1, <2>2, StateAssumption DEF Runs, ChainStates, Accounts, U64
  <2>4. /\ BlockSubsidy + run.fees \in Nat
        /\ run.state[block.reward].balance + (BlockSubsidy + run.fees) <= MaxU64
    <3>. DEFINE fees == run.fees
                balance == run.state[block.reward].balance
    <3>1. /\ fees \in Nat /\ balance \in Nat /\ BlockSubsidy \in Nat /\ MaxU64 \in Nat
          /\ ~(balance > MaxU64 - (BlockSubsidy + fees))
      BY <2>2, <2>3, StateAssumption
    <3>. HIDE DEF fees, balance
    <3>2. BlockSubsidy + fees \in Nat /\ balance + (BlockSubsidy + fees) <= MaxU64
      BY <3>1
    <3>. QED  BY <3>2 DEF fees, balance
  <2>5. Rewarded(run, block.reward) \in ChainStates
    BY <2>2, <2>3, <2>4, CreditType DEF Rewarded
  <2>. QED  BY <1>2, <2>5 DEF ApplyBlockState, run
<1>. QED  BY <1>1, <1>2

=============================================================================
