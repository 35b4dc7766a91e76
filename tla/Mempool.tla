-------------------------------- MODULE Mempool --------------------------------
(***************************************************************************)
(* bbc::mempool::Mempool (src/mempool/mempool.cpp): admission of pending   *)
(* transactions against the confirmed account state, revalidation, and the *)
(* selection of the transactions of a block template.                      *)
(*                                                                         *)
(* A Mempool is a record, because MempoolStore works on copies:            *)
(*   state  chain_state_, the confirmed state it validates against         *)
(*   txs    transactions_, in arrival order                                *)
(***************************************************************************)
EXTENDS ChainState

CONSTANTS
  MaximumMempoolTransactions,   \* maximum_mempool_transactions
  IdRank(_)                     \* the byte order of transaction ids

ASSUME MempoolAssumption == MaximumMempoolTransactions \in Nat

NewMempool(state) == [state |-> state, txs |-> << >>]

-----------------------------------------------------------------------------
(***************************************************************************)
(* The loop of add() over the pending transactions: it stops at the first  *)
(* one that has the same id or the same sender and nonce, and otherwise    *)
(* adds up what the sender has reserved and counts the sender's entries.   *)
(***************************************************************************)
ScanPending(scan, pending, tx) ==
  IF scan.error # "none" THEN scan
  ELSE IF pending = tx
       THEN [error |-> "duplicate_transaction", reserved |-> scan.reserved,
             count |-> scan.count]
  ELSE IF pending.sender # tx.sender THEN scan
  ELSE IF pending.nonce = tx.nonce
       THEN [error |-> "account_nonce_conflict", reserved |-> scan.reserved,
             count |-> scan.count]
  ELSE IF scan.reserved > MaxU64 - Debit(pending)
       THEN [error |-> "insufficient_balance", reserved |-> scan.reserved,
             count |-> scan.count]
  ELSE [error |-> "none", reserved |-> scan.reserved + Debit(pending),
        count |-> scan.count + 1]

Scan(pool, tx) ==
  LET scan[i \in 0..Len(pool.txs)] ==
        IF i = 0 THEN [error |-> "none", reserved |-> 0, count |-> 0]
        ELSE ScanPending(scan[i - 1], pool.txs[i], tx)
  IN  scan[Len(pool.txs)]

(* Mutant: one more than the limit. *)
FullPast(pool) == Len(pool.txs) > MaximumMempoolTransactions

Full(pool) == Len(pool.txs) >= MaximumMempoolTransactions

(* The nonce follows the sender's pending ones, and the balance pays for all. *)
ExpectedNonce(account, scan, tx) ==
  tx.nonce = account.next_nonce + scan.count

Affordable(account, scan, tx) ==
  /\ scan.reserved <= account.balance
  /\ Debit(tx) <= account.balance - scan.reserved

AddError(pool, tx) ==
  LET account == pool.state[tx.sender]
      scan    == Scan(pool, tx)
  IN  IF Full(pool) THEN "full"
      ELSE IF scan.error # "none" THEN scan.error
      ELSE IF account.next_nonce = MaxU64
              \/ scan.count > MaxU64 - account.next_nonce
           THEN "account_nonce_exhausted"
      ELSE IF ~ExpectedNonce(account, scan, tx)
           THEN "unexpected_account_nonce"
      ELSE IF ~Affordable(account, scan, tx) THEN "insufficient_balance"
      ELSE "none"

Add(pool, tx) ==
  IF AddError(pool, tx) # "none" THEN pool
  ELSE [state |-> pool.state, txs |-> Append(pool.txs, tx)]

(* add() of every transaction of a list, the refused ones left out. *)
AddAll(pool, txs) ==
  LET added[i \in 0..Len(txs)] ==
        IF i = 0 THEN pool ELSE Add(added[i - 1], txs[i])
  IN  added[Len(txs)]

Revalidate(pool, state) == AddAll(NewMempool(state), pool.txs)

(* The transactions of detached blocks, oldest first, put back into a pool. *)
BlockTransactions(blocks) ==
  LET upto[i \in 0..Len(blocks)] ==
        IF i = 0 THEN << >> ELSE upto[i - 1] \o blocks[i].txs
  IN  upto[Len(blocks)]

Restored(state, detached) ==
  AddAll(NewMempool(state), BlockTransactions(detached))

-----------------------------------------------------------------------------
(***************************************************************************)
(* select(): the pending transactions of a sender form a queue in arrival  *)
(* order; the head with the highest fee is taken, the smaller id first     *)
(* among equal fees, until the block is full or the queues are empty.      *)
(***************************************************************************)
(* Mutant: any transaction not yet taken is a candidate. *)
AnyRemaining(pool, taken) ==
  {i \in 1..Len(pool.txs) : \A n \in 1..Len(taken) : taken[n] # i}

Heads(pool, taken) ==
  LET Left(i) == \A n \in 1..Len(taken) : taken[n] # i
  IN  {i \in 1..Len(pool.txs) :
         /\ Left(i)
         /\ \A j \in 1..(i - 1) :
              pool.txs[j].sender = pool.txs[i].sender => ~Left(j)}

Preferred(tx, other) ==
  \/ tx.fee > other.fee
  \/ tx.fee = other.fee /\ IdRank(tx) <= IdRank(other)

Best(pool, heads) ==
  CHOOSE i \in heads : \A j \in heads : Preferred(pool.txs[i], pool.txs[j])

Select(pool, maximum) ==
  LET taken[n \in 0..maximum] ==
        IF n = 0 THEN << >>
        ELSE LET heads == Heads(pool, taken[n - 1])
             IN  IF heads = {} THEN taken[n - 1]
                 ELSE Append(taken[n - 1], Best(pool, heads))
  IN  [k \in 1..Len(taken[maximum]) |-> pool.txs[taken[maximum][k]]]

=============================================================================
