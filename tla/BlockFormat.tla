------------------------------ MODULE BlockFormat ------------------------------
(***************************************************************************)
(* The encodings of transactions (src/transaction/transaction.cpp) and of  *)
(* blocks (src/chain/block.cpp), field by field: what is built, the        *)
(* transaction root, and the tests of the decoders in their order.  A hash *)
(* is the term it is the hash of, a signature the key and what it signed;  *)
(* byte order and offsets are left out.                                    *)
(***************************************************************************)
EXTENDS Protocol

CONSTANTS
  MaxU64,     \* the largest 64-bit value
  Networks,   \* the chain ids of network_parameters()
  Zero        \* thirty-two zero bytes

MaximumTransactionsPerBlock == 1000

Elements(s) == {s[i] : i \in 1..Len(s)}

-----------------------------------------------------------------------------
(* serialize_unsigned(), and sign_transaction() with a key. *)
Unsigned(tx) == [tx EXCEPT !.signature = None]

FieldsError(tx) ==
  IF tx.chain \notin Networks THEN "unsupported_chain"
  ELSE IF tx.amount = 0 THEN "zero_amount"
  ELSE IF tx.fee > MaxU64 - tx.amount THEN "amount_fee_overflow"
  ELSE "none"

SignTransaction(key, chain, recipient, amount, fee, nonce) ==
  LET unsigned == [magic |-> "BBCT", version |-> 1, chain |-> chain,
                   sender |-> key, recipient |-> recipient, amount |-> amount,
                   fee |-> fee, nonce |-> nonce, signature |-> None]
  IN  IF FieldsError(unsigned) # "none" THEN None
      ELSE [unsigned EXCEPT !.signature = [by |-> key, over |-> unsigned]]

(* deserialize_transaction(), of as many bytes as a transaction has. *)
TransactionError(tx) ==
  IF tx.magic # "BBCT" THEN "invalid_magic"
  ELSE IF tx.version # 1 THEN "unsupported_version"
  ELSE IF FieldsError(tx) # "none" THEN FieldsError(tx)
  ELSE IF tx.signature # [by |-> tx.sender, over |-> Unsigned(tx)]
          THEN "invalid_signature"
  ELSE "none"

-----------------------------------------------------------------------------
(***************************************************************************)
(* calculate_transaction_root(): the leaves, and level by level the nodes  *)
(* of two neighbours, the last of an odd level with itself.                *)
(***************************************************************************)
HashLeaf(tx) == <<"leaf", tx>>
HashNode(left, right) == <<"node", left, right>>

NextLevel(level) ==
  IF Len(level) = 1 THEN level
  ELSE [i \in 1..((Len(level) + 1) \div 2) |->
          HashNode(level[2 * i - 1],
                   level[IF 2 * i > Len(level) THEN 2 * i - 1 ELSE 2 * i])]

TransactionRoot(txs) ==
  LET Level[k \in 0..Len(txs)] ==
        IF k = 0 THEN [i \in 1..Len(txs) |-> HashLeaf(txs[i])]
        ELSE NextLevel(Level[k - 1])
  IN  IF txs = << >> THEN <<"empty">> ELSE Level[Len(txs)][1]

(* Mutant: a transaction may occur twice. *)
ValidateWithDuplicates(txs, chain) ==
  IF Len(txs) > MaximumTransactionsPerBlock THEN "too_many_transactions"
  ELSE IF \E i \in 1..Len(txs) : txs[i].chain # chain THEN "invalid_transaction"
  ELSE "none"

(* validate_transactions() *)
ValidateTransactions(txs, chain) ==
  IF Len(txs) > MaximumTransactionsPerBlock THEN "too_many_transactions"
  ELSE IF \E i \in 1..Len(txs) :
            /\ txs[i].chain # chain
            /\ \A j, k \in 1..(i - 1) : txs[j] = txs[k] => j = k
          THEN "invalid_transaction"
  ELSE IF \E i, j \in 1..Len(txs) : i # j /\ txs[i] = txs[j]
          THEN "duplicate_transaction"
  ELSE "none"

-----------------------------------------------------------------------------
(* create_block(), from its fields: None when it refuses them. *)
CreateBlock(f) ==
  IF \/ f.chain \notin Networks \/ f.height = 0 \/ f.prev = Zero
     \/ f.reward = Zero \/ ValidateTransactions(f.txs, f.chain) # "none"
    THEN None
    ELSE [chain |-> f.chain, height |-> f.height, prev |-> f.prev,
          root |-> TransactionRoot(f.txs), reward |-> f.reward,
          time |-> f.time, target |-> f.target, nonce |-> f.nonce,
          txs |-> f.txs]

Genesis(chain) ==
  [chain |-> chain, height |-> 0, prev |-> Zero, root |-> TransactionRoot(<< >>),
   reward |-> Zero, time |-> 0, target |-> "maximum", nonce |-> 0,
   txs |-> << >>]

(* Block::serialize(): the header with the number of transactions, then    *)
(* these.  more counts bytes after the last whole transaction.             *)
SerializeBlock(b) ==
  [magic |-> "BBCB", version |-> 1, chain |-> b.chain, height |-> b.height,
   prev |-> b.prev, root |-> b.root, reward |-> b.reward, time |-> b.time,
   target |-> b.target, nonce |-> b.nonce, count |-> Len(b.txs),
   txs |-> b.txs, more |-> 0]

EncodedSize(e) == BlockSize(Len(e.txs)) + e.more

(* with_mining_nonce() *)
WithMiningNonce(b, nonce) == IF b.height = 0 THEN b ELSE [b EXCEPT !.nonce = nonce]

(* The Block that deserialize_block() builds from the fields. *)
DecodedBlock(e) ==
  [chain |-> e.chain, height |-> e.height, prev |-> e.prev, root |-> e.root,
   reward |-> e.reward, time |-> e.time, target |-> e.target,
   nonce |-> e.nonce, txs |-> e.txs]

(* deserialize_block(), the tests in their order. *)
BlockError(e) ==
  IF EncodedSize(e) > MaximumBlockSize THEN "invalid_size"
  ELSE IF e.magic # "BBCB" THEN "invalid_magic"
  ELSE IF e.version # 1 THEN "unsupported_version"
  ELSE IF e.chain \notin Networks THEN "unsupported_chain"
  ELSE IF e.count > MaximumTransactionsPerBlock THEN "too_many_transactions"
  ELSE IF EncodedSize(e) # BlockSize(e.count) THEN "invalid_size"
  ELSE IF \E i \in 1..e.count : \/ TransactionError(e.txs[i]) # "none"
                                \/ e.txs[i].chain # e.chain
          THEN "invalid_transaction"
  ELSE IF ValidateTransactions(e.txs, e.chain) # "none"
          THEN ValidateTransactions(e.txs, e.chain)
  ELSE IF TransactionRoot(e.txs) # e.root THEN "invalid_transaction_root"
  ELSE IF e.height = 0 /\ e # SerializeBlock(Genesis(e.chain)) THEN "invalid_genesis"
  ELSE IF e.height # 0 /\ e.prev = Zero THEN "invalid_previous_hash"
  ELSE IF e.height # 0 /\ e.reward = Zero THEN "invalid_reward_recipient"
  ELSE "none"

(* The id of a block: its header, without the transactions. *)
BlockId(b) == [SerializeBlock(b) EXCEPT !.txs = << >>]

=============================================================================
