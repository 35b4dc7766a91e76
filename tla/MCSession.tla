------------------------------- MODULE MCSession -------------------------------
(***************************************************************************)
(* Session in these cases: a sends one message of each size that the       *)
(* program builds; a sends several large ones past the limit of the queue, *)
(* or through a connection that damages one; a sends several PINGs, or     *)
(* each end one, on a connection that may fall silent; the ends are not    *)
(* compatible; a sends a block as it was made or altered.                  *)
(***************************************************************************)
EXTENDS Session

Node == [chain |-> "devnet", minimum |-> 1, maximum |-> 1, services |-> {"full"}]

Both(hello) == [s \in Side |-> hello]

Calm ==
  [hello |-> Both(Node), messages |-> {}, count |-> [s \in Side |-> 1],
   pings |-> [s \in Side |-> 0], block |-> None,
   cut |-> FALSE, silence |-> FALSE, damage |-> FALSE]

EverySize ==
  [Calm EXCEPT !.messages = Built({0, 1, 1000}, {1, 2, 32}), !.count["a"] = 2,
               !.cut = TRUE]

Large ==
  Messages({"transaction"}, {SignedTransactionSize})
    \cup Messages({"block"}, {MaximumBlockSize})
    \cup Messages({"blocks"}, {BatchSize(4, 1000)})

Crowded == [Calm EXCEPT !.messages = Large, !.count["a"] = 5, !.cut = TRUE]

Noisy ==
  [Calm EXCEPT !.messages = Large, !.count["a"] = 2, !.pings["b"] = 1,
               !.damage = TRUE]

Pinging == [Calm EXCEPT !.pings["a"] = 2, !.silence = TRUE]

Mutual == [Calm EXCEPT !.pings = [s \in Side |-> 1], !.silence = TRUE]

Peers ==
  {[Node EXCEPT !.chain = "regtest"], [Node EXCEPT !.minimum = 2, !.maximum = 2],
   [Node EXCEPT !.minimum = 0], [Node EXCEPT !.services = {}],
   [Node EXCEPT !.maximum = 2]}

Strange ==
  {[Calm EXCEPT !.hello["b"] = hello, !.messages = Large,
                !.count = [s \in Side |-> 2]] : hello \in Peers}

(* Blocks of up to six transactions, each with what it may be changed to. *)
Transfer(n) == SignTransaction("alice", "devnet", "bob", 1, 1, n)
Foreign == SignTransaction("alice", "regtest", "bob", 1, 1, 0)

Original(n) ==
  CreateBlock([chain |-> "devnet", height |-> 1, prev |-> "genesis",
               reward |-> "bob", time |-> 1, target |-> "fixed", nonce |-> 0,
               txs |-> [i \in 1..n |-> Transfer(i)]])

Repeated(e, k) ==
  [e EXCEPT !.txs = @ \o SubSeq(@, Len(@) - k + 1, Len(@)), !.count = @ + k]

Altered(e) ==
  {[e EXCEPT !.magic = None], [e EXCEPT !.version = 2],
   [e EXCEPT !.chain = "other"], [e EXCEPT !.chain = "regtest"],
   [e EXCEPT !.height = 0], [e EXCEPT !.prev = Zero],
   [e EXCEPT !.root = <<"empty">>], [e EXCEPT !.reward = Zero],
   [e EXCEPT !.time = 2], [e EXCEPT !.more = 1],
   SerializeBlock(WithMiningNonce(DecodedBlock(e), 1)),
   [e EXCEPT !.count = @ + 1], [e EXCEPT !.count = 1001],
   [e EXCEPT !.txs = Append(@, Foreign), !.count = @ + 1]}
    \cup {Repeated(e, k) : k \in 0..(IF Len(e.txs) < 2 THEN Len(e.txs) ELSE 2)}
    \cup {[e EXCEPT !.txs[i] = tx] : i \in 1..Len(e.txs),
            tx \in {Transfer(9), [Transfer(1) EXCEPT !.amount = 2],
                    [Transfer(1) EXCEPT !.sender = "bob"],
                    [Transfer(1) EXCEPT !.amount = 0],
                    [Transfer(1) EXCEPT !.fee = MaxU64],
                    [Transfer(1) EXCEPT !.version = 2],
                    [Transfer(1) EXCEPT !.magic = None]}}

Encoded(n) ==
  {[Calm EXCEPT !.block = Original(n), !.count["a"] = 2,
                !.messages = {[type |-> "block", size |-> EncodedSize(e),
                               data |-> e]}] :
     e \in Altered(SerializeBlock(Original(n)))}

MCSettings ==
  {EverySize, Crowded, Noisy, Pinging, Mutual} \cup Strange
    \cup UNION {Encoded(n) : n \in {0, 1, 3, 6}}

=============================================================================
