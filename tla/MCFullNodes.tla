------------------------------ MODULE MCFullNodes ------------------------------
(***************************************************************************)
(* Small networks for FullNodes: chains that agree, lag behind or fork at  *)
(* every height up to MaxHeight.                                           *)
(***************************************************************************)
EXTENDS FullNodes

CONSTANTS n1, n2, n3, alice, bob, carol

MCAddresses == {alice, bob, carol}

B(prev, reward, txs) ==
  [chain_id |-> ChainId, height |-> prev.height + 1, prev |-> prev,
   time |-> prev.time + 1, reward |-> reward, pow |-> TRUE, tag |-> 0,
   txs |-> txs]

Pay(nonce) ==
  [sender |-> alice, recipient |-> bob, amount |-> 1, fee |-> 0,
   nonce |-> nonce]

MCIdRank(tx) == tx.nonce

(* A branch of `length` blocks on top of `base`, for one reward address. *)
Branch(base, reward, length) ==
  LET grown[k \in 0..length] ==
        IF k = 0 THEN << >>
        ELSE LET before == grown[k - 1]
             IN  Append(before, B(IF k = 1 THEN base ELSE before[k - 1],
                                  reward, << >>))
  IN  grown[length]

C1 == B(GenesisBlock, alice, << >>)
Fork(reward, length) == <<C1>> \o Branch(C1, reward, length)
PayBranch == <<C1, B(C1, carol, <<Pay(0)>>)>>

MCNode == {n1, n2, n3}

MCRewardAddress ==
  [n \in Node |-> IF n = n1 THEN alice ELSE IF n = n2 THEN bob ELSE carol]

MCBlock == {C1} \cup {Fork(r, 4)[k] : r \in {bob, carol}, k \in 1..5}
                \cup {PayBranch[2]}

(* A setting by the initial blocks of the three nodes. *)
Setting(targets, b1, b2, b3, finds, sessions, losses, submissions) ==
  [targets |-> targets,
   blocks |-> [n \in Node |-> IF n = n1 THEN b1 ELSE IF n = n2 THEN b2 ELSE b3],
   found |-> [n \in Node |-> IF n = n3 THEN 0 ELSE finds],
   sessions |-> sessions, faults |-> losses, submissions |-> submissions]

Pair == {<<n1, n2>>}

(* Two nodes on any two branches, one perhaps with a payment, and no fault. *)
Heal ==
  {Setting(Pair, Fork(bob, i), branch, << >>, 0, 1, 0, {}) :
     i \in 0..4, branch \in {PayBranch} \cup {Fork(carol, j) : j \in 0..4}}

(* A node between two longer peers. *)
Between ==
  {Setting({<<n1, n2>>, <<n3, n2>>}, Fork(bob, 2), << >>, Fork(carol, 3), 0, 2, 1, {})}

(* Two nodes that both mine. *)
Miners == {Setting(Pair, Fork(bob, 2), << >>, << >>, 1, 2, 2, {})}

(* A cycle of three nodes, and a payment. *)
Cycle ==
  {Setting({<<n1, n2>>, <<n2, n3>>, <<n1, n3>>}, <<C1>>, <<C1>>, <<C1>>, 0, 1, 0, {Pay(0)})}

AllSettings == Heal \cup Between \cup Miners \cup Cycle

(* A node that lags behind and loses its session once. *)
Interrupted == {Setting(Pair, Fork(bob, 2), << >>, << >>, 0, 2, 1, {})}
=============================================================================
