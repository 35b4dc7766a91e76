----------------------------- MODULE MCBlockchain -----------------------------
(***************************************************************************)
(* A small universe of blocks for Blockchain: two competing branches of    *)
(* height 3 with transfers on them, a second child at heights 2 and 3, and *)
(* one block for every reason append() has to refuse it.                   *)
(***************************************************************************)
EXTENDS Blockchain

CONSTANTS alice, bob

Tx(s, r, amount, fee, nonce) ==
  [sender |-> s, recipient |-> r, amount |-> amount, fee |-> fee,
   nonce |-> nonce]

B(prev, reward, txs, tag) ==
  [chain_id |-> ChainId, height |-> prev.height + 1, prev |-> prev,
   time |-> prev.time + 1, reward |-> reward, pow |-> TRUE, tag |-> tag,
   txs |-> txs]

MCAddresses == {alice, bob}

A1 == B(GenesisBlock, alice, << >>, 0)
A2 == B(A1, bob, <<Tx(alice, bob, 2, 1, 0), Tx(alice, alice, 1, 0, 1)>>, 0)
A3 == B(A2, alice, <<Tx(bob, alice, 4, 2, 0)>>, 0)
C2 == B(A1, alice, << >>, 1)
C3 == B(C2, bob, <<Tx(alice, bob, 7, 1, 0)>>, 0)
B1 == B(GenesisBlock, bob, << >>, 0)
B2 == B(B1, bob, <<Tx(bob, alice, 3, 1, 0)>>, 0)
B3 == B(B2, bob, << >>, 0)

MCBlock ==
  {A1, A2, A3, C2, C3, B1, B2, B3, GenesisBlock,
   [B1 EXCEPT !.chain_id = "other"],
   [A2 EXCEPT !.height = 3],
   [A2 EXCEPT !.time = 1],
   [B2 EXCEPT !.pow = FALSE],
   B(B1, alice, <<Tx(bob, alice, 3, 1, 1)>>, 0),
   B(A1, alice, <<Tx(bob, alice, 1, 0, 0)>>, 0),
   B(C2, alice, << >>, 0)}
=============================================================================
