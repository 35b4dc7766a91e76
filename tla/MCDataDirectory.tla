---------------------------- MODULE MCDataDirectory ----------------------------
(***************************************************************************)
(* DataDirectory with two accounts.  M1 pays Alice, whose transactions are *)
(* a queue of three, one more than the mempool holds, with a competing     *)
(* first one.  A2 confirms the first; B3 and C3 reorganize it away, B3 for *)
(* nothing, so that it has to come back before the second and drives the   *)
(* third out of a full pool, and C3 for its competitor.                    *)
(***************************************************************************)
EXTENDS DataDirectory

CONSTANTS alice, bob

Tx(s, r, amount, fee, nonce) ==
  [sender |-> s, recipient |-> r, amount |-> amount, fee |-> fee,
   nonce |-> nonce]

B(prev, reward, txs) ==
  [chain_id |-> ChainId, height |-> prev.height + 1, prev |-> prev,
   time |-> prev.time + 1, reward |-> reward, pow |-> TRUE, tag |-> 1,
   txs |-> txs]

MCAddresses == {alice, bob}

a0 == Tx(alice, bob, 2, 0, 0)
a0x == Tx(alice, bob, 1, 1, 0)
a1 == Tx(alice, alice, 1, 1, 1)
a2 == Tx(alice, bob, 1, 0, 2)

MCSubmissions == {a0, a0x, a1, a2}

(* The order of ids is any total order: here the nonce, then the amount. *)
MCIdRank(tx) == 10 * tx.nonce + tx.amount

M1 == B(GenesisBlock, alice, << >>)
A2 == B(M1, bob, <<a0>>)
B2 == B(M1, alice, << >>)
B3 == B(B2, bob, << >>)
C3 == B(B2, bob, <<a0x>>)

MCBlock == {M1, A2, B2, B3, C3}

(* A node that is stopped, killed and restarted, and commands in between. *)
ByAll ==
  [kinds |-> Kinds \ {"candidate"}, submissions |-> MCSubmissions,
   blocks |-> MCBlock]

(* Commands alone, and blocks that are built, mined and added as files. *)
ByFiles ==
  [kinds |-> {"init", "add", "submit", "candidate"}, submissions |-> {a0, a1},
   blocks |-> {M1}]

MCWorkloads == {ByAll, ByFiles}

=============================================================================
