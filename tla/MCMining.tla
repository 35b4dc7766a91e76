-------------------------------- MODULE MCMining --------------------------------
(* One miner, or one miner and its source, on a chain of a few blocks. *)
EXTENDS Mining

(* A persistent full node that mines, with any two control requests. *)
FullNode ==
  [local |-> TRUE, scenario |-> FALSE, own |-> {"m"}, other |-> {"o"},
   synced |-> TRUE, exhaustible |-> FALSE, forks |-> FALSE, patient |-> FALSE,
   connected |-> FALSE, heights |-> 2, calls |-> 2, requests |-> 4, sessions |-> 0,
   methods |-> {"start", "continuous", "stop", "shutdown"}]

(* The same, left to itself on a chain that forks. *)
Forking == [FullNode EXCEPT !.forks = TRUE, !.calls = 0, !.exhaustible = TRUE]

(* A mining-only process under the scenario runner. *)
Runner ==
  [local |-> FALSE, scenario |-> TRUE, own |-> {"m", "n"}, other |-> {"o"},
   synced |-> FALSE, exhaustible |-> FALSE, forks |-> FALSE, patient |-> TRUE,
   connected |-> TRUE, heights |-> 3, calls |-> 3, requests |-> 3, sessions |-> 1,
   methods |-> {"start", "defer", "begin", "shutdown"}]

(* A persistent mining-only process that loses its session and is stopped. *)
Faulty ==
  [local |-> FALSE, scenario |-> FALSE, own |-> {"m"}, other |-> {"o"},
   synced |-> TRUE, exhaustible |-> FALSE, forks |-> FALSE, patient |-> FALSE,
   connected |-> FALSE, heights |-> 1, calls |-> 1, requests |-> 1, sessions |-> 2,
   methods |-> {"stop", "shutdown"}]

(* One that keeps its session, and is stopped while it asks again. *)
Stopped ==
  [Faulty EXCEPT !.connected = TRUE, !.sessions = 1, !.requests = 2, !.synced = FALSE]

(* The only miner of its network, left alone with its source. *)
Alone ==
  [local |-> FALSE, scenario |-> FALSE, own |-> {"m"}, other |-> {},
   synced |-> FALSE, exhaustible |-> FALSE, forks |-> FALSE, patient |-> FALSE,
   connected |-> TRUE, heights |-> 2, calls |-> 2, requests |-> 6, sessions |-> 1,
   methods |-> {}]

AllSettings == {FullNode, Forking, Runner, Faulty, Stopped}
AloneOnly == {Alone}
=============================================================================
