---------------------------- MODULE MCControlServer ----------------------------
(* One process: a persistent node or a scenario actor that serves two        *)
(* connections, starts with any of many configuration documents, and starts  *)
(* that share a token file with two others.                                  *)
EXTENDS ControlServer

CONSTANTS r1, r2, r3, c1, c2

MCRuns == {r1, r2, r3}
MCClients == {c1, c2}

At(host, port) == [host |-> host, port |-> port]
Hosts == {"127.0.0.1", "loopback", "private", "public", "reserved", "name", "invalid"}

-----------------------------------------------------------------------------
(* Configuration documents.                                                  *)
RpcSection == [listen |-> At("127.0.0.1", 3), token |-> "token"]
NodeSection(scope, listen, peers) ==
  [listen |-> At(listen, 1), peers |-> peers, scope |-> scope]
MinerSection(source, auto) == [reward |-> "address", source |-> source, auto |-> auto]

Wallet ==
  [file |-> "read", schema |-> 1, unknown |-> FALSE, name |-> "node", network |-> "devnet",
   roles |-> <<"wallet">>, source |-> "config", wallet |-> "wallet", data |-> "data",
   full_node |-> None, miner |-> None, rpc |-> None]
FullNode ==
  [Wallet EXCEPT !.roles = <<"wallet", "full_node">>, !.rpc = RpcSection,
                 !.full_node = NodeSection("lan", "private", <<At("private", 2)>>)]
LocalMiner(auto) ==
  [FullNode EXCEPT !.roles = <<"wallet", "full_node", "miner">>,
                   !.miner = MinerSection(None, auto)]
RemoteMiner ==
  [Wallet EXCEPT !.roles = <<"miner", "wallet">>, !.rpc = RpcSection,
                 !.miner = MinerSection(At("public", 2), TRUE)]

Valid == {Wallet, FullNode, LocalMiner(TRUE), RemoteMiner}

(* Each document with one member wrong, or merely different.                 *)
Altered(d) ==
  UNION {{[d EXCEPT !.file = v] : v \in {"io_error", "file_too_large", "invalid_json"}},
         {[d EXCEPT !.schema = v] : v \in {0, 2}},
         {[d EXCEPT !.unknown = TRUE], [d EXCEPT !.name = "invalid"],
          [d EXCEPT !.network = "invalid"]},
         {[d EXCEPT !.roles = v] : v \in
            {<< >>, <<"wallet">>, <<"wallet", "wallet">>, <<"full_node">>, <<"miner", "wallet">>,
             <<"wallet", "full_node">>, <<"wallet", "miner", "other">>}},
         {[d EXCEPT !.wallet = v] : v \in {None, "invalid", "config", "data", "token"}},
         {[d EXCEPT !.data = v] : v \in {None, "invalid", "config", "token"}},
         {[d EXCEPT !.full_node = v] : v \in
            {None, NodeSection("other", "private", << >>),
             NodeSection("lan", "private", <<At("private", 2), At("private", 2)>>),
             NodeSection("lan", "private", <<At("private", 1)>>),
             NodeSection("lan", "private", [i \in 1..64 |-> At("private", i + 1)]),
             NodeSection("lan", "private", [i \in 1..65 |-> At("private", i + 1)])}},
         {[d EXCEPT !.miner = v] : v \in
            {None, MinerSection(None, FALSE), MinerSection(At("127.0.0.1", 3), TRUE),
             [MinerSection(None, TRUE) EXCEPT !.reward = "invalid"]}},
         {[d EXCEPT !.rpc = v] : v \in
            {None, [RpcSection EXCEPT !.token = "wallet"], [RpcSection EXCEPT !.token = None]}
            \cup {[RpcSection EXCEPT !.listen = At("127.0.0.1", p)] : p \in {0, 1, 65535, 65536}}}}

(* Every scope with every listener and peer, and every source.               *)
Addressed ==
  {[FullNode EXCEPT !.full_node = NodeSection(scope, listen, <<At(peer, 2)>>)] :
     scope \in {None, "loopback", "lan", "internet"}, listen \in Hosts, peer \in Hosts}
  \cup {[RemoteMiner EXCEPT !.miner.source = At(host, 2)] : host \in Hosts}
  \cup {[FullNode EXCEPT !.rpc.listen = At(host, 3)] : host \in Hosts}
  \cup {[FullNode EXCEPT !.full_node.listen = At("127.0.0.1", p)] : p \in {0, 3, 65536}}

Documents == Valid \cup UNION {Altered(d) : d \in Valid} \cup Addressed

Actor(roles) ==
  [file |-> "read", schema |-> 1, name |-> "actor", roles |-> roles, data |-> "data",
   network |-> "devnet", control |-> At("127.0.0.1", 0), token |-> "configured",
   p2p |-> IF "full_node" \in Elements(roles) THEN At("127.0.0.1", 0) ELSE None]
Actors ==
  {Actor(roles) : roles \in
     {<<"wallet">>, <<"full_node">>, <<"wallet", "miner">>, <<"miner">>, << >>,
      <<"miner", "miner">>, <<"full_node", "other">>}}
  \cup {[Actor(<<"full_node">>) EXCEPT !.p2p = v] :
          v \in {None, At("127.0.0.1", 65536), At("loopback", 0)}}
  \cup {[Actor(<<"wallet">>) EXCEPT !.p2p = At("127.0.0.1", 0)],
        [Actor(<<"wallet">>) EXCEPT !.token = "invalid"],
        [Actor(<<"wallet">>) EXCEPT !.data = "invalid"],
        [Actor(<<"wallet">>) EXCEPT !.network = "invalid"],
        [Actor(<<"wallet">>) EXCEPT !.name = "invalid"],
        [Actor(<<"wallet">>) EXCEPT !.schema = 2],
        [Actor(<<"wallet">>) EXCEPT !.file = "io_error"]}
  \cup {[Actor(<<"wallet">>) EXCEPT !.control = v] :
          v \in {None, At("127.0.0.1", 65536), At("private", 0)}}

-----------------------------------------------------------------------------
Process(scenario, document, file, starts, clients) ==
  [scenario |-> scenario, document |-> document, file |-> file, starts |-> starts,
   clients |-> clients]

Persistent(d, clients) == Process(FALSE, d, "token", {}, clients)
Controlled(d, clients) == Process(TRUE, d, "none", {}, clients)

Serving ==
  {Persistent(LocalMiner(FALSE), MCClients), Persistent(LocalMiner(TRUE), {c1}),
   Persistent(FullNode, {c1}), Persistent(RemoteMiner, {c1}), Controlled(Actor(<<"wallet", "miner">>), {c1}),
   Controlled(Actor(<<"full_node">>), MCClients)}

Starting ==
  {Process(FALSE, d, "none", {}, {}) : d \in Documents}
  \cup {Process(TRUE, d, "none", {}, {}) : d \in Actors}
  \cup {Process(FALSE, FullNode, file, {r2, r3}, {}) : file \in {"none", "empty", "token", "other"}}

MCProcesses == Serving \cup Starting

(* A persistent miner that is asked to shut down.                            *)
MCMiner == {Persistent(LocalMiner(FALSE), {c1})}
================================================================================
