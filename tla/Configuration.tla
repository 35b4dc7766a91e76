---------------------------- MODULE Configuration ----------------------------
(***************************************************************************)
(* The configuration of a node process: load_application_config() in       *)
(* src/config/application_config.cpp, load_scenario_actor_config() in      *)
(* src/node/scenario_actor_config.cpp, and what control_server.cpp makes   *)
(* of them.  A document is a record of its members, None where one is      *)
(* absent.  A host is the class of its address: "127.0.0.1", another       *)
(* "loopback" one, "private" (RFC 1918), "public", "reserved" (the         *)
(* unspecified, broadcast and multicast addresses), "name" for one that is *)
(* not numeric, and "invalid" for text that is no host.  The tests of      *)
(* single members (its JSON type, its characters, its length) are one      *)
(* test, whether it is "invalid".                                          *)
(***************************************************************************)
EXTENDS Integers, Sequences

CONSTANT None   \* no value

MaximumInitialPeers == 64
MaximumPort == 65535   \* of a 16-bit integer

Elements(s) == {s[i] : i \in 1..Len(s)}
Distinct(s) == \A i, j \in 1..Len(s) : s[i] = s[j] => i = j

(* parse_endpoint() accepts it. *)
IsEndpoint(e) ==
  e # None /\ e.host # "invalid" /\ e.port \in 1..MaximumPort

IsPath(p) == p \notin {None, "invalid"}

-----------------------------------------------------------------------------
(* The tests of load_application_config(), section by section. *)
RolesError(d) ==
  \/ d.roles = << >> \/ ~Distinct(d.roles)
  \/ ~(Elements(d.roles) \subseteq {"wallet", "full_node", "miner"})
  \/ "wallet" \notin Elements(d.roles)

FilesError(d) ==
  IF ~IsPath(d.wallet) \/ d.wallet = d.source THEN "invalid_wallet"
  ELSE IF ~IsPath(d.data) \/ d.data \in {d.source, d.wallet}
          THEN "invalid_data_directory"
  ELSE "none"

FullNodeError(d) ==
  IF "full_node" \notin Elements(d.roles) THEN d.full_node # None
  ELSE \/ d.full_node = None
       \/ ~IsEndpoint(d.full_node.listen)
       \/ Len(d.full_node.peers) > MaximumInitialPeers
       \/ ~Distinct(d.full_node.peers)
       \/ \E p \in Elements(d.full_node.peers) :
            ~IsEndpoint(p) \/ p = d.full_node.listen
       \/ d.full_node.scope \notin {None, "loopback", "lan", "internet"}

MinerError(d) ==
  IF "miner" \notin Elements(d.roles) THEN d.miner # None
  ELSE \/ d.miner = None
       \/ d.miner.reward \in {None, "invalid"}
       \/ d.miner.source # None /\ ~IsEndpoint(d.miner.source)
       \/ (d.miner.source = None) # ("full_node" \in Elements(d.roles))

RpcError(d) ==
  IF {"full_node", "miner"} \cap Elements(d.roles) = {} THEN d.rpc # None
  ELSE \/ d.rpc = None
       \/ ~IsEndpoint(d.rpc.listen) \/ d.rpc.listen.host # "127.0.0.1"
       \/ ~IsPath(d.rpc.token)
       \/ d.full_node # None /\ d.full_node.listen = d.rpc.listen
       \/ d.rpc.token \in {d.source, d.wallet, d.data}
       \/ d.miner # None /\ d.miner.source = d.rpc.listen

(* load_application_config(), in the order of its tests. *)
LoadError(d) ==
  IF d.file # "read" THEN d.file   \* io_error, file_too_large, invalid_json
  ELSE IF d.schema # 1 THEN "unsupported_schema"
  ELSE IF d.unknown THEN "unknown_field"
  ELSE IF d.name = "invalid" THEN "invalid_name"
  ELSE IF d.network = "invalid" THEN "invalid_network_profile"
  ELSE IF RolesError(d) THEN "invalid_roles"
  ELSE IF FilesError(d) # "none" THEN FilesError(d)
  ELSE IF FullNodeError(d) THEN "invalid_full_node"
  ELSE IF MinerError(d) THEN "invalid_miner"
  ELSE IF RpcError(d) THEN "invalid_rpc"
  ELSE "none"

(* A port of a scenario actor may be 0, for any free one. *)
IsActorEndpoint(e) == e # None /\ e.host = "127.0.0.1" /\ e.port \in 0..MaximumPort

P2pError(d) ==
  IF "full_node" \in Elements(d.roles) THEN ~IsActorEndpoint(d.p2p) ELSE d.p2p # None

(* load_scenario_actor_config() *)
ScenarioError(d) ==
  IF d.file # "read" THEN d.file
  ELSE IF d.schema # 1 THEN "unsupported_schema"
  ELSE IF d.name = "invalid" THEN "invalid_name"
  ELSE IF \/ d.roles = << >> \/ ~Distinct(d.roles)
          \/ ~(Elements(d.roles) \subseteq {"wallet", "full_node", "miner"})
          THEN "invalid_roles"
  ELSE IF ~IsPath(d.data) THEN "invalid_data_directory"
  ELSE IF d.network = "invalid" THEN "invalid_network_profile"
  ELSE IF P2pError(d) THEN "invalid_p2p_endpoint"
  ELSE IF ~IsActorEndpoint(d.control) THEN "invalid_control_endpoint"
  ELSE IF d.token = "invalid" THEN "invalid_control_token"
  ELSE "none"

(* What the two functions answer for a file they cannot read, or otherwise. *)
FileErrors == {"io_error", "file_too_large", "invalid_json"}
LoadErrors ==
  FileErrors \cup
  {"unsupported_schema", "unknown_field", "invalid_name", "invalid_network_profile",
   "invalid_roles", "invalid_wallet", "invalid_data_directory", "invalid_full_node",
   "invalid_miner", "invalid_rpc"}

-----------------------------------------------------------------------------
(* address_allowed() *)
AddressAllowed(host, scope) ==
  \/ host \in {"127.0.0.1", "loopback"}
  \/ host = "private" /\ scope \in {"private_network", "public_network"}
  \/ host = "public" /\ scope = "public_network"

RuntimeP2pScope(scope) ==
  CASE scope = "loopback" -> "loopback"
    [] scope \in {"lan", None} -> "private_network"
    [] scope = "internet" -> "public_network"

(* The tests of run_application_node() before it prepares the token. *)
ApplicationError(d) ==
  IF d.full_node = None /\ d.miner = None THEN "no_long_running_role"
  ELSE IF d.rpc = None THEN "no_rpc"
  ELSE IF d.full_node # None
            /\ ~AddressAllowed(d.full_node.listen.host,
                               RuntimeP2pScope(d.full_node.scope))
          THEN "listener_outside_scope"
  ELSE IF d.full_node # None /\ \E p \in Elements(d.full_node.peers) :
            ~AddressAllowed(p.host, RuntimeP2pScope(d.full_node.scope))
          THEN "peer_outside_scope"
  ELSE IF d.miner # None /\ d.miner.source # None
            /\ ~AddressAllowed(d.miner.source.host, "public_network")
          THEN "source_not_unicast"
  ELSE "none"

ApplicationErrors ==
  {"no_long_running_role", "no_rpc", "listener_outside_scope", "peer_outside_scope",
   "source_not_unicast"}

(* Mutant: without a listener the scope is the default of one. *)
RuntimeConfigLan(d) ==
  [roles |-> Elements(d.roles), scenario |-> FALSE,
   listen |-> IF d.full_node = None THEN "127.0.0.1" ELSE d.full_node.listen.host,
   scope |-> RuntimeP2pScope(IF d.full_node = None THEN None ELSE d.full_node.scope),
   peers |-> IF d.full_node # None THEN d.full_node.peers
             ELSE IF d.miner # None /\ d.miner.source # None THEN <<d.miner.source>>
             ELSE << >>,
   reward |-> IF d.miner = None THEN None ELSE d.miner.reward,
   auto |-> d.miner # None /\ d.miner.auto]

(* runtime_config() of an application. *)
RuntimeConfig(d) ==
  [roles |-> Elements(d.roles), scenario |-> FALSE,
   listen |-> IF d.full_node = None THEN "127.0.0.1" ELSE d.full_node.listen.host,
   scope |-> IF d.full_node = None THEN "public_network"
             ELSE RuntimeP2pScope(d.full_node.scope),
   peers |-> IF d.full_node # None THEN d.full_node.peers
             ELSE IF d.miner # None /\ d.miner.source # None THEN <<d.miner.source>>
             ELSE << >>,
   reward |-> IF d.miner = None THEN None ELSE d.miner.reward,
   auto |-> d.miner # None /\ d.miner.auto]

(* runtime_config() of a scenario actor; a wallet of its own is made by    *)
(* NodeRuntime::initialize(), and is the reward address of a miner.        *)
ScenarioRuntimeConfig(d) ==
  [roles |-> Elements(d.roles), scenario |-> TRUE, listen |-> "127.0.0.1",
   scope |-> "loopback", peers |-> << >>,
   reward |-> IF {"wallet", "miner"} \subseteq Elements(d.roles) THEN "own" ELSE None,
   auto |-> FALSE]

=============================================================================
