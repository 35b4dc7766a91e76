------------------------------- MODULE NodeStart -------------------------------
(***************************************************************************)
(* The start and the end of a node process: run_node() in                  *)
(* src/app/node_commands.cpp, run_application_node() and                   *)
(* run_runtime_node() in src/node/control_server.cpp, and the start and    *)
(* the end of NodeRuntime's threads.  The configuration is tested, the     *)
(* token file prepared while other starts may do the same, and the parts   *)
(* are started one after the other; on every way out they are stopped.     *)
(* The process is the run Self of TokenFile; the module ControlServer adds *)
(* what happens between the start and the end.                             *)
(***************************************************************************)
EXTENDS TokenFile, Sequences

INSTANCE Configuration

CONSTANTS Processes,  \* the processes and surroundings that are looked at
          Self        \* the run of load_or_create_token() of the process

(* Why a process may end with an error.                                    *)
Errors == LoadErrors \cup ApplicationErrors \cup
    {"invalid_p2p_endpoint", "invalid_control_endpoint", "invalid_control_token",
     "token", "no_reward", "store", "listener", "listener_refused", "peer_refused",
     "endpoint", "mining", "accept", "thread"}

ASSUME NodeStartAssumption ==
    /\ Self \in Runs
    /\ None \notin Errors
    /\ \A p \in Processes : /\ Self \notin p.starts
                            /\ p.document.file \in FileErrors \cup {"read"}

VARIABLES process,      \* one of Processes, which never changes
          stage,        \* where the main thread is
          failure,      \* why the process ends with an error, or None
          config,       \* the RuntimeConfig, or None
          threads,      \* the threads of the node that run beside the main one
          coordinator,  \* where the coordinator of continuous mining is
          enabled,      \* continuous_mining_enabled_
          halting,      \* runtime_stopping_
          listening,    \* the acceptor of the control endpoint is open
          posted,       \* what requests and stop() have posted to the network thread
          announced,    \* the event "ready" has been written
          last          \* the last event, or None

miningVars == << coordinator, enabled, halting >>
eventVars == << announced, last >>
startVars ==
    << stage, failure, config, threads, listening, posted, miningVars, eventVars >>

Scenario == process.scenario   \* a scenario actor, else a persistent node
Roles == config.roles
Miner == "miner" \in Roles
Networked == {"full_node", "miner"} \cap Roles # {}

(* A process is a kind of node, its configuration document, what the token *)
(* file holds before, the other starts that overlap and the connections    *)
(* that are made to it.                                                    *)
NodeInit ==
    /\ process \in Processes
    /\ Init
    /\ path = (IF process.file = "none" THEN None ELSE Given)
    /\ content[Given] = process.file
    /\ stage = "load"
    /\ failure = None
    /\ config = None
    /\ threads = {}
    /\ coordinator = "none"
    /\ enabled = FALSE
    /\ halting = FALSE
    /\ listening = FALSE
    /\ posted = << >>
    /\ announced = FALSE
    /\ last = None

(* "ready", "stopped", or an event about mining or about peers.            *)
Emit(event) ==
    /\ announced' = (announced \/ event = "ready")
    /\ last' = event

(* The process ends, or stops its parts before, with an error.             *)
Fail(why, next) == failure' = why /\ stage' = next

--------------------------------------------------------------------------------
(* run_node(): the document is read and tested.                            *)
LoadConfiguration ==
    /\ stage = "load"
    /\ LET error == IF Scenario THEN ScenarioError(process.document)
                                ELSE LoadError(process.document) IN
       IF error # "none" THEN Fail(error, "ended") /\ UNCHANGED config
       ELSE IF Scenario
       THEN /\ config' = ScenarioRuntimeConfig(process.document)
            /\ stage' = "initialize"
            /\ UNCHANGED failure
       ELSE stage' = "test" /\ UNCHANGED << failure, config >>
    /\ UNCHANGED << threads, listening, miningVars, eventVars, posted >>

(* run_application_node() before the token is prepared.                    *)
TestApplication ==
    /\ stage = "test"
    /\ LET error == ApplicationError(process.document) IN
       IF error # "none" THEN Fail(error, "ended")
                         ELSE stage' = "token" /\ UNCHANGED failure
    /\ UNCHANGED << config, threads, listening, miningVars, eventVars, posted >>

(* The call of load_or_create_token() has returned.                        *)
TokenPrepared ==
    /\ stage = "token"
    /\ \/ /\ pc[Self] = "done"
          /\ config' = RuntimeConfig(process.document)
          /\ stage' = "initialize"
          /\ UNCHANGED failure
       \/ pc[Self] = "failed" /\ Fail("token", "ended") /\ UNCHANGED config
    /\ UNCHANGED << threads, listening, miningVars, eventVars, posted >>

(* NodeRuntime::initialize(); the stores of a full node may fail to open.  *)
Initialize ==
    /\ stage = "initialize"
    /\ IF Miner /\ config.reward = None THEN Fail("no_reward", "ended")
       ELSE \/ stage' = "network" /\ UNCHANGED failure
            \/ "full_node" \in Roles /\ Fail("store", "ended")
    /\ UNCHANGED << config, threads, listening, miningVars, eventVars, posted >>

(* The listener is opened and the network thread runs, or start() fails; a *)
(* mere wallet has no network.                                             *)
StartNetwork ==
    /\ stage = "network"
    /\ CASE ~Networked -> stage' = "listen" /\ UNCHANGED << threads, failure >>
         [] "full_node" \in Roles /\ ~AddressAllowed(config.listen, config.scope) ->
              Fail("listener_refused", "ended") /\ UNCHANGED threads
         [] OTHER ->
              \/ stage' = "peers" /\ threads' = {"network"} /\ UNCHANGED failure
              \/ Fail("listener", "ended") /\ UNCHANGED threads
    /\ UNCHANGED << config, listening, miningVars, eventVars, posted >>

(* The initial peers are added; one that connect() refuses stops the       *)
(* network.  The coordinator runs only in a persistent miner; if its       *)
(* thread cannot be started nothing catches the exception, which ends the  *)
(* process with all its threads.                                           *)
AddPeers ==
    /\ stage = "peers"
    /\ IF \E p \in Elements(config.peers) :
            ~AddressAllowed(p.host, config.scope) \/ p.port = 0
       THEN Fail("peer_refused", "stop") /\ UNCHANGED << threads, coordinator >>
       ELSE IF Miner /\ ~config.scenario
       THEN \/ /\ stage' = "listen"
               /\ threads' = threads \cup {"coordinator"} /\ coordinator' = "testing"
               /\ UNCHANGED failure
            \/ Fail("thread", "killed") /\ threads' = {} /\ UNCHANGED coordinator
       ELSE stage' = "listen" /\ UNCHANGED << failure, threads, coordinator >>
    /\ UNCHANGED << config, listening, enabled, halting, posted, eventVars >>

(* The acceptor is bound and "ready" announced, or the bind throws.        *)
Listen ==
    /\ stage = "listen"
    /\ \/ /\ stage' = "ready" /\ listening' = TRUE /\ Emit("ready")
          /\ UNCHANGED failure
       \/ Fail("endpoint", "stop") /\ UNCHANGED << listening, eventVars >>
    /\ UNCHANGED << config, threads, miningVars, posted >>

(* notify_all(), which is called without mining_coordinator_mutex_: it     *)
(* wakes a coordinator that is blocked, not one that is about to be.       *)
Notified == IF coordinator = "blocked" THEN "testing" ELSE coordinator

MiningConfigured ==
    Miner /\ ~config.scenario /\ config.reward # None /\ "network" \in threads

StartConfiguredMining ==
    /\ stage = "ready"
    /\ CASE ~config.auto ->
              stage' = "accept" /\ UNCHANGED << failure, listening, miningVars, eventVars >>
         [] config.auto /\ MiningConfigured /\ ~enabled ->
              /\ stage' = "accept"
              /\ enabled' = TRUE
              /\ coordinator' = Notified
              /\ Emit("mining")
              /\ UNCHANGED << failure, listening, halting >>
         [] OTHER ->
              /\ Fail("mining", "stop")
              /\ UNCHANGED << listening, miningVars, eventVars >>
    /\ UNCHANGED << config, threads, posted >>

--------------------------------------------------------------------------------
(* The end: stop_network() joins the coordinator, the network thread and   *)
(* the mining thread, in this order, since the first two may launch it.    *)

Halt ==
    /\ stage = "stop"
    /\ halting' = TRUE
    /\ enabled' = FALSE
    /\ coordinator' = Notified
    /\ stage' = "stop coordinator"
    /\ UNCHANGED << failure, config, threads, listening, eventVars, posted >>

JoinCoordinator ==
    /\ stage = "stop coordinator"
    /\ "coordinator" \in threads => coordinator = "ended"
    /\ threads' = threads \ {"coordinator"}
    /\ stage' = "stop network"
    /\ UNCHANGED << failure, config, listening, miningVars, eventVars, posted >>

(* What PeerNetwork::stop() posts.                                         *)
StopHandler == "stop"

(* Mutant: the context is stopped, which discards the posted handlers.     *)
StopNetworkAtOnce ==
    /\ stage = "stop network"
    /\ IF "network" \in threads THEN posted' = << StopHandler >> /\ stage' = "join network"
       ELSE UNCHANGED posted /\ stage' = "stop worker"
    /\ UNCHANGED << failure, config, threads, listening, miningVars, eventVars >>

(* PeerNetwork::stop() posts a handler that closes everything, behind the  *)
(* handlers that are there, and waits for the end of the network thread.   *)
StopNetwork ==
    /\ stage = "stop network"
    /\ IF "network" \in threads
       THEN posted' = Append(posted, StopHandler) /\ stage' = "join network"
       ELSE UNCHANGED posted /\ stage' = "stop worker"
    /\ UNCHANGED << failure, config, threads, listening, miningVars, eventVars >>

(* Mutant: stop() does not wait for the network thread.                    *)
NetworkNotJoined ==
    /\ stage = "join network"
    /\ stage' = "stop worker"
    /\ UNCHANGED << failure, config, threads, listening, posted, miningVars, eventVars >>

JoinNetwork ==
    /\ stage = "join network" /\ "network" \notin threads
    /\ stage' = "stop worker"
    /\ UNCHANGED << failure, config, threads, listening, posted, miningVars, eventVars >>

(* Without an error the acceptor stays open until the function returns.    *)
JoinWorker ==
    /\ stage = "stop worker"
    /\ threads' = threads \ {"worker"}
    /\ stage' = IF failure = None THEN "stopped" ELSE "ended"
    /\ listening' = (failure = None)
    /\ UNCHANGED << failure, config, miningVars, eventVars, posted >>

Stopped ==
    /\ stage = "stopped"
    /\ Emit("stopped")
    /\ stage' = "ended"
    /\ listening' = FALSE
    /\ UNCHANGED << failure, config, threads, miningVars, posted >>

--------------------------------------------------------------------------------
(* The coordinator: in wait() it tests the flags, and then blocks until it *)
(* is notified; set_mining_state(), which other threads call, notifies as  *)
(* well, and a wait may end without cause.                                 *)

CoordinatorTests ==
    /\ coordinator = "testing"
    /\ coordinator' = CASE halting -> "ended"
                        [] ~halting /\ enabled -> "working"
                        [] OTHER -> "tested"
    /\ UNCHANGED << stage, failure, config, threads, listening, enabled, halting,
                    posted, eventVars >>

CoordinatorBlocks ==
    /\ coordinator = "tested"
    /\ coordinator' = "blocked"
    /\ UNCHANGED << stage, failure, config, threads, listening, enabled, halting,
                    posted, eventVars >>

(* A mining cycle is started or not, and after at most 250 ms ...          *)
CoordinatorLoops ==
    /\ coordinator = "working"
    /\ coordinator' = "testing"
    /\ UNCHANGED << stage, failure, config, threads, listening, enabled, halting,
                    posted, eventVars >>

CoordinatorWakes ==
    /\ coordinator = "blocked"
    /\ coordinator' = "testing"
    /\ UNCHANGED << stage, failure, config, threads, listening, enabled, halting,
                    posted, eventVars >>

--------------------------------------------------------------------------------
Begin ==
    \/ LoadConfiguration \/ TestApplication \/ TokenPrepared
    \/ Initialize \/ StartNetwork \/ AddPeers \/ Listen \/ StartConfiguredMining

Finish ==
    \/ Halt \/ JoinCoordinator \/ StopNetwork \/ JoinNetwork \/ JoinWorker \/ Stopped

Coordinate == CoordinatorTests \/ CoordinatorBlocks \/ CoordinatorLoops

(* A step of load_or_create_token() in the process or in another start.    *)
TokenCall(r) ==
    /\ \/ r \in process.starts /\ UNCHANGED stage
       \/ /\ r = Self /\ stage = "token"
          /\ stage' = IF pc'[Self] = "crashed" THEN "killed" ELSE stage
    /\ UNCHANGED << failure, config, threads, listening, miningVars, eventVars, posted >>

(* A notification came while the coordinator was about to block.           *)
Missed == coordinator = "blocked" /\ halting
================================================================================
