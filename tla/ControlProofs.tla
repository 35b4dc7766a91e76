----------------------------- MODULE ControlProofs -----------------------------
(***************************************************************************)
(* Proofs about a node process (modules NodeStart and ControlServer), for  *)
(* every configuration document, any clients and any overlapping starts.   *)
(***************************************************************************)
EXTENDS ControlServer, TokenFileProofs

--------------------------------------------------------------------------------
(* The process as the token file sees it.                                  *)

(* Every step of the process is a step of TokenFile or leaves the token    *)
(* file and the runs of load_or_create_token() alone.                      *)
THEOREM ControlImplementsTokenFile == ControlSpec => Spec
<1>1. ControlInit => Init
  BY DEF ControlInit, NodeInit
<1>2. [ControlNext]_controlVars => [Next]_vars
  BY DEF ControlNext, Next, controlVars
<1> QED
  BY <1>1, <1>2, PTL DEF ControlSpec, Spec

(* So a node and all other starts agree on the token of the file, on which *)
(* the authorization in handle_request() rests.                            *)
THEOREM ControlOneToken == ControlSpec => []OneToken
BY ControlImplementsTokenFile, OneTokenHolds, PTL

--------------------------------------------------------------------------------
(* The threads.                                                            *)

(* Which threads there may be where the main thread is: none before the    *)
(* network is started; at the end one kind less after each join; and a     *)
(* coordinator that may still launch the mining thread is among them.      *)
ThreadInv ==
    /\ threads \subseteq {"network", "coordinator", "worker"}
    /\ coordinator \notin {"none", "ended"} => "coordinator" \in threads
    /\ stage \in {"load", "test", "token", "initialize", "network", "peers"} =>
         coordinator = "none"
    /\ stage \in {"load", "test", "token", "killed", "initialize", "network",
                  "stopped", "ended"} => threads = {}
    /\ stage \in {"stop network", "join network", "stop worker"} =>
         "coordinator" \notin threads
    /\ stage = "stop worker" => "network" \notin threads

(* The starting steps add a thread or end the process before there is one. *)
LEMMA ThreadsBegin == ThreadInv /\ Begin => ThreadInv'
<1> SUFFICES ASSUME ThreadInv, Begin PROVE ThreadInv'
  OBVIOUS
<1> USE DEF ThreadInv, Fail, miningVars
<1>1. CASE LoadConfiguration
  BY <1>1 DEF LoadConfiguration
<1>2. CASE TestApplication
  BY <1>2 DEF TestApplication
<1>3. CASE TokenPrepared
  BY <1>3 DEF TokenPrepared
<1>4. CASE Initialize
  BY <1>4 DEF Initialize
<1>5. CASE StartNetwork
  BY <1>5 DEF StartNetwork
<1>6. CASE AddPeers
  BY <1>6 DEF AddPeers
<1>7. CASE Listen
  BY <1>7 DEF Listen
<1>8. CASE StartConfiguredMining
  BY <1>8 DEF StartConfiguredMining, Notified
<1> QED
  BY <1>1, <1>2, <1>3, <1>4, <1>5, <1>6, <1>7, <1>8 DEF Begin

(* The joins of stop_network() take the threads away in their order.       *)
LEMMA ThreadsFinish == ThreadInv /\ Finish => ThreadInv'
<1> SUFFICES ASSUME ThreadInv, Finish PROVE ThreadInv'
  OBVIOUS
<1> USE DEF ThreadInv, miningVars
<1>1. CASE Halt
  BY <1>1 DEF Halt, Notified
<1>2. CASE JoinCoordinator
  BY <1>2 DEF JoinCoordinator
<1>3. CASE StopNetwork
  BY <1>3 DEF StopNetwork
<1>4. CASE JoinNetwork
  BY <1>4 DEF JoinNetwork
<1>5. CASE JoinWorker
  BY <1>5 DEF JoinWorker
<1>6. CASE Stopped
  BY <1>6 DEF Stopped
<1> QED
  BY <1>1, <1>2, <1>3, <1>4, <1>5, <1>6 DEF Finish

(* The coordinator runs until it is joined.                                *)
LEMMA ThreadsCoordinate == ThreadInv /\ (Coordinate \/ CoordinatorWakes) => ThreadInv'
BY DEF ThreadInv, Coordinate, CoordinatorTests, CoordinatorBlocks, CoordinatorLoops,
       CoordinatorWakes

(* While requests are served, only the mining thread comes and goes.       *)
LEMMA ThreadsServe ==
  ThreadInv /\ (Serve \/ AcceptThrows \/ ExecuteThrows) => ThreadInv'
<1> SUFFICES ASSUME ThreadInv, Serve \/ AcceptThrows \/ ExecuteThrows PROVE ThreadInv'
  OBVIOUS
<1> USE DEF ThreadInv, miningVars
<1>1. CASE Accept \/ AcceptThrows \/ ReadFails \/ LeaveLoop
  BY <1>1 DEF Accept, AcceptThrows, ReadFails, LeaveLoop, Fail
<1>2. CASE Refuse \/ Read \/ Reject \/ Shutdown
  BY <1>2 DEF Refuse, Read, Reject, Shutdown, Answer
<1>3. CASE Execute \/ ExecuteThrows
  BY <1>3 DEF Execute, ExecuteThrows, Answer, Fail
<1>4. CASE StartContinuousMining \/ StopMining
  BY <1>4 DEF StartContinuousMining, StopMining, Answer, Notified
<1> QED
  BY <1>1, <1>2, <1>3, <1>4 DEF Serve

(* A launch needs the network thread or the coordinator, so that it is     *)
(* impossible once both have been joined.                                  *)
LEMMA ThreadsBeside == ThreadInv /\ Beside => ThreadInv'
<1> SUFFICES ASSUME ThreadInv, Beside PROVE ThreadInv'
  OBVIOUS
<1> USE DEF ThreadInv, miningVars
<1>1. CASE Event
  BY <1>1 DEF Event
<1>2. CASE RunPosted
  BY <1>2 DEF RunPosted
<1>3. CASE Cycle
  BY <1>3 DEF Cycle
<1>4. CASE TakeTemplate
  BY <1>4 DEF TakeTemplate
<1>5. CASE LaunchTemplate
  BY <1>5 DEF LaunchTemplate
<1> QED
  BY <1>1, <1>2, <1>3, <1>4, <1>5 DEF Beside

(* Every step of the process preserves it.                                 *)
LEMMA ThreadsStep == ThreadInv /\ [ControlNext]_controlVars => ThreadInv'
<1> SUFFICES ASSUME ThreadInv, [ControlNext]_controlVars PROVE ThreadInv'
  OBVIOUS
<1>1. CASE \E r \in Runs : TokenCall(r)
  BY <1>1 DEF ThreadInv, TokenCall, miningVars
<1>2. CASE Life
  BY <1>2, ThreadsBegin, ThreadsFinish, ThreadsCoordinate DEF Life
<1>3. CASE \E c \in Clients : Client(c)
  BY <1>3 DEF ThreadInv, Client, Connect, Send, Receive, Timeout, Close,
              startVars, miningVars
<1>4. CASE UNCHANGED controlVars
  BY <1>4 DEF ThreadInv, controlVars, startVars, miningVars
<1> QED
  BY <1>1, <1>2, <1>3, <1>4, ThreadsServe, ThreadsBeside DEF ControlNext

(* Whatever the configuration, the requests and the failures, the threads  *)
(* have all been joined when run_runtime_node() returns.                   *)
THEOREM NothingOutlivesHolds == ControlSpec => []NothingOutlives
<1>1. ControlInit => ThreadInv
  BY DEF ControlInit, NodeInit, ThreadInv
<1>2. ThreadInv => NothingOutlives
  BY DEF ThreadInv, NothingOutlives
<1> QED
  BY <1>1, <1>2, ThreadsStep, PTL DEF ControlSpec

--------------------------------------------------------------------------------
(* The configuration.                                                      *)

(* What load_application_config() and run_application_node() accept.       *)
Accepted(d) == LoadError(d) = "none" /\ ApplicationError(d) = "none"

(* A document is refused with one of the errors of its loading.            *)
LEMMA LoadErrorNames ==
  ASSUME NEW d, d.file \in FileErrors \cup {"read"}
  PROVE  LoadError(d) \in LoadErrors \cup {"none"}
BY DEF LoadError, LoadErrors, FilesError

(* The codes that initialize_application reports.                          *)
LEMMA ApplicationErrorNames ==
  ASSUME NEW d
  PROVE  ApplicationError(d) \in ApplicationErrors \cup {"none"}
BY DEF ApplicationError, ApplicationErrors

(* What is known of an accepted document.                                  *)
LEMMA AcceptedFacts ==
  ASSUME NEW d, d.file \in FileErrors \cup {"read"}, Accepted(d)
  PROVE  /\ ~FullNodeError(d) /\ ~MinerError(d)
         /\ d.full_node # None \/ d.miner # None
         /\ d.full_node # None =>
              /\ AddressAllowed(d.full_node.listen.host, RuntimeP2pScope(d.full_node.scope))
              /\ \A p \in Elements(d.full_node.peers) :
                   AddressAllowed(p.host, RuntimeP2pScope(d.full_node.scope))
         /\ d.miner # None /\ d.miner.source # None =>
              AddressAllowed(d.miner.source.host, "public_network")
<1>1. d.file = "read"
  BY DEF Accepted, LoadError, FileErrors
<1>2. FilesError(d) = "none"
  BY <1>1 DEF Accepted, LoadError
<1>3. ~FullNodeError(d) /\ ~MinerError(d)
  BY <1>1, <1>2 DEF Accepted, LoadError
<1> QED
  BY <1>3 DEF Accepted, ApplicationError

(* A valid endpoint names a port. *)
LEMMA EndpointPort ==
  ASSUME NEW e, IsEndpoint(e)
  PROVE  e.port # 0
BY DEF IsEndpoint

(* So its runtime configuration passes the tests of the start.             *)
LEMMA AcceptedRuntime ==
  ASSUME NEW d, d.file \in FileErrors \cup {"read"}, Accepted(d)
  PROVE  LET c == RuntimeConfig(d) IN
         /\ "miner" \in c.roles => c.reward # None
         /\ "full_node" \in c.roles => AddressAllowed(c.listen, c.scope)
         /\ \A p \in Elements(c.peers) : AddressAllowed(p.host, c.scope) /\ p.port # 0
         /\ {"full_node", "miner"} \cap c.roles # {}
         /\ c.auto => "miner" \in c.roles
         /\ ~c.scenario
<1> DEFINE c == RuntimeConfig(d)
<1>1. /\ ~FullNodeError(d) /\ ~MinerError(d)
      /\ d.full_node # None \/ d.miner # None
  BY AcceptedFacts
<1>2. "miner" \in c.roles => c.reward # None
  <2>1. "miner" \in Elements(d.roles) => d.miner # None /\ d.miner.reward # None
    BY <1>1 DEF MinerError
  <2>2. c.roles = Elements(d.roles) /\ (d.miner # None => c.reward = d.miner.reward)
    BY DEF RuntimeConfig
  <2> QED
    BY <2>1, <2>2
<1>3. "full_node" \in c.roles => AddressAllowed(c.listen, c.scope)
  BY <1>1, AcceptedFacts DEF RuntimeConfig, FullNodeError
<1>4. ASSUME NEW p \in Elements(c.peers) PROVE AddressAllowed(p.host, c.scope) /\ p.port # 0
  <2>1. CASE d.full_node # None
    <3>1. p \in Elements(d.full_node.peers) /\ c.scope = RuntimeP2pScope(d.full_node.scope)
      BY <1>4, <2>1 DEF RuntimeConfig
    <3>2. "full_node" \in Elements(d.roles)
      BY <1>1, <2>1 DEF FullNodeError
    <3>3. IsEndpoint(p)
      BY <1>1, <3>1, <3>2 DEF FullNodeError
    <3>4. AddressAllowed(p.host, RuntimeP2pScope(d.full_node.scope))
      BY <2>1, <3>1, AcceptedFacts
    <3> QED
      BY <3>1, <3>3, <3>4, EndpointPort
  <2>2. CASE d.full_node = None /\ d.miner # None /\ d.miner.source # None
    <3>1. c.peers = <<d.miner.source>> /\ c.scope = "public_network"
      BY <2>2 DEF RuntimeConfig
    <3>2. p = d.miner.source
      BY <1>4, <3>1 DEF Elements
    <3>3. "miner" \in Elements(d.roles)
      BY <1>1, <2>2 DEF MinerError
    <3>4. IsEndpoint(p)
      BY <1>1, <2>2, <3>2, <3>3 DEF MinerError
    <3>5. AddressAllowed(p.host, "public_network")
      BY <2>2, <3>2, AcceptedFacts
    <3> QED
      BY <3>1, <3>4, <3>5, EndpointPort
  <2>3. CASE d.full_node = None /\ ~(d.miner # None /\ d.miner.source # None)
    BY <1>4, <2>3 DEF RuntimeConfig, Elements
  <2> QED
    BY <2>1, <2>2, <2>3
<1>5. {"full_node", "miner"} \cap c.roles # {}
  <2>1. /\ d.full_node # None => "full_node" \in Elements(d.roles)
        /\ d.miner # None => "miner" \in Elements(d.roles)
    BY <1>1 DEF FullNodeError, MinerError
  <2>2. c.roles = Elements(d.roles)
    BY DEF RuntimeConfig
  <2> HIDE DEF c
  <2> QED
    BY <1>1, <2>1, <2>2
<1>6. (c.auto => "miner" \in c.roles) /\ ~c.scenario
  BY <1>1 DEF RuntimeConfig, MinerError
<1> QED
  BY <1>2, <1>3, <1>4, <1>5, <1>6

(* What holds of a persistent node while it starts: the document has       *)
(* passed the tests that are behind, the configuration is made of it, and  *)
(* the token file is reached only after all of them.                       *)
AcceptedInv ==
    /\ process \in Processes
    /\ ~Scenario =>
        /\ failure \notin {"no_reward", "listener_refused", "peer_refused", "mining"}
        /\ failure \in LoadErrors \cup ApplicationErrors =>
             pc[Self] = "start" /\ stage = "ended"
        /\ stage \in {"load", "test"} => pc[Self] = "start"
        /\ stage = "test" => LoadError(process.document) = "none"
        /\ stage \in {"token", "initialize", "network", "peers", "listen", "ready"} =>
             Accepted(process.document)
        /\ stage \in {"load", "test", "token", "initialize", "network", "peers",
                      "listen", "ready"} => ~enabled
        /\ stage \in {"initialize", "network", "peers", "listen", "ready"} =>
             config = RuntimeConfig(process.document)
        /\ stage \in {"load", "test", "token", "initialize", "network", "peers",
                      "listen", "ready"} => posted = << >>
        /\ stage \in {"peers", "listen", "ready"} => "network" \in threads

(* Before the node serves, each step passes a test, or fails one that ends *)
(* the process for another reason than those of AcceptedStarts.            *)
LEMMA AcceptedBegin ==
  AcceptedInv /\ Begin /\ UNCHANGED << process, vars >> => AcceptedInv'
<1> SUFFICES ASSUME AcceptedInv, Begin, UNCHANGED << process, vars >>, ~Scenario
             PROVE  AcceptedInv'
  BY DEF AcceptedInv, Scenario
<1> DEFINE d == process.document
<1>1. d.file \in FileErrors \cup {"read"}
  BY NodeStartAssumption DEF AcceptedInv
<1>2. UNCHANGED << process, pc >> /\ ~Scenario'
  BY DEF vars, Scenario
<1>3. LoadError(d) \in LoadErrors \cup {"none"}
  BY <1>1, LoadErrorNames
<1>4. ApplicationError(d) \in ApplicationErrors \cup {"none"}
  BY ApplicationErrorNames
<1>5. {"none", "no_reward", "listener_refused", "peer_refused", "mining", "token",
       "store", "listener", "endpoint", "thread"} \cap (LoadErrors \cup ApplicationErrors) = {}
  BY DEF LoadErrors, FileErrors, ApplicationErrors
<1>6. config = RuntimeConfig(d) /\ Accepted(d) =>
        /\ Miner => config.reward # None
        /\ "full_node" \in Roles => AddressAllowed(config.listen, config.scope)
        /\ \A p \in Elements(config.peers) : AddressAllowed(p.host, config.scope) /\ p.port # 0
        /\ Networked
        /\ config.auto => Miner
        /\ ~config.scenario
  BY <1>1, AcceptedRuntime DEF Miner, Roles, Networked
<1> USE <1>2 DEF AcceptedInv, miningVars
<1>7. CASE LoadConfiguration
  BY <1>3, <1>5, <1>7 DEF LoadConfiguration, Fail
<1>8. CASE TestApplication
  BY <1>4, <1>5, <1>8 DEF TestApplication, Fail, Accepted
<1>9. CASE TokenPrepared
  BY <1>5, <1>9 DEF TokenPrepared, Fail
<1>10. CASE Initialize
  BY <1>5, <1>6, <1>10 DEF Initialize, Fail
<1>11. CASE StartNetwork
  BY <1>5, <1>6, <1>11 DEF StartNetwork, Fail
<1>12. CASE AddPeers
  BY <1>5, <1>6, <1>12 DEF AddPeers, Fail
<1>13. CASE Listen
  BY <1>5, <1>13 DEF Listen, Fail
<1>14. CASE StartConfiguredMining
  BY <1>5, <1>6, <1>14 DEF StartConfiguredMining, MiningConfigured, Fail
<1> QED
  BY <1>7, <1>8, <1>9, <1>10, <1>11, <1>12, <1>13, <1>14 DEF Begin

(* The steps of load_or_create_token(): those of other starts leave the    *)
(* run of this process alone.                                              *)
LEMMA AcceptedToken ==
  ASSUME AcceptedInv, TypeOK, NEW r \in Runs, Step(r), TokenCall(r), UNCHANGED process
  PROVE  AcceptedInv'
<1>1. CASE r \in process.starts
  <2>1. r # Self
    BY <1>1, NodeStartAssumption, SMTT(30) DEF AcceptedInv
  <2>2. pc'[Self] = pc[Self]
    <3>1. \E step : Goto(r, step)
      BY Zenon DEF Step, Start, Make, Write, Permit, Link, Unlink, Check, Load, Crash
    <3> QED
      BY <2>1, <3>1, NodeStartAssumption DEF TypeOK, Goto
  <2> QED
    BY <2>1, <2>2 DEF AcceptedInv, TokenCall, Scenario, miningVars
<1>2. CASE r \notin process.starts
  <2>1. /\ stage = "token" /\ stage' \in {"token", "killed"}
        /\ UNCHANGED << failure, config, threads, posted, enabled >>
    BY <1>2 DEF TokenCall, miningVars
  <2> QED
    BY <2>1 DEF AcceptedInv, Scenario
<1> QED
  BY <1>1, <1>2

(* Every step of the process preserves it.                                 *)
LEMMA AcceptedStep ==
  AcceptedInv /\ TypeOK /\ [ControlNext]_controlVars => AcceptedInv'
<1> SUFFICES ASSUME AcceptedInv, TypeOK, [ControlNext]_controlVars PROVE AcceptedInv'
  OBVIOUS
<1>1. UNCHANGED process
  BY DEF ControlNext, controlVars
<1>2. CASE \E r \in Runs : Step(r) /\ TokenCall(r)
  BY <1>1, <1>2, AcceptedToken
<1>3. CASE Begin /\ UNCHANGED vars
  BY <1>1, <1>3, AcceptedBegin
<1>4. {"accept", "thread"} \cap (LoadErrors \cup ApplicationErrors) = {}
  BY DEF LoadErrors, FileErrors, ApplicationErrors
<1>0. Serve => /\ stage \in {"accept", "read"} /\ stage' \in {"accept", "read", "stop"}
               /\ UNCHANGED << failure, config >>
  BY DEF Serve, Accept, ReadFails, LeaveLoop, Dispatched, Refuse, Read, Reject,
         Shutdown, Execute, StartContinuousMining, StopMining, Answer
<1> USE <1>1 DEF AcceptedInv, Scenario, miningVars, vars
<1>5. CASE Finish /\ UNCHANGED vars
  BY <1>5 DEF Finish, Halt, JoinCoordinator, StopNetwork, JoinNetwork, JoinWorker,
              Stopped
<1>6. CASE (Coordinate \/ CoordinatorWakes) /\ UNCHANGED vars
  BY <1>6, SMTT(30) DEF Coordinate, CoordinatorTests, CoordinatorBlocks, CoordinatorLoops,
              CoordinatorWakes
<1>7. CASE Serve /\ UNCHANGED vars
  BY <1>0, <1>7
<1>8. CASE (AcceptThrows \/ ExecuteThrows) /\ UNCHANGED vars
  BY <1>4, <1>8 DEF AcceptThrows, ExecuteThrows, Dispatched, Fail
<1>9. CASE (Beside \/ \E c \in Clients : Client(c)) /\ UNCHANGED vars
  <2>1. CASE RunPosted
    BY <1>9, <2>1 DEF RunPosted
  <2>2. CASE Cycle \/ LaunchTemplate
    BY <1>9, <2>2 DEF Cycle, LaunchTemplate
  <2>3. CASE Event \/ TakeTemplate \/ \E c \in Clients : Client(c)
    <3>1. UNCHANGED <<stage, failure, config, threads, posted, miningVars>>
      BY <2>3 DEF Event, TakeTemplate, Client, Connect, Send, Receive, Timeout, Close,
                  startVars
    <3> QED
      BY <1>9, <3>1, SMTT(30)
  <2> QED
    BY <1>9, <2>1, <2>2, <2>3 DEF Beside
<1>10. CASE UNCHANGED controlVars
  BY <1>10 DEF controlVars, startVars
<1> QED
  BY <1>2, <1>3, <1>5, <1>6, <1>7, <1>8, <1>9, <1>10 DEF ControlNext, Life

(* Whatever a document holds, one that was accepted is one the node can    *)
(* start with, and one that was refused leaves the token file alone.       *)
THEOREM AcceptedStartsHolds == ControlSpec => []AcceptedStarts
<1>1. ControlInit => AcceptedInv
  BY NodeStartAssumption DEF ControlInit, NodeInit, Init, AcceptedInv, Errors
<1>2. AcceptedInv => AcceptedStarts
  BY DEF AcceptedInv, AcceptedStarts
<1>3. TokenInv => TypeOK
  BY DEF TokenInv
<1>4. ControlSpec => []TypeOK
  BY <1>3, ControlImplementsTokenFile, TokenInit, TokenStep, PTL DEF Spec
<1> QED
  BY <1>1, <1>2, <1>4, AcceptedStep, PTL DEF ControlSpec

--------------------------------------------------------------------------------
(* What is handed to the network thread.                                   *)

(* The sequence with an element behind it.                                 *)
LEMMA AppendFacts ==
  ASSUME NEW S, NEW q \in Seq(S), NEW e \in S
  PROVE  /\ Append(q, e) \in Seq(S) /\ Len(Append(q, e)) = Len(q) + 1
         /\ \A i \in 1..Len(q) : Append(q, e)[i] = q[i]
         /\ Append(q, e)[Len(q) + 1] = e
         /\ Len(q) \in Nat
OBVIOUS

(* The sequence without its first element.                                 *)
LEMMA TailFacts ==
  ASSUME NEW S, NEW q \in Seq(S), q # << >>
  PROVE  /\ Tail(q) \in Seq(S) /\ Len(q) \in Nat \ {0} /\ Len(Tail(q)) = Len(q) - 1
         /\ \A i \in 1..(Len(q) - 1) : Tail(q)[i] = q[i + 1]
         /\ Head(q) = q[1]
OBVIOUS

(* Sequences with the same elements are equal.                             *)
LEMMA SeqEqual ==
  ASSUME NEW S, NEW p \in Seq(S), NEW q \in Seq(S), Len(p) = Len(q),
         \A i \in 1..Len(p) : p[i] = q[i]
  PROVE  p = q
OBVIOUS

(* The operations that have not been run are posted, in their order, and   *)
(* nothing else is but the handler of stop(), at the end of the queue and  *)
(* only while the main thread waits for the network thread.                *)
Open == Len(handed) - Len(ran)

Early == {"load", "test", "token", "initialize", "network", "peers", "listen", "ready"}

Joining == stage = "join network" /\ "network" \in threads

QueueInv ==
    /\ handed \in Seq(Clients) /\ ran \in Seq(Clients)
    /\ posted \in Seq(Clients \cup {StopHandler})
    /\ Open >= 0
    /\ \A i \in 1..Len(ran) : ran[i] = handed[i]
    /\ \A i \in 1..Open : posted[i] = handed[Len(ran) + i]
    /\ IF Joining THEN Len(posted) = Open + 1 /\ posted[Open + 1] = StopHandler
                  ELSE Len(posted) = Open

HandInv ==
    /\ QueueInv
    /\ backlog \in Seq(Clients)
    /\ stage = "read" => current \in Clients
    /\ "network" \notin threads \/ stage \in Early => posted = << >>

(* The lengths are numbers.                                                *)
LEMMA QueueLengths ==
  QueueInv => /\ Len(handed) \in Nat /\ Len(ran) \in Nat /\ Len(posted) \in Nat
              /\ Open \in Nat
BY DEF QueueInv, Open

(* A step that posts nothing, runs nothing and takes the network thread    *)
(* away only when nothing is posted leaves the queue in order.             *)
LEMMA HandKept ==
  ASSUME HandInv, UNCHANGED << posted, handed, ran >>,
         backlog' \in Seq(Clients),
         stage' = "read" => current' \in Clients,
         stage' = "join network" <=> stage = "join network",
         posted # << >> \/ stage = "join network" =>
           ("network" \in threads' <=> "network" \in threads),
         stage' \in Early => stage \in Early
  PROVE  HandInv'
<1>1. Joining' <=> Joining
  BY DEF Joining
<1>2. QueueInv'
  BY <1>1 DEF HandInv, QueueInv, Open
<1>3. "network" \notin threads' \/ stage' \in Early => posted' = << >>
  BY DEF HandInv
<1> QED
  BY <1>2, <1>3 DEF HandInv

(* Nothing is posted before the node serves.                               *)
LEMMA HandBegin ==
  HandInv /\ Begin /\ UNCHANGED clientVars => HandInv'
<1> SUFFICES ASSUME HandInv, Begin, UNCHANGED clientVars PROVE HandInv'
  OBVIOUS
<1>1. stage \in Early /\ stage' \notin {"join network", "read"} /\ UNCHANGED posted
  BY DEF Begin, LoadConfiguration, TestApplication, TokenPrepared, Initialize, StartNetwork,
         AddPeers, Listen, StartConfiguredMining, Fail, Early
<1>2. posted = << >> /\ UNCHANGED << backlog, handed, ran >> /\ stage # "join network"
  BY <1>1 DEF HandInv, clientVars, handVars, Early
<1> QED
  BY <1>1, <1>2, HandKept DEF HandInv

(* The handler of stop() is posted behind all others, and the network      *)
(* thread ends with it.                                                    *)
LEMMA HandFinish ==
  HandInv /\ ThreadInv /\ Finish /\ UNCHANGED clientVars => HandInv'
<1> SUFFICES ASSUME HandInv, ThreadInv, Finish, UNCHANGED clientVars PROVE HandInv'
  OBVIOUS
<1>0. UNCHANGED << backlog, handed, ran >>
  BY DEF clientVars, handVars
<1>1. CASE Halt \/ JoinCoordinator
  BY <1>0, <1>1, HandKept DEF HandInv, Halt, JoinCoordinator, Early
<1>2. CASE StopNetwork
  <2>1. CASE "network" \in threads
    <3>1. ~Joining /\ Joining' /\ posted' = Append(posted, StopHandler)
      BY <1>2, <2>1 DEF StopNetwork, Joining
    <3>2. Len(posted) = Open /\ posted \in Seq(Clients \cup {StopHandler})
      BY <3>1 DEF HandInv, QueueInv
    <3>3. /\ posted' \in Seq(Clients \cup {StopHandler}) /\ Len(posted') = Len(posted) + 1
          /\ \A i \in 1..Len(posted) : posted'[i] = posted[i]
          /\ posted'[Len(posted) + 1] = StopHandler
      BY <3>1, <3>2, AppendFacts
    <3>4. QueueInv'
      BY <1>0, <3>1, <3>2, <3>3 DEF HandInv, QueueInv, Open
    <3> QED
      BY <1>0, <1>2, <2>1, <3>4 DEF HandInv, StopNetwork, Early
  <2>2. CASE "network" \notin threads
    BY <1>0, <1>2, <2>2, HandKept DEF HandInv, StopNetwork, Early
  <2> QED
    BY <2>1, <2>2
<1>3. CASE JoinNetwork
  <2>1. ~Joining /\ ~Joining' /\ UNCHANGED << posted, threads >> /\ stage' = "stop worker"
    BY <1>3 DEF JoinNetwork, Joining
  <2>2. QueueInv'
    BY <1>0, <2>1 DEF HandInv, QueueInv, Open
  <2> QED
    BY <1>0, <2>1, <2>2 DEF HandInv, Early
<1>4. CASE JoinWorker
  BY <1>0, <1>4, HandKept DEF HandInv, ThreadInv, JoinWorker, Early
<1>5. CASE Stopped
  BY <1>0, <1>5, HandKept DEF HandInv, Stopped, Early
<1> QED
  BY <1>1, <1>2, <1>3, <1>4, <1>5 DEF Finish

(* A request that is carried out is posted at the end of the queue.        *)
LEMMA HandServe ==
  HandInv /\ (Serve \/ AcceptThrows \/ ExecuteThrows) => HandInv'
<1> SUFFICES ASSUME HandInv, Serve \/ AcceptThrows \/ ExecuteThrows PROVE HandInv'
  OBVIOUS
<1>1. CASE Accept
  <2>1. current' \in Clients /\ backlog' \in Seq(Clients)
    BY <1>1 DEF HandInv, Accept
  <2> QED
    BY <1>1, <2>1, HandKept DEF Accept, Early, handVars
<1>2. CASE AcceptThrows \/ ExecuteThrows \/ ReadFails \/ LeaveLoop
  BY <1>2, HandKept DEF HandInv, AcceptThrows, ExecuteThrows, ReadFails, LeaveLoop,
       Dispatched, Fail, Early, clientVars, handVars, loopVars
<1>3. CASE Refuse \/ Read \/ Reject \/ Shutdown \/ StartContinuousMining \/ StopMining
  <2>1. /\ stage = "read" /\ stage' = "accept"
        /\ UNCHANGED << posted, handed, ran, backlog >>
        /\ "network" \in threads' <=> "network" \in threads
    BY <1>3 DEF Refuse, Read, Reject, Shutdown, StartContinuousMining, StopMining,
                Answer, Dispatched
  <2> QED
    BY <2>1, HandKept DEF HandInv, Early
<1>4. CASE Execute
  <2>1. /\ stage = "read" /\ stage' = "accept" /\ UNCHANGED << backlog, ran >>
        /\ "network" \in threads /\ "network" \in threads'
    BY <1>4 DEF Execute, Dispatched, Answer
  <2>2. CASE Post
    <3>1. current \in Clients
      BY <2>1 DEF HandInv
    <3>2. /\ posted' = Append(posted, current) /\ handed' = Append(handed, current)
          /\ ~Joining /\ ~Joining'
      BY <2>1, <2>2 DEF Post, Joining
    <3> USE QueueLengths
    <3>3. /\ posted' \in Seq(Clients \cup {StopHandler}) /\ Len(posted') = Len(posted) + 1
          /\ \A i \in 1..Len(posted) : posted'[i] = posted[i]
          /\ posted'[Len(posted) + 1] = current
      BY <3>1, <3>2, AppendFacts DEF HandInv, QueueInv
    <3>4. /\ handed' \in Seq(Clients) /\ Len(handed') = Len(handed) + 1
          /\ \A i \in 1..Len(handed) : handed'[i] = handed[i]
          /\ handed'[Len(handed) + 1] = current
      BY <3>1, <3>2, AppendFacts DEF HandInv, QueueInv
    <3>5. Len(posted) = Open /\ Open' = Open + 1 /\ UNCHANGED ran
      BY <2>1, <3>2, <3>4 DEF HandInv, QueueInv, Open
    <3>6. \A i \in 1..Len(ran) : ran[i] = handed'[i]
      BY <3>4 DEF HandInv, QueueInv, Open
    <3>7. \A i \in 1..(Open + 1) : posted'[i] = handed'[Len(ran) + i]
      <4> SUFFICES ASSUME NEW i \in 1..(Open + 1) PROVE posted'[i] = handed'[Len(ran) + i]
        OBVIOUS
      <4>1. CASE i = Open + 1
        BY <3>3, <3>4, <3>5, <4>1 DEF HandInv, Open
      <4>2. CASE i \in 1..Open
        <5>1. posted'[i] = posted[i] /\ posted[i] = handed[Len(ran) + i]
          BY <3>3, <3>5, <4>2 DEF HandInv, QueueInv
        <5>2. Len(ran) + i \in 1..Len(handed)
          BY <4>2 DEF HandInv, Open
        <5> QED
          BY <3>4, <5>1, <5>2
      <4> QED
        BY <4>1, <4>2 DEF HandInv
    <3>8. Open' >= 0 /\ Len(posted') = Open'
      BY <3>3, <3>5 DEF HandInv
    <3>9. QueueInv'
      BY <3>2, <3>3, <3>4, <3>5, <3>6, <3>7, <3>8 DEF HandInv, QueueInv
    <3> QED
      BY <2>1, <3>9 DEF HandInv, Early
  <2>3. CASE UNCHANGED << posted, handed >>
    BY <2>1, <2>3, HandKept DEF HandInv, Early
  <2> QED
    BY <1>4, <2>2, <2>3 DEF Execute
<1> QED
  BY <1>1, <1>2, <1>3, <1>4 DEF Serve

(* The network thread runs the first one.                                  *)
LEMMA HandBeside == HandInv /\ Beside => HandInv'
<1> SUFFICES ASSUME HandInv, Beside PROVE HandInv'
  OBVIOUS
<1>1. CASE RunPosted
  <2>0. /\ "network" \in threads /\ posted # << >> /\ posted' = Tail(posted)
        /\ UNCHANGED << stage, current, backlog, handed >>
    BY <1>1 DEF RunPosted, loopVars
  <2>4. UNCHANGED handed
    BY <2>0
  <2> USE QueueLengths
  <2>1. /\ posted' \in Seq(Clients \cup {StopHandler})
        /\ Len(posted) # 0 /\ Len(posted') = Len(posted) - 1
        /\ \A i \in 1..(Len(posted) - 1) : posted'[i] = posted[i + 1]
        /\ Head(posted) = posted[1]
    BY <2>0, TailFacts DEF HandInv, QueueInv
  <2>2. CASE Open = 0
    <3>1. Joining /\ Len(posted) = 1 /\ Head(posted) = StopHandler
      BY <2>1, <2>2 DEF HandInv, QueueInv
    <3>2. UNCHANGED ran /\ "network" \notin threads' /\ ~Joining'
      BY <1>1, <3>1 DEF RunPosted, Joining
    <3>3. Open' = 0 /\ Len(posted') = 0 /\ posted' = << >>
      BY <2>0, <2>1, <2>2, <3>1, <3>2 DEF Open
    <3>4. QueueInv'
      <4>1. UNCHANGED << ran, handed >> /\ ~Joining'
        BY <2>4, <3>2
      <4> QED
        BY <2>1, <3>3, <4>1 DEF HandInv, QueueInv
    <3> QED
      BY <2>0, <3>3, <3>4 DEF HandInv
  <2>3. CASE Open # 0
    <3>1. Head(posted) = handed[Len(ran) + 1] /\ Head(posted) \in Clients
      <4>1. posted[1] = handed[Len(ran) + 1]
        BY <2>3 DEF HandInv, QueueInv
      <4>2. Len(ran) + 1 \in 1..Len(handed)
        BY <2>3 DEF HandInv, Open
      <4> QED
        BY <2>1, <4>1, <4>2 DEF HandInv, QueueInv
    <3>2. ran' = Append(ran, Head(posted)) /\ UNCHANGED threads
      BY <1>1, <3>1, ControlAssumption DEF RunPosted
    <3>3. /\ ran' \in Seq(Clients) /\ Len(ran') = Len(ran) + 1
          /\ \A i \in 1..Len(ran) : ran'[i] = ran[i]
          /\ ran'[Len(ran) + 1] = Head(posted)
      BY <3>1, <3>2, AppendFacts DEF HandInv, QueueInv
    <3>4. Open' = Open - 1 /\ (Joining' <=> Joining)
      BY <2>0, <3>2, <3>3 DEF HandInv, Open, Joining
    <3>5. \A i \in 1..Len(ran') : ran'[i] = handed'[i]
      <4> SUFFICES ASSUME NEW i \in 1..Len(ran') PROVE ran'[i] = handed[i]
        BY <2>4
      <4>1. CASE i = Len(ran) + 1
        BY <3>1, <3>3, <4>1
      <4>2. CASE i \in 1..Len(ran)
        BY <3>3, <4>2 DEF HandInv, QueueInv
      <4> QED
        BY <3>3, <4>1, <4>2 DEF HandInv
    <3>6. \A i \in 1..Open' : posted'[i] = handed'[Len(ran') + i]
      <4> SUFFICES ASSUME NEW i \in 1..Open' PROVE posted'[i] = handed[Len(ran) + 1 + i]
        BY <2>0, <3>3
      <4>1. i \in 1..(Len(posted) - 1) /\ i + 1 \in 1..Open
        BY <3>4 DEF HandInv, QueueInv
      <4>2. posted[i + 1] = handed[Len(ran) + (i + 1)]
        BY <4>1 DEF HandInv, QueueInv
      <4>3. posted'[i] = posted[i + 1]
        BY <2>1, <4>1
      <4>4. Len(ran) + (i + 1) = Len(ran) + 1 + i
        <5>1. Len(ran) \in Nat /\ i \in Int
          BY DEF HandInv
        <5> QED
          BY ONLY <5>1
      <4> QED
        BY ONLY <4>2, <4>3, <4>4
    <3>7. IF Joining' THEN Len(posted') = Open' + 1 /\ posted'[Open' + 1] = StopHandler
                      ELSE Len(posted') = Open'
      BY <2>1, <2>3, <3>4 DEF HandInv, QueueInv
    <3>8. QueueInv'
      BY <2>0, <2>1, <2>3, <3>3, <3>4, <3>5, <3>6, <3>7 DEF HandInv, QueueInv
    <3> QED
      BY <2>0, <3>2, <3>8 DEF HandInv
  <2> QED
    BY <2>2, <2>3
<1>2. CASE Event \/ Cycle \/ TakeTemplate \/ LaunchTemplate
  <2>1. /\ UNCHANGED << stage, posted, current, backlog, handed, ran >>
        /\ "network" \in threads' <=> "network" \in threads
    BY <1>2 DEF Event, Cycle, TakeTemplate, LaunchTemplate, clientVars, handVars, loopVars
  <2> QED
    BY <2>1, HandKept DEF HandInv
<1> QED
  BY <1>1, <1>2 DEF Beside

(* Every step of the process preserves it.                                 *)
LEMMA HandStep == HandInv /\ ThreadInv /\ [ControlNext]_controlVars => HandInv'
<1> SUFFICES ASSUME HandInv, ThreadInv, [ControlNext]_controlVars PROVE HandInv'
  OBVIOUS
<1>1. CASE (\E r \in Runs : TokenCall(r)) /\ UNCHANGED << loopVars, clientVars >>
  BY <1>1, HandKept DEF HandInv, TokenCall, Early, loopVars, clientVars, handVars
<1>2. CASE Life
  <2>1. CASE Coordinate \/ CoordinatorWakes
    BY <1>2, <2>1, HandKept DEF HandInv, Life, Coordinate, CoordinatorTests,
         CoordinatorBlocks, CoordinatorLoops, CoordinatorWakes, loopVars, clientVars,
         handVars
  <2> QED
    BY <1>2, <2>1, HandBegin, HandFinish DEF Life
<1>3. CASE \E c \in Clients : Client(c)
  <2>1. PICK c \in Clients : Client(c)
    BY <1>3
  <2>2. UNCHANGED << stage, threads, posted, current, handed, ran >>
    BY <2>1 DEF Client, Connect, Send, Receive, Timeout, Close, startVars, loopVars,
                handVars
  <2>3. backlog' = backlog \/ backlog' = Append(backlog, c)
    BY <2>1 DEF Client, Connect, Send, Receive, Timeout, Close
  <2>4. backlog' \in Seq(Clients)
    BY <2>3, AppendFacts DEF HandInv
  <2> QED
    BY <2>2, <2>4, HandKept DEF HandInv
<1>4. CASE UNCHANGED controlVars
  BY <1>4, HandKept DEF HandInv, controlVars, startVars, loopVars, clientVars, handVars
<1> QED
  BY <1>1, <1>2, <1>3, <1>4, HandServe, HandBeside DEF ControlNext

(* Whatever the clients send and whenever the process is told to stop or   *)
(* fails, what it acknowledged and handed to the network thread is run in  *)
(* that order, and all of it before the process ends.                      *)
THEOREM AcknowledgedRunsHolds == ControlSpec => []AcknowledgedRuns
<1>1. ControlInit => ThreadInv /\ HandInv
  BY DEF ControlInit, NodeInit, ThreadInv, HandInv, QueueInv, Open, Joining, Early
<1>2. ThreadInv /\ HandInv => AcknowledgedRuns
  <2> SUFFICES ASSUME ThreadInv, HandInv PROVE AcknowledgedRuns
    OBVIOUS
  <2>0. Len(ran) <= Len(handed) /\ Len(ran) \in Nat /\ Len(handed) \in Nat
    BY QueueLengths DEF HandInv, QueueInv, Open
  <2>1. ran = SubSeq(handed, 1, Len(ran))
    <3>1. /\ SubSeq(handed, 1, Len(ran)) \in Seq(Clients)
          /\ Len(SubSeq(handed, 1, Len(ran))) = Len(ran)
          /\ \A i \in 1..Len(ran) : SubSeq(handed, 1, Len(ran))[i] = handed[i]
      BY <2>0 DEF HandInv, QueueInv
    <3> QED
      BY <3>1, SeqEqual DEF HandInv, QueueInv
  <2>2. stage \in {"stopped", "ended"} => ran = handed
    <3> SUFFICES ASSUME stage \in {"stopped", "ended"} PROVE ran = handed
      OBVIOUS
    <3>1. posted = << >> /\ ~Joining
      BY DEF ThreadInv, HandInv, Joining
    <3>2. Len(ran) = Len(handed)
      BY <2>0, <3>1 DEF HandInv, QueueInv, Open
    <3> QED
      BY <3>2, SeqEqual DEF HandInv, QueueInv
  <2> QED
    BY <2>1, <2>2 DEF AcknowledgedRuns
<1> QED
  BY <1>1, <1>2, ThreadsStep, HandStep, PTL DEF ControlSpec
================================================================================
