----------------------------- MODULE ControlServer -----------------------------
(***************************************************************************)
(* The control endpoint of a node process (the RPC of a persistent node,   *)
(* the control endpoint of a scenario actor): the accept loop of           *)
(* run_runtime_node(), serve_connection() and handle_request() in          *)
(* src/node/control_server.cpp, and the client call_rpc() in               *)
(* src/app/rpc_commands.cpp.                                               *)
(*                                                                         *)
(* The main thread starts the parts of the node (module NodeStart), then   *)
(* serves one connection after the other, and stops the parts again.  The  *)
(* network thread, the coordinator of continuous mining and the mining     *)
(* thread run beside it and write events; what else they do is in the      *)
(* modules PeerNetwork, FullNodes and Mining.                              *)
(***************************************************************************)
EXTENDS NodeStart, Naturals, Sequences

CONSTANTS Clients     \* connections that may be made to the endpoint

ASSUME ControlAssumption == StopHandler \notin Clients

VARIABLES stopping,   \* the local variable of the accept loop
          template,   \* a block template: "none", "asked" for or "taken"
          backlog,    \* connections the operating system holds for accept()
          current,    \* the connection that is served, or None
          conn,       \* client -> what it has done
          request,    \* client -> the request it has written, or None
          response,   \* client -> the answer that was written, or None
          handed,     \* the clients whose operation was posted, in that order
          ran         \* those whose operation has been run, in that order

loopVars == << stopping, template, current >>
handVars == << handed, ran >>
clientVars == << backlog, conn, request, response, handVars >>
controlVars == << process, startVars, loopVars, clientVars, vars >>

(* Requests are told apart by what handle_request() tests: the form of the *)
(* JSON document, the token, and which processes know the method.          *)
Methods == {"read",           \* health, status, dump
            "shared",         \* ping, start_mining, submit_signed_transaction
            "scenario",       \* (dis)connect_peer, begin_mining, submit_transaction
            "application",    \* start_continuous_mining, stop_mining
            "shutdown", "unknown"}

(* The token of a scenario actor is in the document it is started with; an *)
(* RPC command reads that of a persistent node from the token file.        *)
SharedToken == IF Scenario THEN "configured" ELSE path

(* With a wrong token the method does not matter; shutdown stands for all. *)
Requests ==
    [form : {"malformed"}, token : {None}, method : {"unknown"}]
    \cup [form : {"well formed"}, token : {None}, method : {"shutdown"}]
    \cup [form : {"well formed"}, token : {SharedToken}, method : Methods]

ControlInit ==
    /\ NodeInit
    /\ stopping = FALSE
    /\ template = "none"
    /\ backlog = << >>
    /\ current = None
    /\ conn = [c \in Clients |-> "new"]
    /\ request = [c \in Clients |-> None]
    /\ response = [c \in Clients |-> None]
    /\ handed = << >>
    /\ ran = << >>

--------------------------------------------------------------------------------
(* The accept loop.                                                        *)

Accept ==
    /\ stage = "accept" /\ ~stopping
    /\ backlog # << >>
    /\ current' = Head(backlog)
    /\ backlog' = Tail(backlog)
    /\ stage' = "read"
    /\ UNCHANGED << failure, config, threads, listening, miningVars, eventVars,
                    posted, stopping, template, conn, request, response, handVars >>

(* accept() throws: the process stops its parts and ends with an error.    *)
AcceptThrows ==
    /\ stage = "accept" /\ ~stopping
    /\ Fail("accept", "stop")
    /\ listening' = FALSE
    /\ UNCHANGED << config, threads, miningVars, eventVars, posted, loopVars, clientVars >>

(* The client has closed its side before a whole line arrived.             *)
ReadFails ==
    /\ stage = "read"
    /\ conn[current] = "closed" /\ request[current] = None
    /\ stage' = "accept"
    /\ current' = None
    /\ UNCHANGED << failure, config, threads, listening, miningVars, eventVars,
                    posted, stopping, template, clientVars >>

Known(method) ==
    IF Scenario THEN method \in {"read", "shared", "scenario", "shutdown"}
                ELSE method \in {"read", "shared", "application", "shutdown"}

Token == IF Scenario THEN "configured" ELSE result[Self]

(* What handle_request() checks before it dispatches.                      *)
Authorized(r) == r.form = "well formed" /\ r.token = Token /\ Known(r.method)

(* A whole request of the current connection with one of the methods.      *)
Dispatched(methods) ==
    /\ stage = "read" /\ request[current] # None
    /\ Authorized(request[current]) /\ request[current].method \in methods

(* The answer is written and the next connection awaited.                  *)
Answer(text) ==
    /\ response' = [response EXCEPT ![current] = text]
    /\ current' = None
    /\ stage' = "accept"
    /\ UNCHANGED << failure, config, listening, halting, backlog, conn, request, ran >>

Refuse ==
    /\ stage = "read" /\ request[current] # None
    /\ ~Authorized(request[current])
    /\ Answer("error")
    /\ UNCHANGED << threads, coordinator, enabled, eventVars, posted, stopping, template,
                    handed >>

(* health, status and dump; a response over 64 KiB becomes an error.       *)
Read ==
    /\ Dispatched({"read"})
    /\ \E text \in {"ok", "error"} : Answer(text)
    /\ UNCHANGED << threads, coordinator, enabled, eventVars, posted, stopping, template,
                    handed >>

(* A method of the runtime rejects the request.                            *)
Reject ==
    /\ Dispatched({"shared", "scenario", "application"})
    /\ Answer("error")
    /\ UNCHANGED << threads, coordinator, enabled, eventVars, posted, stopping, template,
                    handed >>

(* The operation of the request is posted to the network thread.           *)
Post ==
    /\ posted' = Append(posted, current)
    /\ handed' = Append(handed, current)

(* A method of the runtime is carried out.  connect_peer, disconnect_peer, *)
(* ping and the submissions end with a post; begin_mining and the          *)
(* start_mining of a full node launch the mining thread or keep a          *)
(* candidate, and otherwise a template is asked for.                       *)
Execute ==
    /\ Dispatched({"shared", "scenario"})
    /\ "network" \in threads
    /\ Answer("ok")
    /\ \/ Post /\ UNCHANGED << threads, template >>
       \/ /\ Miner /\ ~enabled
          /\ \/ threads' = threads \cup {"worker"} /\ UNCHANGED << posted, handed, template >>
             \/ UNCHANGED << posted, handed, threads, template >>
             \/ /\ "full_node" \notin Roles /\ template = "none"
                /\ Post /\ template' = "asked" /\ UNCHANGED threads
    /\ \/ UNCHANGED eventVars
       \/ Emit("mining")
    /\ UNCHANGED << coordinator, enabled, stopping >>

StartContinuousMining ==
    /\ Dispatched({"application"})
    /\ MiningConfigured /\ ~enabled
    /\ Answer("ok")
    /\ enabled' = TRUE
    /\ coordinator' = Notified
    /\ Emit("mining")
    /\ UNCHANGED << threads, posted, stopping, template, handed >>

(* The mining thread is joined, and the coordinator notified twice.  A     *)
(* template that is asked for is forgotten; not one that is being taken.   *)
StopMining ==
    /\ Dispatched({"application"})
    /\ Miner
    /\ Answer("ok")
    /\ enabled' = FALSE
    /\ coordinator' = Notified
    /\ threads' = threads \ {"worker"}
    /\ template' = IF template = "asked" THEN "none" ELSE template
    /\ Emit("mining")
    /\ UNCHANGED << posted, stopping, handed >>

(* A mining thread that cannot be started throws out of the accept loop.   *)
ExecuteThrows ==
    /\ Dispatched({"shared", "scenario"})
    /\ Miner /\ ~enabled
    /\ Fail("thread", "stop")
    /\ listening' = FALSE
    /\ current' = None
    /\ UNCHANGED << config, threads, miningVars, eventVars, posted, stopping, template,
                    clientVars >>

(* Mutant: the flag the loop tests is not the one that is set.             *)
ShutdownAcknowledged ==
    /\ Dispatched({"shutdown"})
    /\ Answer("ok")
    /\ UNCHANGED << threads, coordinator, enabled, eventVars, posted, stopping, template,
                    handed >>

Shutdown ==
    /\ Dispatched({"shutdown"})
    /\ Answer("ok")
    /\ stopping' = TRUE
    /\ UNCHANGED << threads, coordinator, enabled, eventVars, posted, template, handed >>

(* Mutant: "stopped" is announced when the loop is left.                   *)
LeaveLoopAnnounced ==
    /\ stage = "accept" /\ stopping
    /\ stage' = "stop"
    /\ Emit("stopped")
    /\ UNCHANGED << failure, config, threads, listening, miningVars, posted, loopVars,
                    clientVars >>

LeaveLoop ==
    /\ stage = "accept" /\ stopping
    /\ stage' = "stop"
    /\ UNCHANGED << failure, config, threads, listening, miningVars, eventVars,
                    posted, loopVars, clientVars >>

--------------------------------------------------------------------------------
(* The other threads.                                                      *)

(* Peers may connect as soon as the listener is open, before "ready".      *)
Event ==
    /\ \/ "network" \in threads /\ Emit("peer")
       \/ coordinator = "working" /\ Emit("mining")
       \/ "worker" \in threads /\ Emit("mining")
    /\ UNCHANGED << stage, failure, config, threads, listening, miningVars, posted,
                    loopVars, clientVars >>

(* The network thread runs the next handler: an operation of a request,    *)
(* which may find its session gone, or that of stop(), after which it      *)
(* ends.  It does so between its other handlers.                           *)
RunPosted ==
    /\ "network" \in threads /\ posted # << >> /\ template # "taken"
    /\ posted' = Tail(posted)
    /\ IF Head(posted) = StopHandler
       THEN threads' = threads \ {"network"} /\ UNCHANGED ran
       ELSE ran' = Append(ran, Head(posted)) /\ UNCHANGED threads
    /\ UNCHANGED << stage, failure, config, listening, miningVars, eventVars, loopVars,
                    backlog, conn, request, response, handed >>

(* The coordinator in its cycle launches the mining thread, if the process *)
(* is a full node, or asks a peer for a template; stop_mining excludes     *)
(* that, stop_network() may come between the test of the flags and this.   *)
Cycle ==
    /\ coordinator = "working" /\ (enabled \/ halting)
    /\ IF "full_node" \in Roles
       THEN threads' = threads \cup {"worker"} /\ UNCHANGED template
       ELSE template = "none" /\ template' = "asked" /\ UNCHANGED threads
    /\ UNCHANGED << stage, failure, config, listening, miningVars, eventVars, posted,
                    stopping, current, clientVars >>

(* handle_block_template(): it is rejected, kept for begin_mining, or      *)
(* taken ...                                                               *)
TakeTemplate ==
    /\ template = "asked" /\ "network" \in threads
    /\ \/ template' = "taken" /\ UNCHANGED eventVars
       \/ template' = "none" /\ Emit("mining")
       \/ UNCHANGED template /\ Emit("mining")
    /\ UNCHANGED << stage, failure, config, threads, listening, miningVars, posted,
                    stopping, current, clientVars >>

(* ... and the mining thread launched, whatever has happened meanwhile.    *)
LaunchTemplate ==
    /\ template = "taken" /\ "network" \in threads
    /\ template' = "none"
    /\ threads' = threads \cup {"worker"}
    /\ Emit("mining")
    /\ UNCHANGED << stage, failure, config, listening, miningVars, posted,
                    stopping, current, clientVars >>

--------------------------------------------------------------------------------
(* The clients: call_rpc() and other connections, which may stay silent.   *)

Connect(c) ==
    /\ c \in process.clients
    /\ conn[c] = "new" /\ listening
    /\ conn' = [conn EXCEPT ![c] = "connected"]
    /\ backlog' = Append(backlog, c)
    /\ UNCHANGED << startVars, loopVars, request, response, handVars >>

Send(c) ==
    /\ conn[c] = "connected"
    /\ conn' = [conn EXCEPT ![c] = "sent"]
    /\ \E r \in Requests : request' = [request EXCEPT ![c] = r]
    /\ UNCHANGED << startVars, loopVars, backlog, response, handVars >>

Receive(c) ==
    /\ conn[c] = "sent" /\ response[c] # None
    /\ conn' = [conn EXCEPT ![c] = response[c]]
    /\ UNCHANGED << startVars, loopVars, backlog, request, response, handVars >>

(* The deadline of five seconds passes before an answer has come.          *)
Timeout(c) ==
    /\ conn[c] = "sent"
    /\ conn' = [conn EXCEPT ![c] = "timeout"]
    /\ UNCHANGED << startVars, loopVars, backlog, request, response, handVars >>

(* A connection that never carries a whole request is closed by its client, *)
(* or by the end of the process.                                           *)
Close(c) ==
    /\ \/ conn[c] = "connected"
       \/ conn[c] = "sent" /\ stage = "ended" /\ response[c] = None
    /\ conn' = [conn EXCEPT ![c] = "closed"]
    /\ UNCHANGED << startVars, loopVars, backlog, request, response, handVars >>

--------------------------------------------------------------------------------
Serve ==
    \/ Accept \/ ReadFails \/ Refuse \/ Read \/ Reject \/ Execute
    \/ StartContinuousMining \/ StopMining \/ Shutdown \/ LeaveLoop

(* The start, the end and the coordinator, which leave the loop alone.     *)
Life ==
    /\ Begin \/ Finish \/ Coordinate \/ CoordinatorWakes
    /\ UNCHANGED << loopVars, clientVars >>

Beside == Event \/ RunPosted \/ Cycle \/ TakeTemplate \/ LaunchTemplate

Client(c) == Connect(c) \/ Send(c) \/ Receive(c) \/ Timeout(c) \/ Close(c)

(* Only load_or_create_token() writes the token file.                      *)
ControlNext ==
    /\ UNCHANGED process
    /\ \/ \E r \in Runs : Step(r) /\ TokenCall(r) /\ UNCHANGED << loopVars, clientVars >>
       \/ /\ \/ Life \/ Serve \/ AcceptThrows \/ ExecuteThrows \/ Beside
             \/ \E c \in Clients : Client(c)
          /\ UNCHANGED vars

(* The threads go on where they can, and a client that is connected writes *)
(* its request or closes the connection in the end: nothing but that frees *)
(* the endpoint, whose read has no timeout.                                *)
ControlSpec ==
    /\ ControlInit /\ [][ControlNext]_controlVars
    /\ WF_stage(Begin) /\ WF_stage(Serve) /\ WF_stage(Finish)
    /\ WF_coordinator(Coordinate)
    /\ WF_posted(RunPosted) /\ WF_template(LaunchTemplate)
    /\ \A c \in Clients : WF_conn(Send(c) \/ Close(c)) /\ WF_conn(Receive(c))

--------------------------------------------------------------------------------
(* An "ok" to connect_peer, disconnect_peer, ping, a submission or the     *)
(* start_mining of a mere miner says that the operation was handed to the  *)
(* network thread.  What was handed over is run, in the order of the       *)
(* answers, before the process ends, also when a shutdown or a failure of  *)
(* the endpoint follows at once and whether or not the client waited.      *)
AcknowledgedRuns ==
    /\ ran = SubSeq(handed, 1, Len(ran))
    /\ stage \in {"stopped", "ended"} => ran = handed

(* No thread outlives the main thread, on any way out of the process: the  *)
(* threads use the objects that run_runtime_node() destroys when it returns. *)
NothingOutlives == stage \in {"stopped", "ended"} => threads = {}

(* A configuration that passed load_application_config() and the tests of  *)
(* run_application_node() is one the node can start with: none of the      *)
(* later tests (a reward address, the scope of the listener and of every   *)
(* initial peer, whether mining can start) fails then, and no start that   *)
(* is refused for its configuration has touched the token file.            *)
AcceptedStarts ==
    ~Scenario =>
        /\ failure \notin {"no_reward", "listener_refused", "peer_refused", "mining"}
        /\ failure \in LoadErrors \cup ApplicationErrors => pc[Self] = "start"

(* After "stopped" comes nothing, although three threads write events of   *)
(* their own; and mining, whose coordinator runs before "ready", writes    *)
(* none before it.                                                         *)
EventsFramed ==
    [][/\ last # "stopped"
       /\ last' = "mining" => announced]_eventVars

(* A shutdown that a client has sent with the token it shares with the     *)
(* node is carried out, however many connections are ahead of it, unless   *)
(* the endpoint fails; and once it is, the process ends, unless the        *)
(* coordinator has missed the notification.                                *)
ShutdownEnds ==
    \A c \in Clients :
        conn[c] = "sent" /\ request[c].token = SharedToken /\ request[c].method = "shutdown"
            ~> stage = "ended" \/ Missed

(* A shutdown that was acknowledged leads to the final event "stopped".    *)
ShutdownCompletes == stopping ~> last = "stopped"
================================================================================
