--------------------------------- MODULE Mining ---------------------------------
(***************************************************************************)
(* The mining part of NodeRuntime (src/node/control_server.cpp): the       *)
(* thread that serves control requests, the coordinator of continuous      *)
(* mining, the network thread and the mining thread of one process, and    *)
(* the full node the blocks go to.  With Local the process is itself that  *)
(* full node; without, it is mining-only and asks a source for templates   *)
(* over a session.                                                         *)
(*                                                                         *)
(* A block is the path that leads to it: the empty sequence is Genesis,    *)
(* and a label is added per block, so a block is its own id, Len its       *)
(* height and Front its parent.  Every block has the same target, so the   *)
(* longest path wins and the first one is kept on a tie.                   *)
(***************************************************************************)
EXTENDS Integers, Sequences, SequencesExt

CONSTANTS
  Settings,   \* the processes, and what happens around them, that are looked at
  None        \* no value

ASSUME MiningAssumption ==
  \A s \in Settings :
    /\ {s.local, s.scenario, s.synced, s.exhaustible, s.forks, s.patient,
        s.connected} \subseteq BOOLEAN
    /\ {s.heights, s.calls, s.requests, s.sessions} \subseteq Nat

VARIABLES
  setting,       \* the setting, which never changes
  stored, tip,   \* the chain of the full node
  enabled,       \* continuous_mining_enabled_
  stopping,      \* runtime_stopping_
  cancelled,     \* mining_cancelled_
  active,        \* mining_active_
  state,         \* mining_state_
  pending,       \* pending_template_request_
  source,        \* mining_source_peer_
  parent,        \* mining_parent_, which also gives mining_height_
  found,         \* found_block_id_
  known,         \* mining_known_tip_, which also gives mining_known_height_
  deferred,      \* defer_mining_start_
  prepared,      \* prepared_mining_candidate_ and prepared_mining_peer_
  requests,      \* next_template_request_ - 1
  operation,     \* who holds mining_operation_mutex_
  worker,        \* mining_thread_: "none" if not joinable, "done" if ended
  pc, work,      \* of the other threads: where each is, and what it works on
  lastWait,      \* last_wait_reason of the coordinator
  session,       \* the session with the source, 0 if there is none
  sessions,      \* the sessions there have been
  toSource, toMiner,   \* the frames on their way
  calls, reply   \* the control requests made, and the last reply

flags == <<enabled, stopping, cancelled, active>>
chain == <<stored, tip>>
jobs == <<pending, source, parent, found, known, deferred, prepared, requests>>
wire == <<session, sessions, toSource, toMiner>>
rpc == <<calls, reply>>
moving == <<chain, flags, state, jobs, operation, worker, pc, work, lastWait,
            wire, rpc>>
vars == <<moving, setting>>

Local == setting.local              \* there is a chain store: full node and miner
Scenario == setting.scenario        \* run by the scenario runner: no coordinator
Own == setting.own                  \* the labels of this miner's blocks
Other == setting.other              \* the labels of the blocks of all others
Synced == setting.synced            \* blocks also arrive by synchronization
Exhaustible == setting.exhaustible  \* the nonces of a candidate may run out
Forks == setting.forks              \* others also extend blocks that are not the tip
Patient == setting.patient          \* a request is made only when no work is on its way
Connected == setting.connected      \* the source is connected before any block is found
MaxHeight == setting.heights        \* bound: no block above this height is found
MaxCalls == setting.calls           \* bound on the control requests
MaxRequests == setting.requests     \* bound on the template requests
MaxSessions == setting.sessions     \* bound on the sessions with the source
Calls == setting.methods            \* the control requests that are made

Thread == {"rpc", "coordinator", "network"}
NoWork == [block |-> None, peer |-> 0, scheduled |-> FALSE]
Idle == [at |-> "none", block |-> None, peer |-> 0]
Known(b) == b \in stored

Init ==
  /\ setting \in Settings
  /\ stored = {<< >>} /\ tip = << >>
  /\ enabled \in BOOLEAN   \* auto_start, else a request has to enable it
  /\ enabled => ~Scenario
  /\ ~enabled => Scenario \/ "continuous" \in Calls
  /\ stopping = FALSE /\ cancelled = FALSE /\ active = FALSE
  /\ state = "idle"
  /\ pending = None /\ source = None /\ parent = None /\ found = None
  /\ known = << >> /\ deferred = FALSE /\ prepared = None /\ requests = 0
  /\ operation = None
  /\ worker = Idle
  /\ pc \in {[t \in Thread |-> IF t = "coordinator" THEN place ELSE "idle"] :
              place \in IF enabled THEN {"idle", "blocked"} ELSE {"idle"}}
  /\ work = [t \in Thread |-> NoWork]
  /\ lastWait = None
  /\ session = IF Connected THEN 1 ELSE 0
  /\ sessions = session
  /\ toSource = << >> /\ toMiner = << >>
  /\ calls = 0 /\ reply = None

Goto(t, place) == pc' = [pc EXCEPT ![t] = place]

(* notify_all(), which is called without mining_coordinator_mutex_: it wakes *)
(* a coordinator that is blocked, not one that is about to be. *)
Notified(p) == IF p["coordinator"] = "blocked" THEN [p EXCEPT !["coordinator"] = "idle"] ELSE p

Working(t, b, peer, scheduled) ==
  work' = [work EXCEPT ![t] = [block |-> b, peer |-> peer, scheduled |-> scheduled]]
WorkerAt(place) == worker' = [worker EXCEPT !.at = place]

(* ChainStore::append *)
Appends(b) == ~Known(b) /\ Known(Front(b))
NewTip(b) == IF Appends(b) /\ Len(b) > Len(tip) THEN b ELSE tip
AppendBlock(b) ==
  /\ stored' = IF Appends(b) THEN stored \cup {b} ELSE stored
  /\ tip' = NewTip(b)

-----------------------------------------------------------------------------
(* start_mining, called by a control request or by the coordinator. *)

(* mining_cycle_pending *)
CyclePending ==
  active \/ pending # None \/ prepared # None \/ state = "submitted"

(* The conditions of start_mining up to the template: the error, or None. *)
StartError(continuous) ==
  IF continuous # enabled THEN "mode"
  ELSE IF active THEN "active"
  ELSE IF pending # None \/ prepared # None \/ state = "submitted" THEN "pending"
  ELSE IF ~Local /\ session = 0 THEN "no source"
  ELSE None

(* A source was found: the next request id is taken. *)
StartWork(t, defer) ==
  /\ Local \/ requests < MaxRequests
  /\ Goto(t, IF Local THEN "create" ELSE "request")
  /\ Working(t, None, session, defer)
  /\ requests' = IF Local THEN requests ELSE requests + 1

(* The end of start_mining: the coordinator gives its mutex back. *)
Returns(t, error) ==
  IF t = "coordinator"
  THEN /\ operation' = None
       /\ Goto(t, IF error = None THEN "idle" ELSE "failed")
       /\ lastWait' = IF error = None THEN None ELSE lastWait
       /\ work' = [work EXCEPT ![t] = [NoWork EXCEPT !.block = error]]
       /\ UNCHANGED reply
  ELSE /\ Goto(t, "idle")
       /\ reply' = IF t = "network" THEN reply
                   ELSE IF error = None THEN "ok" ELSE "error"
       /\ work' = [work EXCEPT ![t] = NoWork]
       /\ UNCHANGED <<operation, lastWait>>

(* With a chain store: a candidate on the tip, under state_mutex_. *)
CreateCandidate(t) ==
  /\ pc[t] = "create"
  /\ \E l \in Own : Working(t, Append(tip, l), 0, work[t].scheduled)
  /\ Goto(t, "publish")
  /\ UNCHANGED <<chain, flags, state, jobs, operation, worker, lastWait, wire, rpc, setting>>

(* The candidate is kept for begin_mining, or mined at once. *)
PublishCandidate(t) ==
  /\ pc[t] = "publish"
  /\ parent' = Front(work[t].block)
  /\ IF work[t].scheduled
     THEN /\ prepared' = [block |-> work[t].block, peer |-> 0]
          /\ state' = "ready"
          /\ Returns(t, None)
     ELSE /\ Goto(t, "join")
          /\ UNCHANGED <<prepared, state, work, operation, lastWait, reply>>
  /\ UNCHANGED <<chain, flags, pending, source, found, known, deferred, requests,
                 worker, wire, calls, setting>>

(* Without: the request is noted before it is sent. *)
NoteRequest(t) ==
  /\ pc[t] = "request"
  /\ source' = work[t].peer
  /\ pending' = requests
  /\ deferred' = work[t].scheduled
  /\ state' = "preparing"
  /\ Goto(t, "send")
  /\ UNCHANGED <<chain, flags, parent, found, known, prepared, requests,
                 operation, worker, work, lastWait, wire, rpc, setting>>

SendRequest(t) ==
  /\ pc[t] = "send"
  /\ IF session = work[t].peer
     THEN /\ toSource' = Append(toSource, [type |-> "request", id |-> requests,
                                       peer |-> session])
          /\ Returns(t, None)
          /\ UNCHANGED <<source, pending, deferred, state>>
     ELSE /\ source' = None /\ pending' = None /\ deferred' = FALSE
          /\ state' = "idle"
          /\ Returns(t, "send")
          /\ UNCHANGED toSource
  /\ UNCHANGED <<chain, flags, parent, found, known, prepared, requests,
                 worker, session, sessions, toMiner, calls, setting>>

-----------------------------------------------------------------------------
(* launch_mining: the old thread is joined, then the new one started. *)

Join(t) ==
  /\ pc[t] = "join"
  /\ IF worker.at = "none" THEN Goto(t, "reset") /\ UNCHANGED cancelled
                           ELSE Goto(t, "joining") /\ cancelled' = TRUE
  /\ UNCHANGED <<chain, enabled, stopping, active, state, jobs, operation, worker,
                 work, lastWait, wire, rpc, setting>>

Joined(t) ==
  /\ pc[t] = "joining"
  /\ worker.at \in {"done", "none"}
  /\ worker' = Idle
  /\ Goto(t, "reset")
  /\ UNCHANGED <<chain, flags, state, jobs, operation, work, lastWait, wire, rpc, setting>>

Reset(t) ==
  /\ pc[t] = "reset"
  /\ cancelled' = FALSE
  /\ active' = TRUE
  /\ Goto(t, "launch")
  /\ UNCHANGED <<chain, enabled, stopping, state, jobs, operation, worker, work,
                 lastWait, wire, rpc, setting>>

Launch(t) ==
  /\ pc[t] = "launch"
  /\ found' = None
  /\ state' = IF work[t].scheduled THEN "scheduled" ELSE "running"
  /\ worker' = [at |-> IF work[t].scheduled THEN "sleep" ELSE "check",
                block |-> work[t].block, peer |-> work[t].peer]
  /\ Returns(t, None)
  /\ UNCHANGED <<chain, flags, pending, source, parent, known, deferred, prepared,
                 requests, wire, calls, setting>>

-----------------------------------------------------------------------------
(* The mining thread. *)

(* The time of begin_mining has come. *)
Wake ==
  /\ worker.at = "sleep"
  /\ IF cancelled THEN WorkerAt("leave") /\ UNCHANGED state
                  ELSE WorkerAt("check") /\ state' = "running"
  /\ UNCHANGED <<chain, flags, jobs, operation, pc, work, lastWait, wire, rpc, setting>>

(* The condition of the loop, between two batches of nonces. *)
CheckCancelled ==
  /\ worker.at = "check"
  /\ WorkerAt(IF cancelled THEN "leave" ELSE "batch")
  /\ UNCHANGED <<chain, flags, state, jobs, operation, pc, work, lastWait, wire, rpc, setting>>

(* mine_block returns: attempt limit reached, nonces exhausted, or found. *)
BatchEnds ==
  /\ worker.at = "batch"
  /\ WorkerAt("check")
  /\ UNCHANGED <<chain, flags, state, jobs, operation, pc, work, lastWait, wire, rpc, setting>>

Exhausted ==
  /\ Exhaustible
  /\ worker.at = "batch"
  /\ active' = FALSE
  /\ WorkerAt("failed")
  /\ UNCHANGED <<chain, enabled, stopping, cancelled, state, jobs, operation, pc,
                 work, lastWait, wire, rpc, setting>>

Found ==
  /\ worker.at = "batch"
  /\ Len(worker.block) <= MaxHeight
  /\ found' = worker.block
  /\ WorkerAt("found")
  /\ UNCHANGED <<chain, flags, state, pending, source, parent, known, deferred,
                 prepared, requests, operation, pc, work, lastWait, wire, rpc, setting>>

(* mining_active_ is cleared on every way out, before the state is set. *)
Deactivate ==
  /\ worker.at \in {"leave", "found"}
  /\ active' = FALSE
  /\ WorkerAt(IF worker.at = "found" THEN "submitting" ELSE "cancelled")
  /\ UNCHANGED <<chain, enabled, stopping, cancelled, state, jobs, operation, pc,
                 work, lastWait, wire, rpc, setting>>

(* set_mining_state at the end of a cycle without a block. *)
EndFruitless ==
  /\ worker.at \in {"cancelled", "failed"}
  /\ state' = worker.at
  /\ WorkerAt("done")
  /\ UNCHANGED <<chain, flags, jobs, operation, pc, work, lastWait, wire, rpc, setting>>

Submitted ==
  /\ worker.at = "submitting"
  /\ state' = "submitted"
  /\ WorkerAt(IF worker.peer = 0 THEN "append" ELSE "submit")
  /\ UNCHANGED <<chain, flags, jobs, operation, pc, work, lastWait, wire, rpc, setting>>

(* handle_block(0, ...) of the own block: active is FALSE by now unless *)
(* another thread has launched meanwhile, which waits for this one. *)
AppendOwn ==
  /\ worker.at = "append"
  /\ AppendBlock(worker.block)
  /\ cancelled' = (cancelled \/ (active /\ tip' # tip))
  /\ known' = IF tip' # tip THEN tip' ELSE known
  /\ WorkerAt("conclude")
  /\ UNCHANGED <<enabled, stopping, active, state, pending, source, parent, found,
                 deferred, prepared, requests, operation, pc, work, lastWait, wire, rpc, setting>>

(* Mutant: a block that is not the tip leaves the state as it is. *)
ConcludeAccepted ==
  /\ worker.at = "conclude"
  /\ state' = IF tip = worker.block THEN "accepted" ELSE state
  /\ WorkerAt("done")
  /\ UNCHANGED <<chain, flags, jobs, operation, pc, work, lastWait, wire, rpc, setting>>

Conclude ==
  /\ worker.at = "conclude"
  /\ state' = IF tip = worker.block THEN "accepted" ELSE "rejected"
  /\ WorkerAt("done")
  /\ UNCHANGED <<chain, flags, jobs, operation, pc, work, lastWait, wire, rpc, setting>>

(* The block goes to the peer the template came from, if it is still there. *)
SubmitBlock ==
  /\ worker.at = "submit"
  /\ toSource' = IF session = worker.peer
                 THEN Append(toSource, [type |-> "submit", block |-> worker.block,
                                       peer |-> session])
                 ELSE toSource
  /\ WorkerAt("done")
  /\ UNCHANGED <<chain, flags, state, jobs, operation, pc, work, lastWait,
                 session, sessions, toMiner, rpc, setting>>

-----------------------------------------------------------------------------
(* The coordinator of continuous mining: in wait() it tests the flags, and *)
(* then blocks until it is notified. *)

CoordinatorTests ==
  /\ ~Scenario
  /\ pc["coordinator"] = "idle"
  /\ ~enabled /\ ~stopping
  /\ Goto("coordinator", "tested")
  /\ UNCHANGED <<chain, flags, state, jobs, operation, worker, work, lastWait, wire, rpc, setting>>

CoordinatorBlocks ==
  /\ pc["coordinator"] = "tested"
  /\ Goto("coordinator", "blocked")
  /\ UNCHANGED <<chain, flags, state, jobs, operation, worker, work, lastWait, wire, rpc, setting>>

(* set_mining_state() notifies as well, and a wait may end without cause. *)
CoordinatorWakes ==
  /\ pc["coordinator"] = "blocked"
  /\ Goto("coordinator", "idle")
  /\ UNCHANGED <<chain, flags, state, jobs, operation, worker, work, lastWait, wire, rpc, setting>>

CoordinatorLooks ==
  /\ ~Scenario
  /\ pc["coordinator"] = "idle"
  /\ enabled /\ ~stopping
  /\ ~CyclePending
  /\ Goto("coordinator", "try")
  /\ UNCHANGED <<chain, flags, state, jobs, operation, worker, work, lastWait, wire, rpc, setting>>

(* Under mining_operation_mutex_: start_mining if still enabled. *)
CoordinatorTries ==
  /\ pc["coordinator"] = "try"
  /\ operation = None
  /\ CASE ~enabled \/ stopping ->
            /\ Goto("coordinator", "idle")
            /\ UNCHANGED <<work, requests, operation>>
       [] enabled /\ ~stopping /\ StartError(TRUE) # None ->
            /\ Goto("coordinator", "failed")
            /\ Working("coordinator", StartError(TRUE), 0, FALSE)
            /\ UNCHANGED <<requests, operation>>
       [] OTHER -> StartWork("coordinator", FALSE) /\ operation' = "coordinator"
  /\ UNCHANGED <<chain, flags, state, pending, source, parent, found, known, deferred,
                 prepared, worker, lastWait, wire, rpc, setting>>

(* A new reason to wait is shown in the mining state. *)
CoordinatorWaits ==
  LET error == work["coordinator"].block IN
  /\ pc["coordinator"] = "failed"
  /\ IF enabled /\ ~stopping /\ error # lastWait
     THEN state' = "waiting" /\ lastWait' = error
     ELSE UNCHANGED <<state, lastWait>>
  /\ Goto("coordinator", "idle")
  /\ work' = [work EXCEPT !["coordinator"] = NoWork]
  /\ UNCHANGED <<chain, flags, jobs, operation, worker, wire, rpc, setting>>

-----------------------------------------------------------------------------
(* The network thread of a full node that mines. *)

NewBlock ==
  { b \in { Append(p, l) : p \in IF Forks THEN stored ELSE {tip}, l \in Other } :
      Len(b) <= MaxHeight /\ ~Known(b) }

(* handle_block up to the end of state_mutex_. *)
HandleBlock ==
  /\ Local
  /\ pc["network"] = "idle"
  /\ \E b \in NewBlock : AppendBlock(b)
  /\ Goto("network", IF tip' # tip THEN "tip changed" ELSE "idle")
  /\ UNCHANGED <<flags, state, jobs, operation, worker, work, lastWait, wire, rpc, setting>>

(* ... and what follows it: work that goes on is cancelled. *)
TipChanged ==
  /\ pc["network"] = "tip changed"
  /\ cancelled' = (cancelled \/ active)
  /\ known' = tip
  /\ Goto("network", "idle")
  /\ UNCHANGED <<chain, enabled, stopping, active, state, pending, source, parent,
                 found, deferred, prepared, requests, operation, worker, work,
                 lastWait, wire, rpc, setting>>

(* handle_blocks: one block of a batch. *)
HandleSyncedBlock ==
  /\ Local /\ Synced
  /\ pc["network"] = "idle"
  /\ \E b \in NewBlock : AppendBlock(b)
  /\ UNCHANGED <<flags, state, jobs, operation, worker, pc, work, lastWait, wire, rpc, setting>>

-----------------------------------------------------------------------------
(* The network thread of a mining-only process. *)

Receives(type) ==
  /\ pc["network"] = "idle"
  /\ toMiner # << >>
  /\ Head(toMiner).type = type
  /\ toMiner' = Tail(toMiner)

(* handle_block_template: the answer must be to the pending request. *)
HandleTemplate ==
  /\ Receives("template")
  /\ IF source = session /\ pending = Head(toMiner).id
     THEN Goto("network", "template") /\ Working("network", Head(toMiner).block, session, FALSE)
     ELSE UNCHANGED <<pc, work>>
  /\ UNCHANGED <<chain, flags, state, jobs, operation, worker, lastWait,
                 session, sessions, toSource, rpc, setting>>

(* ... and the template must extend the known tip; if not, it is dropped. *)
TakeTemplate ==
  LET b == work["network"].block IN
  /\ pc["network"] = "template"
  /\ IF Front(b) # known
     THEN /\ Goto("network", "idle")
          /\ work' = [work EXCEPT !["network"] = NoWork]
          /\ UNCHANGED <<pending, parent, deferred, prepared, state>>
     ELSE /\ pending' = None
          /\ parent' = Front(b)
          /\ deferred' = FALSE
          /\ IF deferred
             THEN /\ prepared' = [block |-> b, peer |-> work["network"].peer]
                  /\ state' = "ready"
                  /\ Goto("network", "idle")
                  /\ work' = [work EXCEPT !["network"] = NoWork]
             ELSE /\ Goto("network", "join")
                  /\ UNCHANGED <<prepared, state, work>>
  /\ UNCHANGED <<chain, flags, source, found, known, requests, operation, worker,
                 lastWait, wire, rpc, setting>>

(* extends_known_tip or extends_candidate *)
Extends(b) ==
  \/ Front(b) = known
  \/ parent # None /\ Front(b) = parent /\ Len(b) > Len(known)

(* handle_block without a chain store, up to the cancellation. *)
HandleRelayed ==
  LET b == Head(toMiner).block IN
  /\ Receives("block")
  /\ IF Extends(b)
     THEN /\ Goto("network", "adopt")
          /\ Working("network", b, 0, FALSE)
          /\ cancelled' = (cancelled \/ active)
     ELSE UNCHANGED <<pc, work, cancelled>>
  /\ UNCHANGED <<chain, enabled, stopping, active, state, jobs, operation, worker,
                 lastWait, session, sessions, toSource, rpc, setting>>

AdoptTip ==
  LET b == work["network"].block IN
  /\ pc["network"] = "adopt"
  /\ known' = b
  /\ Goto("network", IF found = b THEN "own" ELSE "idle")
  /\ work' = [work EXCEPT !["network"] = NoWork]
  /\ UNCHANGED <<chain, flags, state, pending, source, parent, found, deferred,
                 prepared, requests, operation, worker, lastWait, wire, rpc, setting>>

OwnBlockRelayed ==
  /\ pc["network"] = "own"
  /\ state' = "accepted"
  /\ Goto("network", "idle")
  /\ UNCHANGED <<chain, flags, jobs, operation, worker, work, lastWait, wire, rpc, setting>>

(* Mutant: a stale submission leaves the state as it is. *)
HandleResultStale ==
  LET m == Head(toMiner) IN
  /\ Receives("result")
  /\ IF found = m.block
     THEN /\ known' = IF m.accepted /\ parent # None THEN m.block ELSE known
          /\ state' = IF m.accepted THEN "accepted"
                      ELSE IF m.stale THEN state ELSE "rejected"
     ELSE UNCHANGED <<known, state>>
  /\ UNCHANGED <<chain, flags, pending, source, parent, found, deferred, prepared,
                 requests, operation, worker, pc, work, lastWait,
                 session, sessions, toSource, rpc, setting>>

(* Mutant: the own block does not become the known tip. *)
HandleResultUnseen ==
  LET m == Head(toMiner) IN
  /\ Receives("result")
  /\ state' = IF found # m.block THEN state
              ELSE IF m.accepted THEN "accepted"
              ELSE IF m.stale THEN "cancelled" ELSE "rejected"
  /\ UNCHANGED <<chain, flags, jobs, operation, worker, pc, work, lastWait,
                 session, sessions, toSource, rpc, setting>>

(* handle_block_result; mining_height_ may have been reset meanwhile. *)
HandleResult ==
  LET m == Head(toMiner) IN
  /\ Receives("result")
  /\ IF found = m.block
     THEN /\ known' = IF m.accepted /\ parent # None THEN m.block ELSE known
          /\ state' = IF m.accepted THEN "accepted"
                      ELSE IF m.stale THEN "cancelled" ELSE "rejected"
     ELSE UNCHANGED <<known, state>>
  /\ UNCHANGED <<chain, flags, pending, source, parent, found, deferred, prepared,
                 requests, operation, worker, pc, work, lastWait,
                 session, sessions, toSource, rpc, setting>>

-----------------------------------------------------------------------------
(* The source of a mining-only process, and the session with it. *)

Relay(m) == toMiner' = IF session = 0 THEN toMiner ELSE Append(toMiner, m)

(* handle_template_request *)
SourceTemplate ==
  LET m == Head(toSource) IN
  /\ toSource # << >> /\ m.type = "request"
  /\ toSource' = Tail(toSource)
  /\ IF m.peer = session
     THEN \E l \in Own :
            Relay([type |-> "template", id |-> m.id, block |-> Append(tip, l)])
     ELSE UNCHANGED toMiner
  /\ UNCHANGED <<chain, flags, state, jobs, operation, worker, pc, work, lastWait,
                 session, sessions, rpc, setting>>

(* handle_block of a submission, with the reason codes 0, 1 and 3 in the *)
(* result; the block itself is relayed to all sessions but the one it came by. *)
SourceSubmission ==
  LET m == Head(toSource) IN
  /\ toSource # << >> /\ m.type = "submit"
  /\ toSource' = Tail(toSource)
  /\ AppendBlock(m.block)
  /\ IF m.peer = session
     THEN Relay([type |-> "result", block |-> m.block, accepted |-> tip' # tip,
                 stale |-> ~Known(m.block)])
     ELSE IF Appends(m.block) THEN Relay([type |-> "block", block |-> m.block])
     ELSE UNCHANGED toMiner
  /\ UNCHANGED <<flags, state, jobs, operation, worker, pc, work, lastWait,
                 session, sessions, rpc, setting>>

(* A block of another miner: relayed, unless it came by synchronization. *)
SourceBlock ==
  /\ ~Local
  /\ \E b \in NewBlock :
       /\ AppendBlock(b)
       /\ \/ Relay([type |-> "block", block |-> b])
          \/ Synced /\ UNCHANGED toMiner
  /\ UNCHANGED <<flags, state, jobs, operation, worker, pc, work, lastWait,
                 session, sessions, toSource, rpc, setting>>

(* PeerNetwork connects, and connects again after the session is lost. *)
SessionUp ==
  /\ ~Local
  /\ pc["network"] = "idle"
  /\ session = 0 /\ sessions < MaxSessions
  /\ session' = sessions + 1 /\ sessions' = sessions + 1
  /\ UNCHANGED <<chain, flags, state, jobs, operation, worker, pc, work, lastWait,
                 toSource, toMiner, rpc, setting>>

(* The session is lost, and what the source has not read yet with it. *)
SessionLost ==
  /\ pc["network"] = "idle"
  /\ session # 0 /\ sessions < MaxSessions
  /\ session' = 0 /\ toMiner' = << >>
  /\ toSource' \in {toSource, << >>}
  /\ UNCHANGED <<chain, flags, state, jobs, operation, worker, pc, work, lastWait,
                 sessions, rpc, setting>>

-----------------------------------------------------------------------------
(* Control requests, one at a time. *)

Request(call) ==
  /\ call \in Calls
  /\ pc["rpc"] = "idle"
  /\ calls < MaxCalls
  /\ Patient => state \notin {"preparing", "scheduled", "running", "submitted"}
  /\ calls' = calls + 1

(* start_mining, once, or up to the prepared candidate. *)
StartMining(defer) ==
  /\ Request(IF defer THEN "defer" ELSE "start")
  /\ IF StartError(FALSE) = None
     THEN StartWork("rpc", defer) /\ reply' = None
     ELSE reply' = "error" /\ UNCHANGED <<pc, work, requests>>
  /\ UNCHANGED <<chain, flags, state, pending, source, parent, found, known, deferred,
                 prepared, operation, worker, lastWait, wire, setting>>

(* begin_mining of the prepared candidate, now or at a time to come. *)
BeginMining ==
  /\ Scenario
  /\ Request("begin")
  /\ IF prepared = None
     THEN reply' = "error" /\ UNCHANGED <<prepared, pc, work>>
     ELSE /\ \E scheduled \in BOOLEAN :
               Working("rpc", prepared.block, prepared.peer, scheduled)
          /\ prepared' = None
          /\ Goto("rpc", "join")
          /\ reply' = None
  /\ UNCHANGED <<chain, flags, state, pending, source, parent, found, known, deferred,
                 requests, operation, worker, lastWait, wire, setting>>

StartContinuousMining ==
  /\ ~Scenario
  /\ Request("continuous")
  /\ enabled' = TRUE
  /\ reply' = IF enabled THEN "error" ELSE "ok"
  /\ pc' = IF enabled THEN pc ELSE Notified(pc)
  /\ UNCHANGED <<chain, stopping, cancelled, active, state, jobs, operation, worker,
                 work, lastWait, wire, setting>>

(* Mutant: continuous mode stays enabled. *)
StopMiningEnabled ==
  /\ ~Scenario
  /\ Request("stop")
  /\ reply' = None
  /\ Goto("rpc", "stop")
  /\ UNCHANGED <<chain, flags, state, jobs, operation, worker, work, lastWait, wire, setting>>

(* stop_mining: continuous mode ends before the mutex is asked for. *)
StopMining ==
  /\ ~Scenario
  /\ Request("stop")
  /\ enabled' = FALSE
  /\ reply' = None
  /\ pc' = [Notified(pc) EXCEPT !["rpc"] = "stop"]
  /\ UNCHANGED <<chain, stopping, cancelled, active, state, jobs, operation, worker,
                 work, lastWait, wire, setting>>

(* Mutant: the mining thread is not told to stop. *)
StopClearsOnly ==
  /\ pc["rpc"] = "stop"
  /\ operation = None
  /\ operation' = "rpc"
  /\ pending' = None /\ source' = None /\ parent' = None /\ found' = None
  /\ prepared' = None /\ deferred' = FALSE
  /\ Goto("rpc", "stop join")
  /\ UNCHANGED <<chain, flags, state, known, requests, worker, work, lastWait, wire, rpc, setting>>

StopClears ==
  /\ pc["rpc"] = "stop"
  /\ operation = None
  /\ operation' = "rpc"
  /\ cancelled' = TRUE
  /\ pending' = None /\ source' = None /\ parent' = None /\ found' = None
  /\ prepared' = None /\ deferred' = FALSE
  /\ Goto("rpc", "stop join")
  /\ UNCHANGED <<chain, enabled, stopping, active, state, known, requests, worker,
                 work, lastWait, wire, rpc, setting>>

StopJoins ==
  /\ pc["rpc"] = "stop join"
  /\ worker.at \in {"none", "done"}
  /\ worker' = Idle
  /\ Goto("rpc", "stopped")
  /\ UNCHANGED <<chain, flags, state, jobs, operation, work, lastWait, wire, rpc, setting>>

StopReturns ==
  /\ pc["rpc"] = "stopped"
  /\ active' = FALSE
  /\ state' = "stopped"
  /\ operation' = None
  /\ reply' = "stopped"
  /\ Goto("rpc", "idle")
  /\ UNCHANGED <<chain, enabled, stopping, cancelled, jobs, worker, work, lastWait,
                 wire, calls, setting>>

(* Two threads in join() of mining_thread_: undefined, the process may end. *)
BothJoin ==
  /\ pc["rpc"] = "stop join" /\ pc["network"] = "joining"
  /\ pc' = [t \in Thread |-> "ended"]
  /\ worker' = Idle
  /\ operation' = None
  /\ UNCHANGED <<chain, flags, state, jobs, work, lastWait, wire, rpc, setting>>

(* shutdown: run_runtime_node leaves its loop and calls stop_network. *)
Shutdown ==
  /\ Request("shutdown")
  /\ stopping' = TRUE /\ enabled' = FALSE /\ cancelled' = TRUE
  /\ reply' = None
  /\ pc' = [Notified(pc) EXCEPT !["rpc"] = "join coordinator"]
  /\ UNCHANGED <<chain, active, state, jobs, operation, worker, work, lastWait, wire, setting>>

(* The coordinator may have launched meanwhile: cancelled once more. *)
JoinCoordinator ==
  /\ pc["rpc"] = "join coordinator"
  /\ pc["coordinator"] = "idle"
  /\ cancelled' = TRUE
  /\ pc' = [pc EXCEPT !["rpc"] = "join network", !["coordinator"] = "ended"]
  /\ UNCHANGED <<chain, enabled, stopping, active, state, jobs, operation, worker,
                 work, lastWait, wire, rpc, setting>>

JoinNetwork ==
  /\ pc["rpc"] = "join network"
  /\ pc["network"] = "idle"
  /\ pc' = [pc EXCEPT !["rpc"] = "join worker", !["network"] = "ended"]
  /\ session' = 0 /\ toSource' = << >> /\ toMiner' = << >>
  /\ UNCHANGED <<chain, flags, state, jobs, operation, worker, work, lastWait,
                 sessions, rpc, setting>>

JoinWorker ==
  /\ pc["rpc"] = "join worker"
  /\ worker.at \in {"none", "done"}
  /\ worker' = Idle
  /\ Goto("rpc", "ended")
  /\ UNCHANGED <<chain, flags, state, jobs, operation, work, lastWait, wire, rpc, setting>>

-----------------------------------------------------------------------------
LaunchStep(t) == Join(t) \/ Joined(t) \/ Reset(t) \/ Launch(t)
StartStep(t) ==
  CreateCandidate(t) \/ PublishCandidate(t) \/ NoteRequest(t) \/ SendRequest(t)

CoordinatorStep ==
  \/ CoordinatorTests \/ CoordinatorBlocks
  \/ CoordinatorLooks \/ CoordinatorTries \/ CoordinatorWaits
  \/ StartStep("coordinator") \/ LaunchStep("coordinator")

NetworkStep ==
  \/ TipChanged \/ HandleTemplate \/ TakeTemplate \/ HandleRelayed \/ AdoptTip
  \/ OwnBlockRelayed \/ HandleResult \/ LaunchStep("network")

WorkerStep ==
  \/ Wake \/ CheckCancelled \/ BatchEnds \/ Deactivate \/ EndFruitless
  \/ Submitted \/ AppendOwn \/ Conclude \/ SubmitBlock

RpcStep ==
  \/ StartStep("rpc") \/ LaunchStep("rpc")
  \/ StopClears \/ StopJoins \/ StopReturns
  \/ JoinCoordinator \/ JoinNetwork \/ JoinWorker

SourceStep == SourceTemplate \/ SourceSubmission

Control ==
  \/ \E defer \in BOOLEAN : StartMining(defer)
  \/ BeginMining \/ StartContinuousMining \/ StopMining \/ Shutdown

Next ==
  \/ CoordinatorStep \/ NetworkStep \/ WorkerStep \/ RpcStep \/ SourceStep
  \/ Found \/ Exhausted \/ BothJoin \/ CoordinatorWakes
  \/ HandleBlock \/ HandleSyncedBlock \/ SourceBlock
  \/ SessionUp \/ SessionLost
  \/ Control

(* Every thread that can run does run, the source answers and the network *)
(* connects.  No thread is given a block to find. *)
Fairness ==
  /\ WF_moving(CoordinatorStep) /\ WF_moving(NetworkStep) /\ WF_moving(WorkerStep)
  /\ WF_moving(RpcStep) /\ WF_moving(SourceStep) /\ WF_moving(SessionUp)

Spec == Init /\ [][Next]_vars /\ Fairness

(* A miner that goes on searching finds a block in the end. *)
Lucky == SF_moving(Found)

-----------------------------------------------------------------------------
(* The notification of a change came between the coordinator's test and its *)
(* wait: it sleeps until the next one, and after a shutdown for ever. *)
Missed == pc["coordinator"] = "blocked" /\ (enabled \/ stopping)

(* stop_mining of a full node: once it has answered, and until the next *)
(* request, no mining thread exists and none is counted as active. *)
StopEndsWork ==
  Local /\ reply = "stopped" => worker.at = "none" /\ ~active

(* A mining-only process that was there before the first block, with a *)
(* source whose chain only grows, and asked for one thing at a time. *)
Attended == ~Local /\ Connected /\ Patient /\ ~Forks

(* handle_block, handle_block_result and the end of the mining thread: a *)
(* block is reported as accepted only if the full node has stored it, and *)
(* an attended mining-only process that has handled all its source has sent *)
(* knows the source's tip. *)
MinerKnowsChain ==
  /\ state = "accepted" /\ found # None => found \in stored
  /\ Attended /\ session # 0 /\ toMiner = << >> /\ pc["network"] # "adopt" =>
       known = tip

(* stop_mining of a full node waits for a mutex and for a thread, and *)
(* stop_network joins three threads: the first always answers and after the *)
(* second the process ends, whether or not a block is found, unless the *)
(* coordinator has missed the notification. *)
StopAnswers ==
  /\ (Local /\ pc["rpc"] = "stop") ~> pc["rpc"] \in {"idle", "ended"}
  /\ (Local /\ stopping) ~> pc["rpc"] = "ended" \/ Missed

(* start_continuous_mining: while continuous mode stays enabled, and the *)
(* source of a mining-only process connected, the chain goes on growing, *)
(* once the coordinator has noticed. *)
KeepsMining ==
  Lucky /\ <>[](enabled /\ ~Missed /\ (Local \/ session # 0)) =>
    <>(Len(tip) = MaxHeight)

(* The same of a full node, which is its own source. *)
FullNodeKeepsMining ==
  Lucky /\ <>[](enabled /\ ~Missed /\ Local) => <>(Len(tip) = MaxHeight)

(* start_mining, once, of an attended mining-only process: the work that was *)
(* started comes to a result, unless the process is shut down or the chain *)
(* is at the last height of the model. *)
WorkConcludes ==
  Lucky =>
    (Attended /\ state \in {"preparing", "scheduled", "running", "submitted"}) ~>
      \/ state \in {"ready", "accepted", "rejected", "cancelled", "failed"}
      \/ Len(tip) = MaxHeight \/ stopping
=============================================================================
