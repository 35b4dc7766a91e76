------------------------------ MODULE Submission -------------------------------
(***************************************************************************)
(* A process without a chain of its own (a networked wallet, a mining-only *)
(* node) that submits signed transactions to the full nodes it is          *)
(* connected to: submit_transaction(), submit_signed_transaction(),        *)
(* handle_transaction_result() and, on the full node, handle_transaction() *)
(* in src/node/control_server.cpp, over PeerNetwork::send().               *)
(*                                                                         *)
(* The control thread takes one request at a time.  send() only looks the  *)
(* peer up and posts the frame; the network thread hands it to the session *)
(* later, if the session still exists.  A peer id names one session and is *)
(* never used again.                                                       *)
(***************************************************************************)
EXTENDS Naturals, Sequences, FiniteSets, SequencesExt

CONSTANTS Txs,           \* the transactions that are submitted
          Nodes,         \* the full nodes
          MaxSessions,   \* bound on the sessions that are ever made
          MaxCalls,      \* bound on the requests to submit
          None

ASSUME SubmissionAssumption == MaxSessions \in Nat /\ MaxCalls \in Nat

VARIABLES made,        \* number of sessions made; their ids are 1..made
          node,        \* session id -> the full node at the other end
          alive,       \* the ids of the sessions that exist
          toNode,      \* session id -> transactions on their way to the node
          toWallet,    \* session id -> results on their way to the wallet
          posted,      \* sends the control thread has posted to the network thread
          call,        \* the request being handled: None or [tx, peer, step]
          calls,       \* number of requests so far
          state,       \* transaction_state_
          pendingId,   \* pending_transaction_id_
          pendingPeer, \* pending_transaction_peer_
          pool,        \* node -> the transactions it has admitted
          refused,     \* the pairs of a node and a transaction it has rejected
          reported,    \* transactions whose submission was answered with their id
          sent         \* transactions that were handed to a session

wallet == << state, pendingId, pendingPeer >>
sessions == << made, node, alive >>
frames == << toNode, toWallet >>
nodes == << pool, refused >>
history == << reported, sent >>
vars == << sessions, frames, posted, call, calls, wallet, nodes, history >>

Ids == 1..MaxSessions

Init ==
    /\ made = 0
    /\ node = [i \in Ids |-> None]
    /\ alive = {}
    /\ toNode = [i \in Ids |-> << >>]
    /\ toWallet = [i \in Ids |-> << >>]
    /\ posted = << >>
    /\ call = None
    /\ calls = 0
    /\ state = "idle"
    /\ pendingId = None
    /\ pendingPeer = None
    /\ pool = [n \in Nodes |-> {}]
    /\ refused = {}
    /\ reported = {}
    /\ sent = {}

(* A handshake completes; one session per node (module PeerNetwork).       *)
Connected(n) ==
    /\ made < MaxSessions
    /\ \A i \in alive : node[i] # n
    /\ made' = made + 1
    /\ node' = [node EXCEPT ![made + 1] = n]
    /\ alive' = alive \cup {made + 1}
    /\ UNCHANGED << frames, posted, call, calls, wallet, nodes, history >>

(* A session ends; the node may still read what has reached it, but its    *)
(* answer does not come back.                                              *)
Lost(i) ==
    /\ i \in alive
    /\ alive' = alive \ {i}
    /\ toNode' \in {toNode, [toNode EXCEPT ![i] = << >>]}
    /\ toWallet' = [toWallet EXCEPT ![i] = << >>]
    /\ UNCHANGED << made, node, posted, call, calls, wallet, nodes, history >>

--------------------------------------------------------------------------------
(* The control thread.                                                     *)

(* The peer with the smallest id, from a copy of the peer list; without    *)
(* one the request is refused and nothing changes.                         *)
Choose(tx) ==
    /\ call = None /\ calls < MaxCalls
    /\ calls' = calls + 1
    /\ alive # {}
    /\ call' = [tx |-> tx, peer |-> CHOOSE i \in alive : \A j \in alive : i <= j,
                step |-> "chosen"]
    /\ UNCHANGED << sessions, frames, posted, wallet, nodes, history >>

(* Mutant: a submission does not wait for the result of the one before.    *)
BecomePendingAlways ==
    /\ call # None /\ call.step = "chosen"
    /\ state' = "submitted"
    /\ pendingId' = call.tx
    /\ pendingPeer' = call.peer
    /\ call' = [call EXCEPT !.step = "pending"]
    /\ UNCHANGED << sessions, frames, posted, calls, nodes, history >>

(* Under transaction_mutex_: refused while a submission has no result yet. *)
BecomePending ==
    /\ call # None /\ call.step = "chosen"
    /\ IF state = "submitted"
       THEN call' = None /\ UNCHANGED wallet
       ELSE /\ state' = "submitted"
            /\ pendingId' = call.tx
            /\ pendingPeer' = call.peer
            /\ call' = [call EXCEPT !.step = "pending"]
    /\ UNCHANGED << sessions, frames, posted, calls, nodes, history >>

(* send() fails if the peer is gone; else the id is reported.              *)
Send ==
    /\ call # None /\ call.step = "pending"
    /\ call' = None
    /\ IF call.peer \in alive
       THEN /\ posted' = Append(posted, [tx |-> call.tx, peer |-> call.peer])
            /\ reported' = reported \cup {call.tx}
            /\ UNCHANGED wallet
       ELSE /\ state' = "idle"
            /\ pendingId' = None
            /\ pendingPeer' = None
            /\ UNCHANGED << posted, reported >>
    /\ UNCHANGED << sessions, frames, calls, nodes, sent >>

--------------------------------------------------------------------------------
(* The network thread of the wallet.                                       *)

(* A posted send is dropped when its session no longer exists.             *)
Deliver ==
    /\ posted # << >>
    /\ LET frame == Head(posted) IN
       IF frame.peer \in alive
       THEN /\ toNode' = [toNode EXCEPT ![frame.peer] = Append(@, frame.tx)]
            /\ sent' = sent \cup {frame.tx}
       ELSE UNCHANGED << toNode, sent >>
    /\ posted' = Tail(posted)
    /\ UNCHANGED << sessions, toWallet, call, calls, wallet, nodes, reported >>

(* A result counts for the pending transaction, from the peer it went to.  *)
Correlated(result, i) == pendingId = result.tx /\ pendingPeer = i

(* Mutant: a rejection ends the submission without a new state.            *)
HandleResultAccepted(i) ==
    /\ i \in alive /\ toWallet[i] # << >>
    /\ LET result == Head(toWallet[i]) IN
       IF Correlated(result, i) /\ result.accepted
       THEN state' = "accepted" /\ pendingPeer' = None
       ELSE UNCHANGED << state, pendingPeer >>
    /\ toWallet' = [toWallet EXCEPT ![i] = Tail(@)]
    /\ UNCHANGED << sessions, toNode, posted, call, calls, pendingId, nodes, history >>

(* handle_transaction_result() ignores what it did not ask for.            *)
HandleResult(i) ==
    /\ i \in alive /\ toWallet[i] # << >>
    /\ LET result == Head(toWallet[i]) IN
       IF Correlated(result, i)
       THEN /\ state' = IF result.accepted THEN "accepted" ELSE "rejected"
            /\ pendingPeer' = None
       ELSE UNCHANGED << state, pendingPeer >>
    /\ toWallet' = [toWallet EXCEPT ![i] = Tail(@)]
    /\ UNCHANGED << sessions, toNode, posted, call, calls, pendingId, nodes, history >>

--------------------------------------------------------------------------------
(* The full nodes.                                                         *)

Answer(i, tx, accepted) ==
    toWallet' = IF i \in alive
                THEN [toWallet EXCEPT ![i] = Append(@, [tx |-> tx, accepted |-> accepted])]
                ELSE toWallet

(* Mutant: the result is sent before the mempool has decided.              *)
HandleTransactionEarly(i) ==
    /\ toNode[i] # << >>
    /\ LET tx == Head(toNode[i]) IN
       \/ Answer(i, tx, TRUE) /\ refused' = refused \cup {<< node[i], tx >>} /\ UNCHANGED pool
       \/ Answer(i, tx, TRUE) /\ pool' = [pool EXCEPT ![node[i]] = @ \cup {tx}]
                              /\ UNCHANGED refused
    /\ toNode' = [toNode EXCEPT ![i] = Tail(@)]
    /\ UNCHANGED << sessions, posted, call, calls, wallet, history >>

(* handle_transaction() of a submission: the mempool admits it or not; a   *)
(* transaction that it holds already is a duplicate and rejected.          *)
HandleTransaction(i) ==
    /\ toNode[i] # << >>
    /\ LET tx == Head(toNode[i]) IN
       \/ /\ tx \notin pool[node[i]]
          /\ pool' = [pool EXCEPT ![node[i]] = @ \cup {tx}]
          /\ Answer(i, tx, TRUE)
          /\ UNCHANGED refused
       \/ /\ refused' = refused \cup {<< node[i], tx >>}
          /\ Answer(i, tx, FALSE)
          /\ UNCHANGED pool
    /\ toNode' = [toNode EXCEPT ![i] = Tail(@)]
    /\ UNCHANGED << sessions, posted, call, calls, wallet, history >>

--------------------------------------------------------------------------------
Control == BecomePending \/ Send

Network == Deliver \/ \E i \in Ids : HandleResult(i)

Next ==
    \/ \E n \in Nodes : Connected(n)
    \/ \E i \in Ids : Lost(i) \/ HandleTransaction(i)
    \/ \E tx \in Txs : Choose(tx)
    \/ Control \/ Network

(* A thread that can go on does, on both sides; nothing forces a           *)
(* connection or a request.                                                *)
Spec ==
    /\ Init /\ [][Next]_vars
    /\ WF_vars(Control) /\ WF_vars(Network)
    /\ \A i \in Ids : WF_vars(HandleTransaction(i))

--------------------------------------------------------------------------------
(* The state the wallet shows is what a full node decided about that very  *)
(* transaction: lost sessions, reused transactions and results that arrive *)
(* late never make it show the outcome of another submission.              *)
OutcomeTrue ==
    /\ state = "accepted" => \E n \in Nodes : pendingId \in pool[n]
    /\ state = "rejected" => \E n \in Nodes : << n, pendingId >> \in refused

(* At most one transaction is under way from the wallet, in a queue of its *)
(* process, on a session or as a result.                                   *)
OneInFlight ==
    Len(posted) + Cardinality({i \in alive : toNode[i] # << >>})
        + Cardinality({i \in alive : toWallet[i] # << >>}) <= 1

(* A submission comes to a result, unless the session it went to is lost.  *)
Resolves ==
    (state = "submitted" /\ pendingPeer \in alive)
        ~> (state # "submitted" \/ pendingPeer \notin alive)
================================================================================
