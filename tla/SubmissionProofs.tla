---------------------------- MODULE SubmissionProofs ---------------------------
(***************************************************************************)
(* Proofs about module Submission, for any full nodes, transactions and    *)
(* numbers of sessions and requests.                                       *)
(***************************************************************************)
EXTENDS Submission, FiniteSetTheorems, TLAPS

--------------------------------------------------------------------------------
(* A queue of one element, filled and emptied.                             *)
LEMMA OneElement ==
  \A e : /\ Append(<< >>, e) = <<e>> /\ <<e>> # << >>
         /\ Head(<<e>>) = e /\ Tail(<<e>>) = << >> /\ Len(<<e>>) = 1
  OBVIOUS

Result(accepted) == [tx |-> pendingId, accepted |-> accepted]

(* The ids of the sessions that were made name full nodes.                 *)
SessionInv ==
    /\ made \in 0..MaxSessions
    /\ alive \subseteq 1..made
    /\ node = [i \in Ids |-> node[i]]
    /\ \A i \in 1..made : node[i] \in Nodes
    /\ pool = [n \in Nodes |-> pool[n]]

(* Where the one transaction of the wallet can be: in the queue of the     *)
(* network thread, on the session of pendingPeer, or as a result on it.    *)
(* Nothing of it is left when the wallet is not waiting, or about to send. *)
FlightInv ==
    /\ posted \in {<< >>, <<[tx |-> pendingId, peer |-> pendingPeer]>>}
    /\ toNode = [i \in Ids |-> toNode[i]]
    /\ toWallet = [i \in Ids |-> toWallet[i]]
    /\ \A i \in Ids :
         /\ toNode[i] \in {<< >>, <<pendingId>>}
         /\ toWallet[i] \in {<< >>, <<Result(TRUE)>>, <<Result(FALSE)>>}
         /\ toNode[i] # << >> => /\ i = pendingPeer /\ i \in 1..made
                                 /\ posted = << >>
         /\ toWallet[i] # << >> => /\ i = pendingPeer /\ i \in 1..made
                                   /\ posted = << >> /\ toNode[i] = << >>

Quiet ==
    posted = << >> /\ \A i \in Ids : toNode[i] = << >> /\ toWallet[i] = << >>

CallInv ==
    /\ call # None /\ call.step = "pending" =>
         /\ state = "submitted" /\ Quiet
         /\ pendingId = call.tx /\ pendingPeer = call.peer
    /\ state # "submitted" => Quiet

(* What a result says is what the node of its session has done.            *)
ResultInv ==
    \A i \in Ids :
      /\ toWallet[i] = <<Result(TRUE)>> => pendingId \in pool[node[i]]
      /\ toWallet[i] = <<Result(FALSE)>> => <<node[i], pendingId>> \in refused

FlowInv == SessionInv /\ FlightInv /\ CallInv /\ ResultInv /\ OutcomeTrue

(* Nothing is under way when the wallet starts.                            *)
LEMMA FlowInit == Init => FlowInv
<1> SUFFICES ASSUME Init PROVE FlowInv
  OBVIOUS
<1>1. SessionInv
  BY SubmissionAssumption DEF Init, SessionInv
<1>2. Quiet
  BY DEF Init, Quiet
<1>3. FlightInv /\ ResultInv
  BY <1>2, OneElement DEF Init, Quiet, FlightInv, ResultInv
<1> QED
  BY <1>1, <1>2, <1>3 DEF Init, FlowInv, CallInv, OutcomeTrue

(* A new session has an id that no transaction was sent to.                *)
LEMMA FlowConnected ==
  ASSUME FlowInv, NEW n \in Nodes, Connected(n)
  PROVE  FlowInv'
<1>0. /\ made \in 0..MaxSessions /\ MaxSessions \in Nat /\ made' = made + 1
      /\ made + 1 \in Ids /\ alive \subseteq 1..made /\ alive' = alive \cup {made + 1}
      /\ node = [i \in Ids |-> node[i]] /\ node' = [node EXCEPT ![made + 1] = n]
      /\ UNCHANGED pool
  BY SubmissionAssumption DEF FlowInv, SessionInv, Connected, nodes, Ids
<1>a. /\ \A i \in 1..made : i \in Ids /\ i # made + 1 /\ node'[i] = node[i]
      /\ node'[made + 1] = n /\ node' = [i \in Ids |-> node'[i]]
  <2>1. \A i \in 1..made : i \in Ids /\ i # made + 1
    BY <1>0 DEF Ids
  <2> HIDE DEF Ids
  <2> DEFINE k == made + 1
  <2>2. k \in Ids /\ node' = [node EXCEPT ![k] = n]
    BY <1>0
  <2> HIDE DEF k
  <2>3. node' = [i \in Ids |-> IF i = k THEN n ELSE node[i]]
    BY <1>0, <2>2
  <2>4. node'[k] = n /\ \A i \in Ids : i # k => node'[i] = node[i]
    BY <2>2, <2>3
  <2> QED
    BY <2>1, <2>3, <2>4 DEF k
<1>1. SessionInv'
  <2>1. \A i \in 1..made' : i \in 1..made \/ i = made + 1
    BY <1>0
  <2>2. made' \in 0..MaxSessions /\ alive' \subseteq 1..made'
    BY <1>0 DEF Ids
  <2> QED
    BY <1>0, <1>a, <2>1, <2>2, SMTT(30) DEF FlowInv, SessionInv
<1>2. FlightInv'
  BY DEF FlowInv, SessionInv, FlightInv, Connected, frames, wallet, Result
<1>3. CallInv'
  BY DEF FlowInv, CallInv, Quiet, Connected, frames, wallet
<1>4. ResultInv'
  <2>1. \A i \in Ids : toWallet[i] # << >> => node'[i] = node[i]
    BY <1>a DEF FlowInv, FlightInv
  <2>2. \A i \in Ids : toWallet[i] = <<Result(TRUE)>> \/ toWallet[i] = <<Result(FALSE)>>
                       => toWallet[i] # << >>
    BY OneElement
  <2>3. UNCHANGED << toWallet, pendingId, pool, refused >>
    BY DEF Connected, frames, wallet, nodes
  <2> QED
    BY <2>1, <2>2, <2>3 DEF FlowInv, ResultInv, Result
<1>5. OutcomeTrue'
  BY DEF FlowInv, OutcomeTrue, Connected, wallet, nodes
<1> QED
  BY <1>1, <1>2, <1>3, <1>4, <1>5 DEF FlowInv

(* A session that is lost takes with it at most what was on it.            *)
LEMMA FlowLost ==
  ASSUME FlowInv, NEW i \in Ids, Lost(i)
  PROVE  FlowInv'
<1>0. /\ UNCHANGED << made, node, posted, call, pendingId, pendingPeer, state, pool, refused >>
      /\ alive' \subseteq alive
      /\ toNode' = [j \in Ids |-> toNode'[j]] /\ toWallet' = [j \in Ids |-> toWallet'[j]]
      /\ \A j \in Ids : toNode'[j] \in {toNode[j], << >>} /\ toWallet'[j] \in {toWallet[j], << >>}
  BY DEF FlowInv, FlightInv, Lost, wallet, nodes
<1>1. SessionInv'
  BY <1>0 DEF FlowInv, SessionInv
<1>2. FlightInv'
  BY <1>0 DEF FlowInv, FlightInv, Result
<1>3. CallInv'
  BY <1>0 DEF FlowInv, CallInv, Quiet
<1>4. ResultInv'
  BY <1>0, OneElement DEF FlowInv, ResultInv, Result
<1>5. OutcomeTrue'
  BY <1>0 DEF FlowInv, OutcomeTrue
<1> QED
  BY <1>1, <1>2, <1>3, <1>4, <1>5 DEF FlowInv

(* A request that has chosen its peer has touched nothing yet.             *)
LEMMA FlowChoose ==
  ASSUME FlowInv, NEW tx \in Txs, Choose(tx)
  PROVE  FlowInv'
BY DEF FlowInv, SessionInv, FlightInv, CallInv, Quiet, ResultInv, OutcomeTrue, Result,
       Choose, sessions, frames, wallet, nodes

(* Only a wallet that does not wait for a result becomes pending.          *)
LEMMA FlowBecomePending == FlowInv /\ BecomePending => FlowInv'
<1> SUFFICES ASSUME FlowInv, BecomePending PROVE FlowInv'
  OBVIOUS
<1>0. UNCHANGED << made, node, alive, toNode, toWallet, posted, pool, refused >>
  BY DEF BecomePending, sessions, frames, nodes
<1>1. SessionInv'
  BY <1>0 DEF FlowInv, SessionInv
<1>2. CASE state = "submitted"
  <2>1. call' = None /\ UNCHANGED << state, pendingId, pendingPeer >>
    BY <1>2 DEF BecomePending, wallet
  <2> QED
    BY <1>0, <1>1, <2>1 DEF FlowInv, FlightInv, CallInv, Quiet, ResultInv, OutcomeTrue, Result
<1>3. CASE state # "submitted"
  <2>1. /\ state' = "submitted" /\ pendingId' = call.tx /\ pendingPeer' = call.peer
        /\ call' = [call EXCEPT !.step = "pending"]
    BY <1>3 DEF BecomePending
  <2>2. Quiet /\ Quiet'
    BY <1>0, <1>3 DEF FlowInv, CallInv, Quiet
  <2>3. FlightInv' /\ ResultInv'
    BY <1>0, <2>2, OneElement DEF FlowInv, FlightInv, ResultInv, Quiet
  <2>4. call'.tx = call.tx /\ call'.peer = call.peer
    BY <2>1
  <2> QED
    BY <1>1, <2>1, <2>2, <2>3, <2>4 DEF FlowInv, CallInv, OutcomeTrue
<1> QED
  BY <1>2, <1>3

(* send() posts the transaction that is pending, for the peer that is.     *)
LEMMA FlowSend == FlowInv /\ Send => FlowInv'
<1> SUFFICES ASSUME FlowInv, Send PROVE FlowInv'
  OBVIOUS
<1>0. /\ UNCHANGED << made, node, alive, toNode, toWallet, pool, refused >> /\ call' = None
      /\ state = "submitted" /\ Quiet /\ pendingId = call.tx /\ pendingPeer = call.peer
  BY DEF Send, sessions, frames, nodes, FlowInv, CallInv
<1>1. SessionInv'
  BY <1>0 DEF FlowInv, SessionInv
<1>2. CASE call.peer \in alive
  <2>1. /\ UNCHANGED << state, pendingId, pendingPeer >>
        /\ posted' = <<[tx |-> pendingId, peer |-> pendingPeer]>>
    BY <1>0, <1>2, OneElement DEF Send, wallet, Quiet
  <2> QED
    BY <1>0, <1>1, <2>1 DEF FlowInv, FlightInv, CallInv, Quiet, ResultInv, OutcomeTrue, Result
<1>3. CASE call.peer \notin alive
  <2>1. state' = "idle" /\ UNCHANGED posted
    BY <1>3 DEF Send
  <2>2. Quiet'
    BY <1>0, <2>1 DEF Quiet
  <2>3. FlightInv' /\ ResultInv'
    BY <1>0, <2>2, OneElement DEF FlowInv, FlightInv, ResultInv, Quiet
  <2> QED
    BY <1>0, <1>1, <2>1, <2>2, <2>3, SMTT(30) DEF FlowInv, CallInv, OutcomeTrue
<1> QED
  BY <1>2, <1>3

(* The network thread hands the transaction to the session, or drops it.   *)
LEMMA FlowDeliver == FlowInv /\ Deliver => FlowInv'
<1> SUFFICES ASSUME FlowInv, Deliver PROVE FlowInv'
  OBVIOUS
<1>0. /\ UNCHANGED << made, node, alive, toWallet, call, state, pendingId, pendingPeer, pool, refused >>
      /\ posted = <<[tx |-> pendingId, peer |-> pendingPeer]>>
      /\ Head(posted) = [tx |-> pendingId, peer |-> pendingPeer] /\ posted' = << >>
  BY OneElement DEF Deliver, sessions, wallet, nodes, FlowInv, FlightInv
<1>1. \A i \in Ids : toNode[i] = << >> /\ toWallet[i] = << >>
  BY <1>0, OneElement DEF FlowInv, FlightInv
<1>2. state = "submitted" /\ ~(call # None /\ call.step = "pending")
  BY <1>0, OneElement DEF FlowInv, CallInv, Quiet
<1>3. SessionInv' /\ OutcomeTrue' /\ CallInv'
  BY <1>0, <1>2 DEF FlowInv, SessionInv, OutcomeTrue, CallInv
<1>4. ResultInv'
  BY <1>0, <1>1, OneElement DEF ResultInv
<1>5. FlightInv'
  <2>1. CASE pendingPeer \in alive
    <3>1. pendingPeer \in Ids /\ pendingPeer \in 1..made
      BY <2>1, SubmissionAssumption DEF FlowInv, SessionInv, Ids
    <3>2. toNode' = [toNode EXCEPT ![pendingPeer] = <<pendingId>>]
      BY <1>0, <1>1, <2>1, <3>1, OneElement DEF Deliver
    <3> QED
      BY <1>0, <1>1, <3>1, <3>2 DEF FlowInv, FlightInv
  <2>2. CASE pendingPeer \notin alive
    <3>1. UNCHANGED toNode
      BY <1>0, <2>2 DEF Deliver
    <3> QED
      BY <1>0, <1>1, <3>1 DEF FlowInv, FlightInv
  <2> QED
    BY <2>1, <2>2
<1> QED
  BY <1>3, <1>4, <1>5 DEF FlowInv

(* The result that arrives is of the transaction that is pending.          *)
LEMMA FlowHandleResult ==
  ASSUME FlowInv, NEW i \in Ids, HandleResult(i)
  PROVE  FlowInv'
<1>0. /\ UNCHANGED << made, node, alive, toNode, posted, call, pendingId, pool, refused >>
      /\ toWallet' = [toWallet EXCEPT ![i] = Tail(@)] /\ toWallet[i] # << >>
  BY DEF HandleResult, sessions, nodes
<1>1. PICK accepted \in BOOLEAN : toWallet[i] = <<Result(accepted)>>
  BY <1>0 DEF FlowInv, FlightInv
<1>2. Head(toWallet[i]) = Result(accepted) /\ Tail(toWallet[i]) = << >>
  BY <1>1, OneElement
<1>3. i = pendingPeer /\ i \in 1..made /\ node[i] \in Nodes
  BY <1>0 DEF FlowInv, FlightInv, SessionInv
<1>4. state' = IF accepted THEN "accepted" ELSE "rejected"
  BY <1>2, <1>3 DEF HandleResult, Correlated, Result
<1>5. Quiet'
  <2>1. posted = << >> /\ \A j \in Ids : toNode[j] = << >> /\ (j # i => toWallet[j] = << >>)
    BY <1>0, <1>3 DEF FlowInv, FlightInv
  <2>2. \A j \in Ids : toWallet'[j] = << >>
    BY <1>0, <1>2, <2>1 DEF FlowInv, FlightInv
  <2> QED
    BY <1>0, <2>1, <2>2 DEF Quiet
<1>6. ~(call # None /\ call.step = "pending")
  BY <1>0 DEF FlowInv, CallInv, Quiet
<1>7. SessionInv' /\ CallInv'
  BY <1>0, <1>5, <1>6 DEF FlowInv, SessionInv, CallInv
<1>8. toWallet' = [j \in Ids |-> toWallet'[j]]
  BY <1>0 DEF FlowInv, FlightInv
<1>9. FlightInv' /\ ResultInv'
  BY <1>0, <1>5, <1>8, OneElement DEF FlowInv, FlightInv, ResultInv, Quiet
<1>10. OutcomeTrue'
  BY <1>0, <1>1, <1>3, <1>4 DEF FlowInv, ResultInv, OutcomeTrue
<1> QED
  BY <1>7, <1>9, <1>10 DEF FlowInv

(* The full node answers what its mempool has decided.                     *)
LEMMA FlowHandleTransaction ==
  ASSUME FlowInv, NEW i \in Ids, HandleTransaction(i)
  PROVE  FlowInv'
<1>0. /\ UNCHANGED << made, node, alive, posted, call, state, pendingId, pendingPeer >>
      /\ toNode' = [toNode EXCEPT ![i] = Tail(@)] /\ toNode[i] # << >>
  BY DEF HandleTransaction, sessions, wallet
<1>1. /\ toNode[i] = <<pendingId>> /\ i = pendingPeer /\ i \in 1..made /\ posted = << >>
      /\ \A j \in Ids : toWallet[j] = << >> /\ (j # i => toNode[j] = << >>)
      /\ node[i] \in Nodes
  BY <1>0 DEF FlowInv, FlightInv, SessionInv
<1>2. Head(toNode[i]) = pendingId /\ Tail(toNode[i]) = << >>
  BY <1>1, OneElement
<1>3. PICK accepted \in BOOLEAN :
        /\ Answer(i, pendingId, accepted)
        /\ IF accepted
           THEN pool' = [pool EXCEPT ![node[i]] = @ \cup {pendingId}] /\ UNCHANGED refused
           ELSE refused' = refused \cup {<< node[i], pendingId >>} /\ UNCHANGED pool
  BY <1>2 DEF HandleTransaction
<1>4. /\ toWallet' = [j \in Ids |-> toWallet'[j]]
      /\ toWallet'[i] \in {<< >>, <<Result(accepted)>>}
      /\ \A j \in Ids : j # i => toWallet'[j] = << >>
  BY <1>1, <1>3, OneElement DEF Answer, Result, FlowInv, FlightInv
<1>5. toNode' = [j \in Ids |-> << >>]
  BY <1>0, <1>1, <1>2 DEF FlowInv, FlightInv
<1>6. state = "submitted" /\ ~(call # None /\ call.step = "pending")
  BY <1>0 DEF FlowInv, CallInv, Quiet
<1>7. FlightInv'
  BY <1>0, <1>1, <1>4, <1>5 DEF FlightInv, Result
<1>8. SessionInv'
  BY <1>0, <1>3 DEF FlowInv, SessionInv
<1>9. ResultInv'
  <2>1. <<Result(TRUE)>> # <<Result(FALSE)>>
    BY OneElement DEF Result
  <2>2. accepted => pendingId \in pool'[node[i]]
    BY <1>1, <1>3 DEF FlowInv, SessionInv
  <2>3. ~accepted => <<node[i], pendingId>> \in refused'
    BY <1>3
  <2> QED
    BY <1>0, <1>4, <2>1, <2>2, <2>3, OneElement DEF ResultInv, Result
<1>10. CallInv' /\ OutcomeTrue'
  BY <1>0, <1>6 DEF CallInv, OutcomeTrue
<1> QED
  BY <1>7, <1>8, <1>9, <1>10 DEF FlowInv

(* Every step of the wallet, the network and the full nodes preserves it.  *)
LEMMA FlowStep == FlowInv /\ [Next]_vars => FlowInv'
<1> SUFFICES ASSUME FlowInv, [Next]_vars PROVE FlowInv'
  OBVIOUS
<1>1. CASE UNCHANGED vars
  BY <1>1 DEF FlowInv, SessionInv, FlightInv, CallInv, Quiet, ResultInv, OutcomeTrue, Result,
              vars, sessions, frames, wallet, nodes
<1>2. CASE Next
  BY <1>2, FlowConnected, FlowLost, FlowChoose, FlowBecomePending, FlowSend, FlowDeliver,
     FlowHandleResult, FlowHandleTransaction DEF Next, Control, Network
<1> QED
  BY <1>1, <1>2

(***************************************************************************)
(* handle_transaction_result(): the outcome that a wallet shows is what a  *)
(* full node decided about that transaction, for any number of nodes,      *)
(* sessions that are lost and made, and submissions, repeated ones too.    *)
(***************************************************************************)
THEOREM OutcomeTrueHolds == Spec => []OutcomeTrue
<1>1. FlowInv => OutcomeTrue
  BY DEF FlowInv
<1> QED
  BY FlowInit, FlowStep, <1>1, PTL DEF Spec

(***************************************************************************)
(* submit_signed_transaction(): at most one transaction of the wallet is   *)
(* in the queue of its network thread, on a session, or answered and not   *)
(* yet handled.                                                            *)
(***************************************************************************)
THEOREM OneInFlightHolds == Spec => []OneInFlight
<1>1. ASSUME FlowInv PROVE OneInFlight
  <2> DEFINE N == {i \in alive : toNode[i] # << >>}
             W == {i \in alive : toWallet[i] # << >>}
  <2>1. alive \subseteq Ids
    BY <1>1, SubmissionAssumption DEF FlowInv, SessionInv, Ids
  <2>2. N \in {{}, {pendingPeer}} /\ W \in {{}, {pendingPeer}}
    <3>1. \A i \in N \cup W : i = pendingPeer
      BY <1>1, <2>1 DEF FlowInv, FlightInv
    <3> QED
      BY <3>1
  <2>3. /\ N # {} => posted = << >> /\ W = {}
        /\ W # {} => posted = << >> /\ N = {}
    BY <1>1, <2>1 DEF FlowInv, FlightInv
  <2>4. Len(posted) \in {0, 1} /\ (posted = << >> => Len(posted) = 0)
    BY <1>1, OneElement DEF FlowInv, FlightInv
  <2>5. /\ N = {} => Cardinality(N) = 0
        /\ W = {} => Cardinality(W) = 0
        /\ Cardinality(N) \in {0, 1} /\ Cardinality(W) \in {0, 1}
    BY <2>2, FS_EmptySet, FS_Singleton
  <2> HIDE DEF N, W
  <2>6. Len(posted) + Cardinality(N) + Cardinality(W) <= 1
    BY <2>3, <2>4, <2>5
  <2> QED
    BY <2>6 DEF OneInFlight, N, W
<1> QED
  BY FlowInit, FlowStep, <1>1, PTL DEF Spec
================================================================================
