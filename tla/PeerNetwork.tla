------------------------------ MODULE PeerNetwork ------------------------------
(***************************************************************************)
(* The connections between several processes that each run a PeerNetwork   *)
(* (src/network/peer_network.cpp): targets that are connected to and       *)
(* retried, accepted connections, the handshake with its choice between    *)
(* duplicate connections, liveness pings, and the limits.                  *)
(*                                                                         *)
(* All of PeerNetwork::Impl runs on one thread, so that every callback is  *)
(* one step.  A connection has an outbound and an inbound end; a process   *)
(* holds a session for every end it has open.  TCP delivers in order; a    *)
(* process that closes a connection with unread data resets it, which may  *)
(* lose what it sent.  A link may also die silently.                       *)
(***************************************************************************)
EXTENDS Naturals, Sequences, FiniteSets

CONSTANTS
  Process,                  \* the processes
  Endpoint,                 \* the endpoints that are connected to
  HostOf,                   \* the process that listens at an endpoint
  AddressOf,                \* the IP address of a process
  Nonce,                    \* the session nonces of the processes
  InitialTargets,           \* the endpoints each process is configured with
  None,                     \* no value
  Settings,                 \* the cases: see the variable setting
  Connection,               \* the numbers of connections
  MaxFaults                 \* bound: faults and control requests

ASSUME PeerNetworkAssumption ==
  /\ \A e \in Endpoint : HostOf[e] \in Process
  /\ \A n, m \in Process : n # m => Nonce[n] # Nonce[m]
  /\ \A n \in Process : InitialTargets[n] \subseteq Endpoint
  /\ Connection \subseteq Nat
  /\ \A s \in Settings : s.peers \in Nat /\ s.perIp \in Nat /\ s.links \in Nat
  /\ MaxFaults \in Nat

VARIABLES
  stopping,    \* stopping_ of each process
  target,      \* targets_ of each process
  conn,        \* the connections, with the sessions at their two ends
  accepting,   \* an async_accept is outstanding
  faults,      \* faults and control requests so far
  setting      \* maximum_peer_count, maximum_connections_per_ip, the endpoints
               \* that users ask the processes to connect to, and, as a bound,
               \* the number of connections that exist at a time

vars == <<stopping, target, conn, accepting, faults, setting>>

Direction == {"outbound", "inbound"}
Opposite(d) == IF d = "outbound" THEN "inbound" ELSE "outbound"

(* The process that has the session at this end of connection c. *)
OwnerIn(connections, c, d) ==
  IF d = "outbound" THEN connections[c].from ELSE connections[c].to
Owner(c, d) == OwnerIn(conn, c, d)

(* sessions_ of process n: the ends it has open. *)
SessionsIn(connections, n) ==
  {x \in Connection \X Direction :
     /\ connections[x[1]] # None
     /\ connections[x[1]].end[x[2]] # None
     /\ OwnerIn(connections, x[1], x[2]) = n}
Sessions(n) == SessionsIn(conn, n)

Open(c, d) == conn[c] # None /\ conn[c].end[d] # None
Complete(c, d) == Open(c, d) /\ conn[c].end[d].complete
RemoteOf(x) == Owner(x[1], Opposite(x[2]))

NewTarget == [connecting |-> FALSE, session |-> None, timer |-> FALSE]
NewSession(e) == [target |-> e, complete |-> FALSE, pinged |-> FALSE]

Init ==
  /\ stopping = [n \in Process |-> FALSE]
  /\ target = [n \in Process |-> [e \in Endpoint |->
       IF e \in InitialTargets[n] THEN [NewTarget EXCEPT !.connecting = TRUE]
       ELSE None]]
  /\ conn = [c \in Connection |-> None]
  /\ accepting = [n \in Process |-> TRUE]
  /\ faults = 0
  /\ setting \in Settings

(* A step that something going wrong, or a user, takes. *)
Fault == faults < MaxFaults /\ faults' = faults + 1 /\ UNCHANGED setting
NoFault == UNCHANGED <<faults, setting>>

(***************************************************************************)
(* What is written at one end arrives in the inbox of the other, unless    *)
(* that end is closed or the link is dead.                                 *)
(***************************************************************************)
Sent(k, d, frame) ==
  IF k.broken \/ (k.accepted /\ k.end[Opposite(d)] = None) THEN k
  ELSE [k EXCEPT !.inbox[Opposite(d)] = Append(@, frame)]

-----------------------------------------------------------------------------
(* Stopping a session *)

(***************************************************************************)
(* Session::stop and session_stopped: the end is closed, and the target it *)
(* was for is retried if the caller asks for that.  `s` has the            *)
(* connections and the targets.                                            *)
(***************************************************************************)
Stopped(s, c, d, reconnect, reset) ==
  LET k == s.conn[c]
      n == OwnerIn(s.conn, c, d)
      e == k.end[d].target
      closed == [k EXCEPT !.end[d] = None, !.inbox[d] = << >>,
                          !.inbox[Opposite(d)] = IF reset THEN << >> ELSE @]
      gone == k.accepted /\ k.end[Opposite(d)] = None
      held == /\ e # None
              /\ s.target[n][e] # None
              /\ s.target[n][e].session = <<c, d>>
  IN  [conn   |-> [s.conn EXCEPT ![c] = IF gone THEN None ELSE closed],
       target |-> IF ~held THEN s.target
                  ELSE [s.target EXCEPT ![n][e].session = None,
                                        ![n][e].timer = @ \/ reconnect]]

State == [conn |-> conn, target |-> target]

Become(s) == conn' = s.conn /\ target' = s.target

(* Whether closing this end may reset the connection. *)
Resets(s, c, d) == IF s.conn[c].inbox[d] = << >> THEN {FALSE} ELSE BOOLEAN

StopSession(c, d) ==
  \E reset \in Resets(State, c, d) : Become(Stopped(State, c, d, TRUE, reset))

-----------------------------------------------------------------------------
(* Targets *)

(* begin_connect: at the limit nothing happens. *)
BeginConnect(n, t) ==
  IF \/ t.connecting
     \/ t.session # None
     \/ Cardinality(Sessions(n)) >= setting.peers
  THEN t
  ELSE [t EXCEPT !.connecting = TRUE]

(* connect() by control: add_target. *)
AddTarget(n, e) ==
  /\ ~stopping[n]
  /\ e \in setting.asked[n]
  /\ Fault
  /\ target' = [target EXCEPT ![n][e] =
       BeginConnect(n, IF @ = None THEN NewTarget ELSE @)]
  /\ UNCHANGED <<stopping, conn, accepting>>

(* The timer of schedule_reconnect fires. *)
Reconnect(n, e) ==
  /\ target[n][e] # None
  /\ target[n][e].timer
  /\ target' = [target EXCEPT ![n][e] =
       BeginConnect(n, [@ EXCEPT !.timer = FALSE])]
  /\ UNCHANGED <<stopping, conn, accepting, faults, setting>>

(* disconnect() by control: the target goes, and its session with it. *)
RemoveTarget(n, e) ==
  LET x == target[n][e].session
      removed == [target EXCEPT ![n][e] = None]
  IN  /\ target[n][e] # None
      /\ Fault
      /\ IF x = None THEN Become([conn |-> conn, target |-> removed])
         ELSE \E reset \in Resets(State, x[1], x[2]) :
                Become([Stopped(State, x[1], x[2], FALSE, reset)
                          EXCEPT !.target[n][e] = None])
      /\ UNCHANGED <<stopping, accepting>>

Connecting(n, e) == target[n][e] # None /\ target[n][e].connecting

(***************************************************************************)
(* async_connect succeeds: the outbound session starts and sends HELLO.    *)
(* The connection takes the first free number, which says nothing of it.   *)
(***************************************************************************)
ConnectSucceeds(n, e) ==
  /\ Connecting(n, e)
  /\ ~stopping[HostOf[e]]
  /\ \E c \in Connection :
       /\ c <= setting.links
       /\ conn[c] = None /\ \A b \in Connection : b < c => conn[b] # None
       /\ conn' = [conn EXCEPT ![c] =
            [from |-> n, to |-> HostOf[e], accepted |-> FALSE, broken |-> FALSE,
             end   |-> [outbound |-> NewSession(e), inbound |-> None],
             inbox |-> [outbound |-> << >>, inbound |-> <<"hello">>]]]
       /\ target' = [target EXCEPT ![n][e].connecting = FALSE,
                                   ![n][e].session = <<c, "outbound">>]
  /\ UNCHANGED <<stopping, accepting, faults, setting>>

(* It fails: nobody listens, or the network fails. *)
ConnectFails(n, e) ==
  /\ Connecting(n, e)
  /\ IF stopping[HostOf[e]] THEN NoFault ELSE Fault
  /\ target' = [target EXCEPT ![n][e].connecting = FALSE,
                              ![n][e].timer = TRUE]
  /\ UNCHANGED <<stopping, conn, accepting>>

-----------------------------------------------------------------------------
(* Accepting *)

(* The inbound sessions of n from the address of m. *)
FromAddress(n, m) ==
  {x \in Sessions(n) : /\ x[2] = "inbound"
                       /\ AddressOf[RemoteOf(x)] = AddressOf[m]}

AcceptsMore(connections, n) ==
  Cardinality(SessionsIn(connections, n)) < setting.peers

(***************************************************************************)
(* The outstanding async_accept completes: a session starts and sends      *)
(* HELLO, unless there are too many from this address.  accept_next is     *)
(* called again.                                                           *)
(***************************************************************************)
Accept(c) ==
  LET k == conn[c]
      n == k.to
      started == Sent([k EXCEPT !.accepted = TRUE,
                                !.end["inbound"] = NewSession(None)],
                      "inbound", "hello")
      refused == IF k.end["outbound"] = None THEN None
                 ELSE [k EXCEPT !.accepted = TRUE, !.inbox["inbound"] = << >>]
  IN  /\ conn[c] # None
      /\ ~k.accepted
      /\ accepting[n]
      /\ conn' = [conn EXCEPT ![c] =
           IF Cardinality(FromAddress(n, k.from)) >= setting.perIp
           THEN refused ELSE started]
      /\ accepting' = [accepting EXCEPT ![n] = AcceptsMore(conn', n)]
      /\ UNCHANGED <<stopping, target, faults, setting>>

(* At the limit, accept_next is tried again by a timer. *)
AcceptRetry(n) ==
  /\ ~accepting[n]
  /\ ~stopping[n]
  /\ AcceptsMore(conn, n)
  /\ accepting' = [accepting EXCEPT ![n] = TRUE]
  /\ UNCHANGED <<stopping, target, conn, faults, setting>>

-----------------------------------------------------------------------------
(* Messages *)

Received(c, d, frame) ==
  /\ Open(c, d)
  /\ ~conn[c].broken
  /\ conn[c].inbox[d] # << >>
  /\ Head(conn[c].inbox[d]) = frame

Read(c, d) == [State EXCEPT !.conn[c].inbox[d] = Tail(@)]

(* Mutant: both processes keep the connection they opened themselves. *)
OwnPreferred(n, m) == "outbound"

(* The direction that n keeps of its connections with m. *)
Preferred(n, m) == IF Nonce[n] < Nonce[m] THEN "outbound" ELSE "inbound"

(* Mutant: only connections of the other direction are looked for. *)
OppositeDuplicates(c, d) ==
  {x \in Sessions(Owner(c, d)) :
     /\ x[2] # d
     /\ Complete(x[1], x[2])
     /\ RemoteOf(x) = RemoteOf(<<c, d>>)}

(* The sessions of this owner with the same remote process. *)
Duplicates(c, d) ==
  {x \in Sessions(Owner(c, d)) :
     /\ x # <<c, d>>
     /\ Complete(x[1], x[2])
     /\ RemoteOf(x) = RemoteOf(<<c, d>>)}

(* Mutant: the session that is kept does not take over the target. *)
NotAdopting(s, keep, drop) == s

(* adopt_target: the session that is kept takes over the other's target. *)
Adopting(s, keep, drop) ==
  LET n == OwnerIn(s.conn, keep[1], keep[2])
      e == s.conn[drop[1]].end[drop[2]].target
  IN  IF s.conn[keep[1]].end[keep[2]].target # None \/ e = None THEN s
      ELSE [conn   |-> [s.conn EXCEPT ![keep[1]].end[keep[2]].target = e],
            target |-> IF s.target[n][e] = None THEN s.target
                       ELSE [s.target EXCEPT ![n][e].session = keep]]

Completed(s, c, d) == [s EXCEPT !.conn[c].end[d].complete = TRUE]

(***************************************************************************)
(* handle_hello and complete_handshake: a connection of the process to     *)
(* itself is closed; of two connections with the same process one is kept, *)
(* and the other closed without being retried.                             *)
(***************************************************************************)
ReceiveHello(c, d) ==
  LET n == Owner(c, d)
      m == RemoteOf(<<c, d>>)
      s == Read(c, d)
      Better(x) == d = Preferred(n, m) /\ x[2] # Preferred(n, m)
      Drop(t, x) == \E reset \in Resets(t, x[1], x[2]) :
                      Become(Stopped(t, x[1], x[2], FALSE, reset))
  IN  /\ Received(c, d, "hello")
      /\ \/ /\ n = m
            /\ \E reset \in Resets(s, c, d) : Become(Stopped(s, c, d, TRUE, reset))
         \/ /\ n # m
            /\ Duplicates(c, d) = {}
            /\ Become(Completed(s, c, d))
         \/ /\ n # m
            /\ \E x \in Duplicates(c, d) :
                 IF Better(x)
                 THEN Drop(Adopting(Completed(s, c, d), <<c, d>>, x), x)
                 ELSE Drop(Adopting(s, x, <<c, d>>), <<c, d>>)
      /\ UNCHANGED <<stopping, accepting, faults, setting>>

(* The idle timer fires: a liveness PING is sent. *)
IdlePing(c, d) ==
  /\ Complete(c, d)
  /\ ~conn[c].end[d].pinged
  /\ conn' = [conn EXCEPT ![c] =
       Sent([conn[c] EXCEPT !.end[d].pinged = TRUE], d, "ping")]
  /\ UNCHANGED <<stopping, target, accepting, faults, setting>>

ReceivePing(c, d) ==
  /\ Received(c, d, "ping")
  /\ conn' = [conn EXCEPT ![c] = Sent(Read(c, d).conn[c], d, "pong")]
  /\ UNCHANGED <<stopping, target, accepting, faults, setting>>

ReceivePong(c, d) ==
  /\ Received(c, d, "pong")
  /\ conn' = [Read(c, d).conn EXCEPT ![c].end[d].pinged = FALSE]
  /\ UNCHANGED <<stopping, target, accepting, faults, setting>>

-----------------------------------------------------------------------------
(* What ends sessions *)

(* The other end is closed and everything it sent has been read. *)
ReadFails(c, d) ==
  /\ Open(c, d)
  /\ ~conn[c].broken
  /\ conn[c].accepted
  /\ conn[c].end[Opposite(d)] = None
  /\ conn[c].inbox[d] = << >>
  /\ StopSession(c, d)
  /\ UNCHANGED <<stopping, accepting, faults, setting>>

(* Timeouts: on a dead link, while the peer accepts no more connections,   *)
(* or, as a fault, because the peer is slow.                               *)
HandshakeTimeout(c, d) ==
  /\ Open(c, d)
  /\ ~conn[c].end[d].complete
  /\ IF conn[c].broken \/ (~conn[c].accepted /\ ~accepting[conn[c].to])
     THEN NoFault ELSE Fault
  /\ StopSession(c, d)
  /\ UNCHANGED <<stopping, accepting>>

PongTimeout(c, d) ==
  /\ Complete(c, d)
  /\ conn[c].end[d].pinged
  /\ IF conn[c].broken THEN NoFault ELSE Fault
  /\ StopSession(c, d)
  /\ UNCHANGED <<stopping, accepting>>

(* A link dies without either end being told. *)
LinkDies(c) ==
  /\ conn[c] # None
  /\ conn[c].accepted
  /\ ~conn[c].broken
  /\ Fault
  /\ conn' = [conn EXCEPT ![c].broken = TRUE,
                          ![c].inbox = [d \in Direction |-> << >>]]
  /\ UNCHANGED <<stopping, target, accepting>>

(* stop(): the listener, all sessions and all targets of the process go. *)
Stop(n) ==
  LET Mine(k, d) == (IF d = "outbound" THEN k.from ELSE k.to) = n
      Left(k) ==
        IF k = None THEN None
        ELSE LET end == [d \in Direction |-> IF Mine(k, d) THEN None ELSE k.end[d]]
                 done == k.accepted \/ k.to = n
             IN  IF done /\ \A d \in Direction : end[d] = None THEN None
                 ELSE [k EXCEPT !.end = end, !.accepted = done,
                                !.inbox = [d \in Direction |->
                                   IF Mine(k, d) THEN << >> ELSE @[d]]]
  IN  /\ ~stopping[n]
      /\ Fault
      /\ stopping' = [stopping EXCEPT ![n] = TRUE]
      /\ target' = [target EXCEPT ![n] = [e \in Endpoint |-> None]]
      /\ conn' = [c \in Connection |-> Left(conn[c])]
      /\ accepting' = [accepting EXCEPT ![n] = FALSE]

-----------------------------------------------------------------------------
Handle(c, d) ==
  ReceiveHello(c, d) \/ ReceivePing(c, d) \/ ReceivePong(c, d) \/ ReadFails(c, d)

TimeOut(c, d) == HandshakeTimeout(c, d) \/ PongTimeout(c, d)

Next ==
  \/ \E n \in Process, e \in Endpoint :
       \/ AddTarget(n, e) \/ RemoveTarget(n, e) \/ Reconnect(n, e)
       \/ ConnectSucceeds(n, e) \/ ConnectFails(n, e)
  \/ \E n \in Process : AcceptRetry(n) \/ Stop(n)
  \/ \E c \in Connection, d \in Direction :
       Handle(c, d) \/ IdlePing(c, d) \/ TimeOut(c, d)
  \/ \E c \in Connection : Accept(c) \/ LinkDies(c)

(***************************************************************************)
(* Callbacks run, timers fire, connection attempts succeed or fail.  A     *)
(* timeout is fair where it is not a fault.                                *)
(***************************************************************************)
TimesOut(c, d) == TimeOut(c, d) /\ NoFault

Fairness ==
  /\ \A n \in Process, e \in Endpoint :
       /\ WF_vars(Reconnect(n, e))
       /\ WF_vars(ConnectSucceeds(n, e) \/ ConnectFails(n, e))
  /\ \A n \in Process : WF_vars(AcceptRetry(n))
  /\ \A c \in Connection : WF_vars(Accept(c))
  /\ \A c \in Connection, d \in Direction :
       WF_vars(Handle(c, d)) /\ WF_vars(IdlePing(c, d)) /\ WF_vars(TimesOut(c, d))

Spec == Init /\ [][Next]_vars /\ Fairness

-----------------------------------------------------------------------------
(***************************************************************************)
(* docs/p2p-protocol-v1.md: "One live session is retained for each pair of *)
(* process session nonces."  No process holds two completed sessions with  *)
(* the same other process, and none with itself.                           *)
(***************************************************************************)
OneSessionPerPeer ==
  \A n \in Process : \A x \in Sessions(n) : Complete(x[1], x[2]) =>
    /\ RemoteOf(x) # n
    /\ \A y \in Sessions(n) \ {x} :
         Complete(y[1], y[2]) => RemoteOf(y) # RemoteOf(x)

(* Nothing will connect to this target again. *)
Idle(n, e) ==
  /\ target[n][e] # None
  /\ target[n][e].session = None
  /\ ~target[n][e].connecting /\ ~target[n][e].timer

(* It points to a session whose end it will not be told of. *)
Dangling(n, e) ==
  /\ target[n][e] # None /\ target[n][e].session # None
  /\ LET x == target[n][e].session
     IN  x \notin Sessions(n) \/ conn[x[1]].end[x[2]].target # e

(* begin_connect is called for it while the process has all its sessions. *)
AtLimit(n, e) ==
  /\ target[n][e] = None \/ target[n][e].timer
  /\ Cardinality(Sessions(n)) >= setting.peers

(* n has a completed session with the host of e that is for another target. *)
Shadowed(n, e) ==
  \E x \in Sessions(n) :
    /\ Complete(x[1], x[2])
    /\ RemoteOf(x) = HostOf[e]
    /\ conn[x[1]].end[x[2]].target \notin {e, None}

(***************************************************************************)
(* docs/internet-p2p.md: a node "reconnects automatically after failures". *)
(* A target keeps a session, a connection attempt or its reconnect timer,  *)
(* and the session it points to is an open one of the process that knows   *)
(* the target, so that its end brings the timer back.  It is given up for  *)
(* two reasons only: its timer fires, or it is added, while the process    *)
(* has all its sessions; or its connection is a duplicate of one to the    *)
(* same process that is kept for another target.                           *)
(***************************************************************************)
TargetServed ==
  [][\A n \in Process, e \in Endpoint :
       /\ ~Dangling(n, e)'
       /\ Idle(n, e)' => Idle(n, e) \/ AtLimit(n, e) \/ Shadowed(n, e)']_vars

(* The connections that are usable at both of their ends. *)
Usable(n, m) ==
  {c \in Connection :
     /\ conn[c] # None
     /\ {conn[c].from, conn[c].to} = {n, m}
     /\ ~conn[c].broken
     /\ \A d \in Direction : Complete(c, d)}

(***************************************************************************)
(* Two processes that connect to each other, at the same time, after       *)
(* failures or over dead links, come to rest on one connection, which both *)
(* keep: they never close each other's choice for ever.  At the limit of   *)
(* sessions they may: connections then wait to be accepted, and are closed *)
(* and made again.  A process that was asked to connect to itself is left  *)
(* out: it tries, closes and tries again, and takes up connections all the *)
(* time.                                                                   *)
(***************************************************************************)
Settles ==
  <>[](\A n \in Process : Cardinality(Sessions(n)) < setting.peers)
    => <>[](\A n, m \in Process :
              \/ stopping[n] \/ stopping[m]
              \/ \E e \in Endpoint : target[HostOf[e]][e] # None
              \/ \A e \in Endpoint : HostOf[e] = m => target[n][e] = None \/ Idle(n, e)
              \/ n = m
              \/ Cardinality(Usable(n, m)) = 1)

=============================================================================
