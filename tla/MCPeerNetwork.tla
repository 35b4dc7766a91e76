----------------------------- MODULE MCPeerNetwork -----------------------------
(***************************************************************************)
(* Two processes on one address.  The second can be reached at two         *)
(* endpoints.                                                              *)
(***************************************************************************)
EXTENDS PeerNetwork

CONSTANTS p1, p2, q2

TwoProcesses == {p1, p2}

(* An endpoint has the name of the process that listens there, or q2. *)
MCEndpoint == {p1, p2, q2}
MCHostOf == [e \in Endpoint |-> IF e = q2 THEN p2 ELSE e]
MCNonce == [n \in Process |-> IF n = p1 THEN 1 ELSE 2]
OneAddress == [n \in Process |-> "127.0.0.1"]

(* Each connects to the other. *)
Mutual == [n \in Process |-> IF n = p1 THEN {p2} ELSE {p1}]

(***************************************************************************)
(* Three connections below the limit of sessions, two at the limit, and    *)
(* two of which one may be to itself or to the second endpoint.            *)
(***************************************************************************)
Setting(peers, perIp, links, asked) ==
  [peers |-> peers, perIp |-> perIp, links |-> links,
   asked |-> [n \in Process |-> IF n = p1 THEN asked ELSE {}]]

MCSettings ==
  {Setting(4, 2, 3, {p2}), Setting(2, 1, 2, {p1, p2}), Setting(4, 2, 2, {p1, q2})}
=============================================================================
