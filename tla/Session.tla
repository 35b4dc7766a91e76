-------------------------------- MODULE Session --------------------------------
(***************************************************************************)
(* One session of the peer network from both ends (class Session of        *)
(* src/network/peer_network.cpp): the outbound queue with its limit and    *)
(* the writes, the reading of framed messages, HELLO first, and the PINGs  *)
(* by which an end that hears nothing finds out about the other, on a      *)
(* connection that may be cut, may fall silent and may damage a frame.     *)
(* Which sessions there are is the subject of PeerNetwork.                 *)
(***************************************************************************)
EXTENDS BlockFormat

CONSTANTS
  Settings,                   \* the cases: see the definition of setting
  MaximumOutboundQueueSize    \* maximum_outbound_queue_size

Side == {"a", "b"}
Other(s) == IF s = "a" THEN "b" ELSE "a"

VARIABLES
  setting,   \* HELLO of each end, what they send, and what may happen
  end,       \* the Session object of each end
  wire,      \* the frames written by each end that the other has not read
  link,      \* "open", "cut" or "silent"
  damaged    \* a frame was damaged

vars == <<setting, end, wire, link, damaged>>

FrameSize(frame) == FrameHeaderSize + frame.size

(***************************************************************************)
(* Session::stop: the timers are cancelled and the socket is closed.       *)
(***************************************************************************)
Stop(e, reason) ==
  IF e.stopped # None THEN e
  ELSE [e EXCEPT !.stopped = reason, !.handshake = FALSE, !.idle = 0,
                 !.pongs = {}]

(* Mutant: the limit is tested without the new frame. *)
SendPastLimit(e, type, size, data) ==
  LET payload == [number |-> e.sent + 1, data |-> data]
      frame == SerializeFrame(type, size, payload, e.hello.chain)
  IN  IF frame = None \/ e.queued > MaximumOutboundQueueSize
        THEN Stop(e, "outbound queue limit exceeded")
        ELSE [e EXCEPT !.sent = @ + 1, !.outbound = Append(@, frame),
                       !.queued = @ + FrameSize(frame)]

(* Session::send *)
Send(e, type, size, data) ==
  LET payload == [number |-> e.sent + 1, data |-> data]
      frame == SerializeFrame(type, size, payload, e.hello.chain)
  IN  IF \/ frame = None
         \/ e.queued + FrameSize(frame) > MaximumOutboundQueueSize
        THEN Stop(e, "outbound queue limit exceeded")
        ELSE [e EXCEPT !.sent = @ + 1, !.outbound = Append(@, frame),
                       !.queued = @ + FrameSize(frame)]

(***************************************************************************)
(* Session::start sends HELLO.  idle counts the waits of idle_timer_ that  *)
(* will end without an error: a new expiry cancels the wait before it,     *)
(* unless that has already expired and its handler is on its way.          *)
(***************************************************************************)
Started(hello) ==
  Send([hello |-> hello, stopped |-> None, sent |-> 0, outbound |-> << >>,
        queued |-> 0, header |-> None, greeted |-> FALSE, handled |-> << >>,
        handshake |-> TRUE, idle |-> 0, pongs |-> {}, last |-> None,
        liveness |-> None, nonce |-> 1], "hello", 104, hello)

Init ==
  /\ setting \in Settings
  /\ end = [s \in Side |-> Started(setting.hello[s])]
  /\ wire = [s \in Side |-> << >>]
  /\ link = "open"
  /\ damaged = FALSE

Becomes(s, e) == end' = [end EXCEPT ![s] = e]
Live(s) == end[s].stopped = None

-----------------------------------------------------------------------------
(* PeerNetwork::send and broadcast, on the network thread: send_message(). *)
SendMessage(s) ==
  /\ Live(s) /\ end[s].greeted
  /\ end[s].sent < setting.count[s]
  /\ \E m \in setting.messages : Becomes(s, Send(end[s], m.type, m.size, m.data))
  /\ UNCHANGED <<setting, wire, link, damaged>>

(* send_ping(), with a nonce of reserve_ping_nonce(). *)
SendPing(e) ==
  LET nonce == e.nonce
      reserved == [e EXCEPT !.nonce = @ + 1]
  IN  IF ~e.greeted \/ e.stopped # None THEN reserved
      ELSE Send([reserved EXCEPT !.last = nonce], "ping", 8, nonce)

(* The bound on PINGs holds while the connection works. *)
MayPing(s) == end[s].nonce <= setting.pings[s] \/ link = "silent"

PingAll(s) ==
  /\ Live(s) /\ end[s].greeted
  /\ end[s].nonce <= setting.pings[s]
  /\ Becomes(s, SendPing(end[s]))
  /\ UNCHANGED <<setting, wire, link, damaged>>

(* The frame in front of the queue is written, and then the next one. *)
WriteNext(s) ==
  /\ Live(s) /\ link # "cut"
  /\ end[s].outbound # << >>
  /\ Becomes(s, [end[s] EXCEPT !.outbound = Tail(@),
                               !.queued = @ - FrameSize(Head(end[s].outbound))])
  /\ wire' = IF link = "silent" THEN wire
             ELSE [wire EXCEPT ![s] = Append(@, Head(end[s].outbound))]
  /\ UNCHANGED <<setting, link, damaged>>

WriteFails(s) ==
  /\ Live(s) /\ link = "cut"
  /\ end[s].outbound # << >>
  /\ Becomes(s, Stop(end[s], "socket write failed"))
  /\ UNCHANGED <<setting, wire, link, damaged>>

-----------------------------------------------------------------------------
(* read_header(): all of its bytes are there. *)
ReadHeader(s) ==
  LET frame == Head(wire[Other(s)])
      error == HeaderError(frame, end[s].hello.chain)
  IN  /\ Live(s) /\ link # "silent"
      /\ end[s].header = None
      /\ wire[Other(s)] # << >>
      /\ Becomes(s, IF error # "none" THEN Stop(end[s], error)
                    ELSE [end[s] EXCEPT
                           !.header = [type |-> frame.type,
                                       length |-> frame.length,
                                       checksum |-> frame.checksum]])
      /\ UNCHANGED <<setting, wire, link, damaged>>

(* The bytes that follow the header that was read. *)
Following(frames) ==
  LET Bytes[i \in 0..Len(frames)] ==
        IF i = 0 THEN 0
        ELSE Bytes[i - 1] + (IF i = 1 THEN 0 ELSE FrameHeaderSize)
               + (IF frames[i].whole THEN frames[i].size ELSE 0)
  IN  Bytes[Len(frames)]

Arrived(s) == Following(wire[Other(s)]) >= end[s].header.length

(* arm_idle_timer() *)
ArmIdle(e) == {[e EXCEPT !.idle = n] : n \in {1, IF e.idle = 0 THEN 1 ELSE 2}}

(***************************************************************************)
(* handle_hello(); complete_handshake() may find that the peer has another *)
(* session and stop this one.                                              *)
(***************************************************************************)
HandleHello(e, hello) ==
  LET error == HelloError(hello, e.hello)
      greeted == [e EXCEPT !.greeted = TRUE, !.handshake = FALSE]
  IN  IF error # "none" THEN {Stop(e, error)}
      ELSE ArmIdle(greeted) \cup {Stop(e, "duplicate peer")}

(* A PONG with the nonce of the last idle PING; its wait may be expired. *)
HandlePong(e, nonce) ==
  IF e.liveness # nonce THEN {e}
  ELSE UNION {ArmIdle([e EXCEPT !.liveness = None, !.pongs = waits]) :
                waits \in {{}, e.pongs}}

(* handle_message() *)
HandleMessage(e, type, data) ==
  IF ~e.greeted /\ type # "hello" THEN {Stop(e, "HELLO must be first")}
  ELSE IF ~e.greeted /\ type = "hello" THEN HandleHello(e, data)
  ELSE IF e.greeted /\ type = "hello" THEN {Stop(e, "duplicate HELLO")}
  ELSE IF type = "ping" THEN {Send(e, "pong", 8, data)}
  ELSE IF type = "pong" THEN HandlePong(e, data)
  ELSE {e}

(* The next header is awaited, and the idle timer set unless a PONG is due. *)
Resume(e) ==
  IF e.stopped # None THEN {e}
  ELSE LET next == [e EXCEPT !.header = None]
       IN  IF e.greeted /\ e.liveness = None THEN ArmIdle(next) ELSE {next}

(* read_payload(): the bytes are there, they are verified and handled. *)
ReadPayload(s) ==
  LET e == end[s]
      frame == Head(wire[Other(s)])
      taken == [e EXCEPT !.handled =
                  Append(@, [type |-> e.header.type, payload |-> frame.payload])]
  IN  /\ Live(s) /\ link # "silent"
      /\ e.header # None
      /\ Arrived(s)
      /\ IF PayloadError(e.header, frame) # "none"
         THEN /\ Becomes(s, Stop(e, PayloadError(e.header, frame)))
              /\ UNCHANGED wire
         ELSE /\ \E h \in HandleMessage(taken, e.header.type, frame.payload.data) :
                   \E next \in Resume(h) : Becomes(s, next)
              /\ wire' = [wire EXCEPT ![Other(s)] = Tail(@)]
      /\ UNCHANGED <<setting, link, damaged>>

(* The connection ends before the bytes that are awaited. *)
ReadFails(s) ==
  /\ Live(s) /\ link = "cut"
  /\ IF end[s].header = None THEN wire[Other(s)] = << >> ELSE ~Arrived(s)
  /\ Becomes(s, Stop(end[s], "socket read failed"))
  /\ UNCHANGED <<setting, wire, link, damaged>>

-----------------------------------------------------------------------------
HandshakeTimeout(s) ==
  /\ end[s].handshake
  /\ Becomes(s, Stop(end[s], "handshake timeout"))
  /\ UNCHANGED <<setting, wire, link, damaged>>

(* Mutant: the PONG is not waited for. *)
IdleUnwatched(s) ==
  /\ end[s].idle > 0
  /\ MayPing(s)
  /\ Becomes(s, SendPing([end[s] EXCEPT !.idle = @ - 1,
                                        !.liveness = end[s].nonce]))
  /\ UNCHANGED <<setting, wire, link, damaged>>

(* The idle timer expires: a PING is sent and its PONG waited for.  An     *)
(* earlier wait for a PONG is cancelled, unless it has already expired.    *)
IdleTimeout(s) ==
  LET pinged == SendPing([end[s] EXCEPT !.idle = @ - 1,
                                        !.liveness = end[s].nonce])
  IN  /\ end[s].idle > 0
      /\ MayPing(s)
      /\ \E waits \in {{}, end[s].pongs} :
           Becomes(s, IF pinged.stopped # None THEN pinged
                      ELSE [pinged EXCEPT !.pongs = waits \cup {end[s].nonce}])
      /\ UNCHANGED <<setting, wire, link, damaged>>

(* Mutant: the timer does not look whether the PONG has come. *)
PongTimeoutUnchecked(s) ==
  /\ end[s].pongs # {}
  /\ Becomes(s, Stop(end[s], "PONG timeout"))
  /\ UNCHANGED <<setting, wire, link, damaged>>

PongTimeout(s) ==
  /\ \E nonce \in end[s].pongs :
       LET e == [end[s] EXCEPT !.pongs = @ \ {nonce}]
       IN  Becomes(s, IF e.liveness = nonce THEN Stop(e, "PONG timeout") ELSE e)
  /\ UNCHANGED <<setting, wire, link, damaged>>

(***************************************************************************)
(* The environment.  A connection ends after any number of the bytes that  *)
(* were written: the frames of a suffix are gone, the last one may have    *)
(* lost its payload or a part of it.  It always ends once an end stopped.  *)
(***************************************************************************)
Kept(s) ==
  LET read == IF end[Other(s)].header = None THEN 0 ELSE 1
  IN  UNION {{SubSeq(wire[s], 1, n)} \cup
               (IF n = 0 THEN {}
                ELSE {[SubSeq(wire[s], 1, n) EXCEPT ![n].whole = FALSE]}) :
               n \in read .. Len(wire[s])}

Cut ==
  /\ link = "open"
  /\ setting.cut \/ \E s \in Side : ~Live(s)
  /\ link' = "cut"
  /\ \E x \in Kept("a"), y \in Kept("b") : wire' = [s \in Side |-> IF s = "a" THEN x ELSE y]
  /\ UNCHANGED <<setting, end, damaged>>

(* Nothing gets through any more, and neither end is told. *)
Silence ==
  /\ setting.silence
  /\ link = "open"
  /\ link' = "silent"
  /\ UNCHANGED <<setting, end, wire, damaged>>

(***************************************************************************)
(* What a frame may be changed to on its way: one of its fields.  The type *)
(* may become another one; the checksum is that of the payload alone.      *)
(***************************************************************************)
Changes(frame) ==
  {[frame EXCEPT !.magic = None], [frame EXCEPT !.version = 2],
   [frame EXCEPT !.checksum = 0], [frame EXCEPT !.payload.number = 0]}
    \cup {[frame EXCEPT !.type = type] : type \in MessageType \cup {None}}
    \cup {[frame EXCEPT !.length = m.size] : m \in setting.messages}
    \cup {[frame EXCEPT !.length = MaximumFramePayloadSize + 1]}

Damage ==
  /\ setting.damage
  /\ ~damaged
  /\ \E s \in Side :
       \E i \in (IF end[Other(s)].header = None THEN 1 ELSE 2) .. Len(wire[s]) :
         \E frame \in Changes(wire[s][i]) \ {wire[s][i]} :
           wire' = [wire EXCEPT ![s][i] = frame]
  /\ damaged' = TRUE
  /\ UNCHANGED <<setting, end, link>>

Next ==
  \/ \E s \in Side :
       \/ SendMessage(s) \/ PingAll(s)
       \/ WriteNext(s) \/ WriteFails(s)
       \/ ReadHeader(s) \/ ReadPayload(s) \/ ReadFails(s)
       \/ HandshakeTimeout(s) \/ IdleTimeout(s) \/ PongTimeout(s)
  \/ Cut \/ Silence \/ Damage

(***************************************************************************)
(* The network thread of each end keeps running: what has arrived is read  *)
(* and a timer that is set expires, unless it is cancelled.                *)
(***************************************************************************)
Spec ==
  /\ Init /\ [][Next]_vars
  /\ \A s \in Side :
       /\ WF_vars(ReadHeader(s) \/ ReadPayload(s) \/ ReadFails(s))
       /\ WF_vars(HandshakeTimeout(s))
       /\ WF_vars(IdleTimeout(s))
       /\ WF_vars(PongTimeout(s))

-----------------------------------------------------------------------------
(* Two ends of this program on one network. *)
Compatible ==
  \A s \in Side :
    HelloError(setting.hello[Other(s)], setting.hello[s]) = "none"

LargestFrame ==
  CHOOSE n \in {FrameHeaderSize + m.size : m \in setting.messages} \cup {148} :
    \A m \in setting.messages : FrameHeaderSize + m.size <= n

(***************************************************************************)
(* What the program builds passes its own tests: between two ends of one   *)
(* network, and unless a byte was changed on the way, no session is        *)
(* stopped for what is in a frame or for the order of the frames, neither  *)
(* by serialize_frame() nor by the receiver's tests, and none for the      *)
(* limit of the queue before the queue is full.  Between incompatible ends *)
(* no message gets beyond HELLO.                                           *)
(***************************************************************************)
BuiltIsTaken ==
  \A s \in Side :
    IF Compatible
      THEN damaged \/
           /\ end[s].stopped \in
                {None, "socket read failed", "socket write failed",
                 "handshake timeout", "duplicate peer", "PONG timeout",
                 "outbound queue limit exceeded"}
           /\ end[s].stopped = "outbound queue limit exceeded" =>
                end[s].queued + LargestFrame > MaximumOutboundQueueSize
      ELSE ~(end["a"].greeted /\ end["b"].greeted)

(***************************************************************************)
(* Payloads arrive in the order of the sends, each at most once and as it  *)
(* was sent, wherever the connection is cut or damaged (the type in front  *)
(* of a payload may be damaged into another one that its size fits); while *)
(* it works, each is handled, on its way or in the queue; and              *)
(* queued_bytes_, which the limit is tested on, is what the queue holds.   *)
(***************************************************************************)
Numbers(frames) == [i \in 1..Len(frames) |-> frames[i].payload.number]

NothingLost ==
  \A s \in Side :
    LET arrived == Numbers(end[Other(s)].handled)
        bytes[i \in 0..Len(end[s].outbound)] ==
          IF i = 0 THEN 0 ELSE bytes[i - 1] + FrameSize(end[s].outbound[i])
    IN  /\ arrived = [i \in 1..Len(arrived) |-> i]
        /\ Len(arrived) <= end[s].sent
        /\ link = "open" /\ ~damaged =>
             arrived \o Numbers(wire[s]) \o Numbers(end[s].outbound)
               = [i \in 1..end[s].sent |-> i]
        /\ end[s].queued = bytes[Len(end[s].outbound)]
        /\ end[s].queued <= MaximumOutboundQueueSize

(***************************************************************************)
(* The bytes of a block that an end receives, whatever the other end sent, *)
(* are those that decoding and encoding it again give: id and bytes go     *)
(* together.  And of the sender's block and what is decoded, the ids agree *)
(* only if they are one block, the transaction roots only if the           *)
(* transactions are the same, which the pairing of an odd level with       *)
(* itself would break if a transaction could be repeated.                  *)
(***************************************************************************)
BytesIdentify ==
  setting.block # None =>
    \A i \in 1..Len(end["b"].handled) :
      LET e == end["b"].handled[i].payload.data
          b == DecodedBlock(e)
      IN  end["b"].handled[i].type = "block" /\ BlockError(e) = "none" =>
            /\ SerializeBlock(b) = e
            /\ BlockId(b) = BlockId(setting.block) => b = setting.block
            /\ b.root = setting.block.root => b.txs = setting.block.txs

(***************************************************************************)
(* A session is stopped for a missing PONG only when the PONG to its last  *)
(* idle PING is missing: not by an answer to the PING of a user or to an   *)
(* earlier one, and not by a timer that expired while the answer was read. *)
(***************************************************************************)
AnsweredStays ==
  \A s \in Side :
    end[s].stopped = "PONG timeout" =>
      /\ end[s].liveness # None
      /\ \A i \in 1..Len(end[s].handled) :
           ~(/\ end[s].handled[i].type = "pong"
             /\ end[s].handled[i].payload.data = end[s].liveness)

(***************************************************************************)
(* An end that nothing reaches any more stops the session, whatever was    *)
(* going on when the connection fell silent.                               *)
(***************************************************************************)
DeadPeerNoticed == (link = "silent") ~> \A s \in Side : ~Live(s)

=============================================================================
