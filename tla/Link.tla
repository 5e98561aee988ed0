-------------------------------- MODULE Link --------------------------------
(***************************************************************************)
(* One direction of a connection of net/socket.c: the sender's and the     *)
(* receiver's NetConn with their ring buffers, the operating system's      *)
(* stream between them, and the framing of net/protocol.c.  Both sides run *)
(* net_socket_update once a frame; the receiver then calls                 *)
(* net_socket_recv_msg until it returns false.                             *)
(*                                                                         *)
(* A message is a number of bytes; byte i of the n-th accepted message's   *)
(* frame is <<n, i>>, and its first byte stands for the length header.     *)
(***************************************************************************)
EXTENDS Integers, Sequences

CONSTANTS
    NET_RINGBUF_CAPACITY,
    FRAME_HEADER_SIZE,   \* bytes of a frame's header: NET_FRAME_HEADER_SIZE of net/protocol.h
    MAX_MSG_SIZE,        \* most bytes of a payload: NET_MAX_MSG_SIZE of net/protocol.h
    Messages,         \* the messages a sender may want to send
    Length,           \* Length[m]: bytes of m's payload
    Malformed,        \* the messages net_msg_deserialize refuses
    StreamRoom,       \* bytes the operating system keeps between the two ends
    MaxSent           \* bound: messages accepted in a behaviour

ASSUME RingHoldsAFrame ==
    /\ NET_RINGBUF_CAPACITY \in Nat /\ FRAME_HEADER_SIZE \in Nat \ {0} /\ MAX_MSG_SIZE \in Nat
    /\ FRAME_HEADER_SIZE + MAX_MSG_SIZE <= NET_RINGBUF_CAPACITY
    /\ Length \in [Messages -> 0..MAX_MSG_SIZE]
    /\ Malformed \subseteq Messages /\ StreamRoom \in Nat \ {0} /\ MaxSent \in Nat

VARIABLES
    sent,        \* the messages net_socket_send_msg has accepted
    sendState,   \* the sender's NetConn.state
    sendBuf,     \* its send_buf
    stream,      \* bytes on their way in the operating system
    finished,    \* the sender's end of the stream is shut down
    recvState,   \* the receiver's NetConn.state
    recvBuf,     \* its recv_buf
    draining,    \* the receiver is in its loop of net_socket_recv_msg
    consumed,    \* frames taken out of recv_buf
    delivered,   \* messages handed to the receiver's handler
    broken       \* an error of the connection was reported to one side

vars == <<sent, sendState, sendBuf, stream, finished, recvState, recvBuf, draining, consumed,
          delivered, broken>>

Smaller(a, b) == IF a < b THEN a ELSE b

-----------------------------------------------------------------------------
(* The ring buffer.                                                         *)

Blank == <<0, 0>>
EmptyRing == [data |-> [i \in 0..NET_RINGBUF_CAPACITY - 1 |-> Blank], head |-> 0, tail |-> 0]

\* ringbuf_init leaves the bytes in place.
Reset(rb) == [rb EXCEPT !.head = 0, !.tail = 0]

ReadAvail(rb)  == rb.tail - rb.head
WriteSpaceOneMore(rb) == NET_RINGBUF_CAPACITY + 1 - (rb.tail - rb.head)
WriteSpace(rb) == NET_RINGBUF_CAPACITY - (rb.tail - rb.head)
TailOff(rb)    == rb.tail % NET_RINGBUF_CAPACITY
HeadOff(rb)    == rb.head % NET_RINGBUF_CAPACITY

\* bytes copied to data + at.
Copied(data, at, bytes) ==
    [i \in DOMAIN data |-> IF i >= at /\ i < at + Len(bytes) THEN bytes[i - at + 1] ELSE data[i]]

RingWriteCut(rb, bytes) ==
    LET len == Smaller(Len(bytes), WriteSpace(rb))
        first == Smaller(NET_RINGBUF_CAPACITY - TailOff(rb), len)
    IN [rb EXCEPT !.data = Copied(@, TailOff(rb), SubSeq(bytes, 1, first)), !.tail = @ + len]

\* ringbuf_write: up to the end of the array, then from its start.
RingWrite(rb, bytes) ==
    LET len == Smaller(Len(bytes), WriteSpace(rb))
        first == Smaller(NET_RINGBUF_CAPACITY - TailOff(rb), len)
        atEnd == Copied(rb.data, TailOff(rb), SubSeq(bytes, 1, first))
    IN [rb EXCEPT !.data = Copied(atEnd, 0, SubSeq(bytes, first + 1, len)), !.tail = @ + len]

\* len bytes of the array from off on.
Piece(data, off, len) == [i \in 1..len |-> data[off + i - 1]]

RingPeek(rb, max) ==
    LET len == Smaller(max, ReadAvail(rb))
        first == Smaller(NET_RINGBUF_CAPACITY - HeadOff(rb), len)
    IN Piece(rb.data, HeadOff(rb), first) \o Piece(rb.data, 0, len - first)

RingConsume(rb, len) == [rb EXCEPT !.head = @ + Smaller(len, ReadAvail(rb))]

-----------------------------------------------------------------------------
(* Framing.                                                                 *)

FrameBytes(m) == FRAME_HEADER_SIZE + Length[m]
Frame(n, m) == [i \in 1..FrameBytes(m) |-> <<n, i>>]

\* net_frame_read: the number of bytes of the frame at the start of buf, 0
\* while it is incomplete, -1 when the header is not a length.
FrameRead(buf) ==
    IF Len(buf) < FRAME_HEADER_SIZE THEN 0
    ELSE LET whole == Frame(buf[1][1], sent[buf[1][1]])
         IN CASE buf[1][2] # 1 -> -1
              [] Len(buf) < Len(whole) -> 0
              [] OTHER -> Len(whole)

\* The payload is the one that was framed.
Intact(buf, n) == LET f == buf[1][1] IN SubSeq(buf, 1, n) = Frame(f, sent[f])

-----------------------------------------------------------------------------
Init ==
    /\ sent = << >> /\ delivered = << >> /\ consumed = 0
    /\ sendState = "CONNECTED" /\ recvState = "CONNECTED"
    /\ sendBuf = EmptyRing /\ recvBuf = EmptyRing
    /\ stream = << >> /\ finished = FALSE
    /\ draining = FALSE /\ broken = FALSE

\* net_socket_send_msg: all of the frame, or nothing and -1.
SendMsg(m) ==
    /\ Len(sent) < MaxSent
    /\ sendState \in {"CONNECTED", "CLOSING"}
    /\ IF WriteSpace(sendBuf) < FrameBytes(m)
       THEN UNCHANGED <<sent, sendBuf>>
       ELSE /\ sent' = Append(sent, m)
            /\ sendBuf' = RingWrite(sendBuf, Frame(Len(sent) + 1, m))
    /\ UNCHANGED <<sendState, stream, finished, recvState, recvBuf, draining, consumed, delivered, broken>>

CloseAtOnce ==
    /\ sendState = "CONNECTED"
    /\ sendState' = "DISCONNECTED"
    /\ finished' = TRUE
    /\ sendBuf' = Reset(sendBuf)
    /\ UNCHANGED <<sent, stream, recvState, recvBuf, draining, consumed, delivered, broken>>

\* net_socket_close: at once when everything is out, otherwise after a flush.
Close ==
    /\ sendState = "CONNECTED"
    /\ IF ReadAvail(sendBuf) > 0
       THEN /\ sendState' = "CLOSING"
            /\ UNCHANGED <<sendBuf, finished>>
       ELSE /\ sendState' = "DISCONNECTED"
            /\ finished' = TRUE
            /\ sendBuf' = Reset(sendBuf)
    /\ UNCHANGED <<sent, stream, recvState, recvBuf, draining, consumed, delivered, broken>>

\* net_socket_update of the sender, when poll says that the stream has room.
\* handle_send takes n bytes in its first call and k in a second, which it
\* makes only when the first took all there was up to the end of the array.
\* A closing connection whose buffer is empty by then is shut down.
SenderUpdate ==
    /\ sendState \in {"CONNECTED", "CLOSING"}
    /\ ReadAvail(sendBuf) > 0
    /\ \E n \in 1..StreamRoom, k \in 0..StreamRoom:
         LET avail == ReadAvail(sendBuf)
             seg1 == Smaller(NET_RINGBUF_CAPACITY - HeadOff(sendBuf), avail)
             after == [sendBuf EXCEPT !.head = @ + n + k]
             drained == sendState = "CLOSING" /\ ReadAvail(after) = 0
         IN /\ n <= seg1
            /\ k <= (IF n = seg1 THEN avail - n ELSE 0)
            /\ Len(stream) + n + k <= StreamRoom
            /\ stream' = stream \o Piece(sendBuf.data, HeadOff(sendBuf), n) \o Piece(sendBuf.data, 0, k)
            /\ sendBuf' = IF drained THEN Reset(after) ELSE after
            /\ sendState' = IF drained THEN "DISCONNECTED" ELSE sendState
            /\ finished' = (finished \/ drained)
    /\ UNCHANGED <<sent, recvState, recvBuf, draining, consumed, delivered, broken>>

\* handle_recv reads n bytes up to the end of the array, and k more from its
\* start when the first call filled the rest of it.
Reads(n, k) ==
    LET space == WriteSpace(recvBuf)
        seg1 == Smaller(NET_RINGBUF_CAPACITY - TailOff(recvBuf), space)
    IN /\ n \in 1..Smaller(seg1, Len(stream))
       /\ k \in 0..(IF n = seg1 THEN Smaller(space - n, Len(stream) - n) ELSE 0)

Filled(n, k) ==
    [recvBuf EXCEPT
       !.data = Copied(Copied(@, TailOff(recvBuf), SubSeq(stream, 1, n)), 0, SubSeq(stream, n + 1, n + k)),
       !.tail = @ + n + k]

\* conn_close_fd.
RecvClosed == recvState' = "DISCONNECTED" /\ recvBuf' = Reset(recvBuf)

\* net_socket_update of the receiver.  The end of the stream is read like
\* data, once the buffer has space.
RecvUpdate ==
    /\ recvState = "CONNECTED"
    /\ ~ draining
    /\ draining' = TRUE
    /\ \/ /\ stream # << >> /\ WriteSpace(recvBuf) > 0
          /\ \E n \in 1..StreamRoom, k \in 0..StreamRoom:
               /\ Reads(n, k)
               /\ stream' = SubSeq(stream, n + k + 1, Len(stream))
               /\ recvBuf' = Filled(n, k)
          /\ UNCHANGED recvState
       \/ /\ stream = << >> /\ finished /\ WriteSpace(recvBuf) > 0
          /\ RecvClosed
          /\ UNCHANGED stream
       \/ /\ WriteSpace(recvBuf) = 0 \/ (stream = << >> /\ ~ finished)
          /\ UNCHANGED <<stream, recvBuf, recvState>>
    /\ UNCHANGED <<sent, sendState, sendBuf, finished, consumed, delivered, broken>>

\* net_socket_recv_msg: a malformed message is consumed like any other, but
\* ends the loop of the caller as an incomplete one does.
RecvMsg ==
    /\ draining
    /\ LET buf == RingPeek(recvBuf, FRAME_HEADER_SIZE + MAX_MSG_SIZE)
           n == FrameRead(buf)
           m == sent[buf[1][1]]
       IN IF ReadAvail(recvBuf) < FRAME_HEADER_SIZE \/ n <= 0
          THEN /\ draining' = FALSE
               /\ UNCHANGED <<recvBuf, consumed, delivered>>
          ELSE /\ recvBuf' = RingConsume(recvBuf, n)
               /\ consumed' = consumed + 1
               /\ draining' = (m \notin Malformed)
               /\ delivered' = IF m \in Malformed THEN delivered
                               ELSE Append(delivered, IF Intact(buf, n) THEN m ELSE "garbled")
    /\ UNCHANGED <<sent, sendState, sendBuf, stream, finished, recvState, broken>>

\* An error of the connection, reported to one of its ends (conn_close_fd).
SenderError ==
    /\ sendState # "DISCONNECTED"
    /\ sendState' = "DISCONNECTED"
    /\ sendBuf' = Reset(sendBuf)
    /\ finished' = TRUE
    /\ broken' = TRUE
    /\ UNCHANGED <<sent, stream, recvState, recvBuf, draining, consumed, delivered>>

\* POLLERR, and POLLHUP, which drops what was read in the same update.
ReceiverError ==
    /\ recvState = "CONNECTED"
    /\ ~ draining
    /\ RecvClosed
    /\ broken' = TRUE
    /\ UNCHANGED <<sent, sendState, sendBuf, stream, finished, draining, consumed, delivered>>

Next == \/ \E m \in Messages: SendMsg(m)
        \/ Close \/ SenderUpdate \/ RecvUpdate \/ RecvMsg
        \/ SenderError \/ ReceiverError

Spec == Init /\ [][Next]_vars

\* Both ends call net_socket_update in every frame of their main loops, and
\* the receiver drains what it got.
Fairness == WF_vars(SenderUpdate) /\ WF_vars(RecvUpdate) /\ WF_vars(RecvMsg)

FairSpec == Spec /\ Fairness

-----------------------------------------------------------------------------
(* The link is a queue of messages: each is delivered whole, once and in    *)
(* its turn, however the bytes are cut on their way and wherever the rings  *)
(* wrap, and nothing the sender refused is ever seen (socket.c's ring       *)
(* buffers and net_frame_read against a plain queue).                       *)
Chan == INSTANCE Channel WITH queue <- SubSeq(sent, consumed + 1, Len(sent)),
                              taken <- delivered, open <- (recvState = "CONNECTED")
IsAChannel == Chan!Spec

(* What net_socket_send_msg accepted arrives, also when the connection is   *)
(* closed right after it: "Initiate graceful close. Drains send buffer      *)
(* first if non-empty" (net/socket.h).  Excepted are an error of the        *)
(* connection, and what follows a message that cannot be decoded.           *)
Arrives(n) == consumed >= n \/ broken
WellFormedTrafficArrives ==
    \A n \in 1..MaxSent:
        Len(sent) >= n ~> (Arrives(n) \/ \E k \in DOMAIN sent: k < n /\ sent[k] \in Malformed)

=============================================================================
