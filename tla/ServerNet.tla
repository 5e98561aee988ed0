------------------------------- MODULE ServerNet -------------------------------
(*****************************************************************************)
(* hh-server's network loop (server/server_net.c) over its socket table      *)
(* (net/socket.c) and its room table (server/room.c, module Room).           *)
(*                                                                           *)
(* One server_net_update is a sequence of stages; "stage" is the one the     *)
(* server is about to run:                                                   *)
(*                                                                           *)
(*   poll -> accept -> recv -> tick -> broadcast -> cleanup -> detect -> poll *)
(*                                                                           *)
(* The clients, the network and the lobby act between two stages.  The       *)
(* server looks at the network in "poll" and "accept" only, so what they do  *)
(* later in an update is the same as doing it before the next poll.          *)
(*                                                                           *)
(* Abstractions: INPUT_CMD, PING and chat change no state modelled here; the *)
(* game in a room is a black box that may end in any tick; the send buffer   *)
(* of a connection is empty or not and is never full.                        *)
(*****************************************************************************)
EXTENDS Room, Sequences

CONSTANTS
  Rooms,            \* indices of g_rooms[], 0..MAX_ROOMS-1
  NoClient, NoInfo, NoTicket,
  EloTicks,         \* the 10 s sv_cleanup_finished_rooms waits for the lobby
  InboxCap,         \* bound: frames of one connection read and not handled yet
  MaxSessions       \* bound: session tokens drawn in one behaviour

ASSUME RoomsAssumption == Rooms \subseteq Nat
ASSUME BoundsAssumption ==
  EloTicks \in Nat \ {0} /\ InboxCap \in Nat \ {0} /\ MaxSessions \in Nat
ASSUME NullsAssumption ==
  /\ NoClient \notin Clients
  /\ NoInfo \notin [room_index : Rooms, seat : Seats]
  /\ NoTicket \notin [code : Codes, token : Tokens]

VARIABLES
  stage,        \* stage of server_net_update that runs next
  rooms,        \* g_rooms[]
  conn_state,   \* NetConn.state
  user_data,    \* NetConn.user_data: the connection's ConnSlotInfo, or NULL
  inbox,        \* frames the peer sent on the connection, not handled yet
  unsent,       \* NetConn.send_buf is not empty
  peer,         \* the client at the other end of the connection
  gone,         \* the client has closed its end
  told,         \* GAME_OVERs queued on the connection: of which room, with ratings?
  backlog,      \* connections the kernel has completed, not accepted yet
  ticket,       \* room code and token a client was given by HANDSHAKE_ACK
  sessions      \* number of session tokens drawn so far

connVars == <<conn_state, user_data, inbox, unsent, peer, gone, told>>
vars == <<stage, rooms, connVars, backlog, ticket, sessions>>

Stages == {"poll", "accept", "recv", "tick", "broadcast", "cleanup", "detect"}
ConnSlotInfo == [room_index : Rooms, seat : Seats]
Requests == {"ADD_AI", "REMOVE_AI", "START_GAME"}
\* OLD_HANDSHAKE is a HANDSHAKE with another protocol_version.
Message == {m \in [type  : {"HANDSHAKE", "OLD_HANDSHAKE", "DISCONNECT"} \cup Requests,
                   code  : Codes \cup {NoCode},
                   token : Tokens \cup {NoToken}] : m.type = "HANDSHAKE" => m.token \in Tokens}
Request(type) == [type |-> type, code |-> NoCode, token |-> NoToken]
Handshake(code, token) == [type |-> "HANDSHAKE", code |-> code, token |-> token]

TypeOK ==
  /\ stage \in Stages
  /\ rooms \in [Rooms -> RoomRecord]
  /\ conn_state \in [Conns -> {"DISCONNECTED", "CONNECTED", "CLOSING"}]
  /\ user_data \in [Conns -> ConnSlotInfo \cup {NoInfo}]
  /\ inbox \in [Conns -> Seq(Message)]
  /\ unsent \in [Conns -> BOOLEAN]
  /\ peer \in [Conns -> Clients \cup {NoClient}]
  /\ gone \in [Conns -> BOOLEAN]
  /\ told \in [Conns -> SUBSET (Rooms \X BOOLEAN)]
  /\ backlog \in Seq(Clients)
  /\ ticket \in [Clients -> [code : Codes, token : Tokens] \cup {NoTicket}]
  /\ sessions \in Nat

Init ==
  /\ stage = "poll"
  /\ rooms = [r \in Rooms |-> InactiveRoom]
  /\ conn_state = [i \in Conns |-> "DISCONNECTED"]
  /\ user_data = [i \in Conns |-> NoInfo]
  /\ inbox = [i \in Conns |-> <<>>]
  /\ unsent = [i \in Conns |-> FALSE]
  /\ peer = [i \in Conns |-> NoClient]
  /\ gone = [i \in Conns |-> FALSE]
  /\ told = [i \in Conns |-> {}]
  /\ backlog = <<>>
  /\ ticket = [c \in Clients |-> NoTicket]
  /\ sessions = 0

Active(r) == rooms[r].status # "INACTIVE"
RoomWithCode(r, code) == Active(r) /\ rooms[r].code = code
\* Slip: the code of another room is drawn again.
FreshCodesAny == Codes

FreshCodes == {code \in Codes : ~\E r \in Rooms : RoomWithCode(r, code)}
FreeRoom(r) == IsFirst(r, {q \in Rooms : ~Active(q)})
FreeConn(i) == IsFirst(i, {j \in Conns : conn_state[j] = "DISCONNECTED"})

-----------------------------------------------------------------------------
(* The environment.                                                          *)

\* A client opens a connection when it has none that is still open at its end.
ClientConnect(c) ==
  /\ stage \in {"poll", "accept"}
  /\ \A k \in DOMAIN backlog : backlog[k] # c
  /\ \A i \in Conns : peer[i] = c => gone[i]
  /\ backlog' = Append(backlog, c)
  /\ UNCHANGED <<stage, rooms, connVars, ticket, sessions>>

\* What a client can say: enter a room with its lobby token (an empty code asks
\* for a new room) or come back to its room with its session token; once seated,
\* the requests of the waiting room.  MaxSessions stops the entries that could draw
\* a new session token, never the return to a running game.
Entries(c) ==
  IF sessions < MaxSessions
  THEN { Handshake(code, c) : code \in Codes \cup {NoCode} } \cup { Request("OLD_HANDSHAKE") }
  ELSE {}

Comebacks(c) ==
  { Handshake(t.code, t.token) :
      t \in { t \in {ticket[c]} \ {NoTicket} :
               \/ sessions < MaxSessions
               \/ \E r \in Rooms : RoomWithCode(r, t.code) /\ rooms[r].status = "PLAYING" } }

SayableMessages(c, i) ==
  IF user_data[i] # NoInfo THEN { Request(type) : type \in Requests }
  ELSE Entries(c) \cup Comebacks(c)

ClientSend(i) ==
  /\ stage = "poll"
  /\ conn_state[i] = "CONNECTED" /\ ~gone[i] /\ Len(inbox[i]) < InboxCap
  /\ \E m \in SayableMessages(peer[i], i) : inbox' = [inbox EXCEPT ![i] = Append(@, m)]
  /\ UNCHANGED <<stage, rooms, conn_state, user_data, unsent, peer, gone, told,
                 backlog, ticket, sessions>>

\* client_net_disconnect: a farewell, and the client's end is closed.
ClientQuit(i) ==
  /\ stage = "poll"
  /\ conn_state[i] = "CONNECTED" /\ ~gone[i] /\ Len(inbox[i]) < InboxCap
  /\ inbox' = [inbox EXCEPT ![i] = Append(@, Request("DISCONNECT"))]
  /\ gone' = [gone EXCEPT ![i] = TRUE]
  /\ UNCHANGED <<stage, rooms, conn_state, user_data, unsent, peer, told,
                 backlog, ticket, sessions>>

\* The client's end goes away without a word: a crash or a lost network.
ClientDrop(i) ==
  /\ stage = "poll"
  /\ peer[i] # NoClient /\ ~gone[i]
  /\ gone' = [gone EXCEPT ![i] = TRUE]
  /\ UNCHANGED <<stage, rooms, conn_state, user_data, inbox, unsent, peer, told,
                 backlog, ticket, sessions>>

\* SERVER_CREATE_ROOM from the lobby: lobby_link_update runs after each update.
LobbyCreateRoom(r, code) ==
  /\ stage = "poll"
  /\ FreeRoom(r) /\ code \in FreshCodes
  /\ rooms' = [rooms EXCEPT ![r] = WaitingRoom(code)]
  /\ UNCHANGED <<stage, connVars, backlog, ticket, sessions>>

\* SERVER_ELO_RESULT: the lobby answers the result of a finished room.
LobbyEloResult(r) ==
  /\ stage = "poll"
  /\ rooms[r].status = "FINISHED" /\ ~rooms[r].elo_received
  /\ rooms' = [rooms EXCEPT ![r].elo_received = TRUE, ![r].changed = TRUE]
  /\ UNCHANGED <<stage, connVars, backlog, ticket, sessions>>

-----------------------------------------------------------------------------
(* Stages 1 and 2: net_socket_update, net_socket_accept.                     *)

\* conn_close_fd forgets the buffers and keeps user_data.
Closed(f, S, x) == [i \in Conns |-> IF i \in S THEN x ELSE f[i]]

\* "flushed" are the connections whose send buffer the kernel took, "dropped" the
\* ones where the peer's close is seen now (it may be seen late, and a reset
\* overtakes the data).  A closing connection ends when its buffer is empty.
Poll ==
  /\ stage = "poll"
  /\ \E flushed \in SUBSET {i \in Conns : unsent[i]},
        dropped \in SUBSET {i \in Conns : gone[i]} :
       LET ended == dropped \cup {i \in flushed : conn_state[i] = "CLOSING"}
       IN  /\ conn_state' = Closed(conn_state, ended, "DISCONNECTED")
           /\ inbox' = Closed(inbox, ended, <<>>)
           /\ unsent' = [i \in Conns |-> unsent[i] /\ i \notin flushed \cup ended]
           /\ peer' = Closed(peer, ended, NoClient)
           /\ gone' = Closed(gone, ended, FALSE)
           /\ told' = Closed(told, ended, {})
  /\ stage' = "accept"
  /\ UNCHANGED <<rooms, user_data, backlog, ticket, sessions>>

\* net_socket_accept takes the first DISCONNECTED entry and conn_reset()s it.
Accept(i) ==
  /\ stage = "accept" /\ backlog # <<>>
  /\ FreeConn(i)
  /\ conn_state' = [conn_state EXCEPT ![i] = "CONNECTED"]
  /\ user_data' = [user_data EXCEPT ![i] = NoInfo]
  /\ peer' = [peer EXCEPT ![i] = Head(backlog)]
  /\ backlog' = Tail(backlog)
  /\ UNCHANGED <<stage, rooms, inbox, unsent, gone, told, ticket, sessions>>

\* The table is full: the connection is closed again and the loop ends.
AcceptRefused ==
  /\ stage = "accept" /\ backlog # <<>>
  /\ \A i \in Conns : conn_state[i] # "DISCONNECTED"
  /\ backlog' = Tail(backlog)
  /\ stage' = "recv"
  /\ UNCHANGED <<rooms, connVars, ticket, sessions>>

AcceptDone ==
  /\ stage = "accept" /\ backlog = <<>>
  /\ stage' = "recv"
  /\ UNCHANGED <<rooms, connVars, backlog, ticket, sessions>>

-----------------------------------------------------------------------------
(* Stage 3: sv_handle_message.                                               *)

\* Connections are drained in index order.
Handling(i) == stage = "recv" /\ IsFirst(i, {j \in Conns : inbox[j] # <<>>})
Msg(i) == Head(inbox[i])
Consumed(i) == [inbox EXCEPT ![i] = Tail(@)]

\* The connections a broadcast to a room is queued on.
Members(room) == { room.slots[s].conn_id : s \in SeatsWith(room, "CONNECTED") }
Queued(S) == [j \in Conns |-> unsent[j] \/ (j \in S /\ conn_state[j] # "DISCONNECTED")]

\* net_socket_close on the connections of S, after "out" was queued on them: one
\* with something to send is CLOSING, another is closed at once.
CloseAll(S, out, box) ==
  LET ended == {j \in S : ~out[j]}
  IN  /\ conn_state' = [j \in Conns |-> IF j \notin S THEN conn_state[j]
                                        ELSE IF out[j] THEN "CLOSING" ELSE "DISCONNECTED"]
      /\ inbox' = Closed(box, ended, <<>>)
      /\ unsent' = out
      /\ peer' = Closed(peer, ended, NoClient)
      /\ gone' = Closed(gone, ended, FALSE)
      /\ told' = Closed(told, ended, {})

\* A message is handled and every connection stays as it is, with "S" told.
Answer(i, S) ==
  /\ inbox' = Consumed(i)
  /\ unsent' = Queued(S)
  /\ UNCHANGED <<conn_state, peer, gone, told>>

\* Where a handshake leads: a new room, a seat of a waiting room, or the seat of a
\* running game that holds its token.
Opens(m, r, code) == m.code = NoCode /\ FreeRoom(r) /\ code \in FreshCodes
Joins(m, r, s) == RoomWithCode(r, m.code) /\ CanJoin(rooms[r], s)
Returns(m, r, s) == RoomWithCode(r, m.code) /\ CanReconnect(rooms[r], s, m.token)

HandshakeOn(i) == Handling(i) /\ Msg(i).type = "HANDSHAKE" /\ user_data[i] = NoInfo

HandshakeReject(i) ==
  /\ \/ Handling(i) /\ Msg(i).type = "OLD_HANDSHAKE"
     \/ /\ HandshakeOn(i)
        /\ ~\E r \in Rooms : \/ \E code \in Codes : Opens(Msg(i), r, code)
                             \/ \E s \in Seats : Joins(Msg(i), r, s) \/ Returns(Msg(i), r, s)
  /\ CloseAll({i}, Queued({i}), Consumed(i))
  /\ UNCHANGED <<stage, rooms, user_data, backlog, ticket, sessions>>

\* The rest of sv_handle_handshake once the seat is taken: the ConnSlotInfo, the
\* HANDSHAKE_ACK with the seat's token, and the news for the room.
Seated(i, r, s, room) ==
  /\ rooms' = [rooms EXCEPT ![r] = room]
  /\ user_data' = [user_data EXCEPT ![i] = [room_index |-> r, seat |-> s]]
  /\ ticket' = IF gone[i] THEN ticket
               ELSE [ticket EXCEPT ![peer[i]] =
                       [code |-> room.code, token |-> room.slots[s].auth_token]]
  /\ Answer(i, Members(room))
  /\ UNCHANGED <<stage, backlog>>

HandshakeCreate(i) ==
  /\ HandshakeOn(i)
  /\ \E r \in Rooms, code \in Codes :
       /\ Opens(Msg(i), r, code)
       /\ Seated(i, r, 0, RoomJoin(WaitingRoom(code), 0, i, Msg(i).token, sessions + 1))
  /\ sessions' = sessions + 1

HandshakeJoin(i) ==
  /\ HandshakeOn(i)
  /\ \E r \in Rooms, s \in Seats :
       /\ Joins(Msg(i), r, s)
       /\ Seated(i, r, s, RoomJoin(rooms[r], s, i, Msg(i).token, sessions + 1))
  /\ sessions' = sessions + 1

HandshakeReconnect(i) ==
  /\ HandshakeOn(i)
  /\ \E r \in Rooms, s \in Seats :
       Returns(Msg(i), r, s) /\ Seated(i, r, s, RoomReconnect(rooms[r], s, i))
  /\ UNCHANGED sessions

\* malloc of the ConnSlotInfo fails: the seat just taken is left again.
HandshakeNoMemory(i) ==
  /\ HandshakeOn(i)
  /\ \E r \in Rooms, s \in Seats :
       \/ /\ Joins(Msg(i), r, s)
          /\ rooms' = [rooms EXCEPT ![r] =
                         RoomLeave(RoomJoin(@, s, i, Msg(i).token, sessions + 1), s)]
          /\ sessions' = sessions + 1
          /\ CloseAll({i}, Queued({i}), Consumed(i))
       \/ /\ Returns(Msg(i), r, s)
          /\ rooms' = [rooms EXCEPT ![r] = RoomLeave(RoomReconnect(@, s, i), s)]
          /\ CloseAll({i}, unsent, Consumed(i))
          /\ UNCHANGED sessions
  /\ UNCHANGED <<stage, user_data, backlog, ticket>>

\* The waiting room requests are served for seat 0 only.
CreatorOf(i, r) ==
  /\ user_data[i] = [room_index |-> r, seat |-> 0]
  /\ rooms[r].status = "WAITING"

AddAI(i) ==
  /\ Handling(i) /\ Msg(i).type = "ADD_AI"
  /\ \E r \in Rooms, s \in Seats :
       /\ CreatorOf(i, r) /\ CanAddAI(rooms[r], s)
       /\ rooms' = [rooms EXCEPT ![r] = RoomAddAI(@, s)]
       /\ Answer(i, Members(rooms[r]))
  /\ UNCHANGED <<stage, user_data, backlog, ticket, sessions>>

RemoveAI(i) ==
  /\ Handling(i) /\ Msg(i).type = "REMOVE_AI"
  /\ \E r \in Rooms, s \in Seats :
       /\ CreatorOf(i, r) /\ CanRemoveAI(rooms[r], s)
       /\ rooms' = [rooms EXCEPT ![r] = RoomRemoveAI(@, s)]
       /\ Answer(i, Members(rooms[r]))
  /\ UNCHANGED <<stage, user_data, backlog, ticket, sessions>>

StartGame(i) ==
  /\ Handling(i) /\ Msg(i).type = "START_GAME"
  /\ \E r \in Rooms :
       /\ CreatorOf(i, r) /\ CanStart(rooms[r])
       /\ rooms' = [rooms EXCEPT ![r] = RoomStart(@)]
  /\ Answer(i, {})
  /\ UNCHANGED <<stage, user_data, backlog, ticket, sessions>>

\* Every early return of the handlers that answers nothing.
Ignored(i) ==
  /\ Handling(i)
  /\ \/ Msg(i).type = "HANDSHAKE" /\ user_data[i] # NoInfo
     \/ /\ Msg(i).type = "ADD_AI"
        /\ ~\E r \in Rooms, s \in Seats : CreatorOf(i, r) /\ CanAddAI(rooms[r], s)
     \/ /\ Msg(i).type = "REMOVE_AI"
        /\ ~\E r \in Rooms, s \in Seats : CreatorOf(i, r) /\ CanRemoveAI(rooms[r], s)
     \/ /\ Msg(i).type = "START_GAME"
        /\ ~\E r \in Rooms : CreatorOf(i, r) /\ CanStart(rooms[r])
  /\ Answer(i, {})
  /\ UNCHANGED <<stage, rooms, user_data, backlog, ticket, sessions>>

\* sv_cleanup_connection: the seat is left, the others are told unless the room is
\* finished or gone, the connection is closed.
CleanupConnection(i, box) ==
  LET info == user_data[i]
      left == IF info = NoInfo THEN InactiveRoom
              ELSE RoomLeave(rooms[info.room_index], info.seat)
      heard_by == IF left.status \in {"WAITING", "PLAYING"} THEN Members(left) ELSE {}
  IN  /\ rooms' = IF info = NoInfo THEN rooms
                  ELSE [rooms EXCEPT ![info.room_index] = left]
      /\ user_data' = [user_data EXCEPT ![i] = NoInfo]
      /\ CloseAll({i}, Queued(heard_by), box)
      /\ UNCHANGED <<stage, backlog, ticket, sessions>>

Disconnect(i) ==
  /\ Handling(i) /\ Msg(i).type = "DISCONNECT"
  /\ CleanupConnection(i, Consumed(i))

RecvDone ==
  /\ stage = "recv" /\ \A i \in Conns : inbox[i] = <<>>
  /\ stage' = "tick"
  /\ UNCHANGED <<rooms, connVars, backlog, ticket, sessions>>

-----------------------------------------------------------------------------
(* Stages 4 to 7.                                                            *)

\* Slip: the tick that ends a game does not mark the room for a broadcast.
PlayedSilently(room, moved, over) ==
  [room EXCEPT !.changed = @ \/ (moved /\ ~over),
               !.status = IF over THEN "FINISHED" ELSE @]

\* room_tick_all: timers first, an abandoned game is destroyed, every other game
\* is ticked; it may progress ("moved") and it may end ("over").
Played(room, moved, over) ==
  [room EXCEPT !.changed = @ \/ moved, !.status = IF over THEN "FINISHED" ELSE @]

Tick ==
  LET playing == {r \in Rooms : rooms[r].status = "PLAYING"}
      abandoned == {r \in playing : Abandoned(UpdateTimers(rooms[r]))}
  IN  /\ stage = "tick"
      /\ \E moved \in SUBSET (playing \ abandoned) : \E over \in SUBSET moved :
           rooms' = [r \in Rooms |->
                       IF r \in abandoned THEN InactiveRoom
                       ELSE IF r \in playing
                       THEN Played(UpdateTimers(rooms[r]), r \in moved, r \in over)
                       ELSE rooms[r]]
      /\ stage' = "broadcast"
      /\ UNCHANGED <<connVars, backlog, ticket, sessions>>

\* sv_broadcast_state: a STATE_UPDATE for every connected seat of a room in which
\* something changed, and a GAME_OVER too when the room is finished.
Broadcast ==
  LET due == {r \in Rooms : /\ rooms[r].status \in {"PLAYING", "FINISHED"}
                            /\ rooms[r].connected_count # 0 /\ rooms[r].changed}
      over == {r \in due : rooms[r].status = "FINISHED"}
      hears(i, S) == conn_state[i] # "DISCONNECTED" /\ \E r \in S : i \in Members(rooms[r])
  IN  /\ stage = "broadcast"
      /\ rooms' = [r \in Rooms |-> [rooms[r] EXCEPT !.changed = @ /\ r \notin due]]
      /\ unsent' = [i \in Conns |-> unsent[i] \/ hears(i, due)]
      /\ told' = [i \in Conns |->
                    told[i] \cup { <<r, rooms[r].elo_received>> : r \in {q \in over : hears(i, {q})} }]
      /\ stage' = "cleanup"
      /\ UNCHANGED <<conn_state, user_data, inbox, peer, gone, backlog, ticket, sessions>>

\* Slip: nothing but the lobby's answer closes a finished room.
SettledByLobby(room) == room.elo_received

Settled(room) == room.elo_received \/ room.elo_wait_timer + 1 >= EloTicks

\* sv_cleanup_finished_rooms: a finished room waits for the lobby's answer, then
\* its connections are closed and it is destroyed. (The count stops at EloTicks.)
Cleanup ==
  LET finished == {r \in Rooms : rooms[r].status = "FINISHED"}
      done == {r \in finished : Settled(rooms[r])}
      stale == {i \in Conns : user_data[i] # NoInfo /\ user_data[i].room_index \in done}
  IN  /\ stage = "cleanup"
      /\ rooms' = [r \in Rooms |->
                     IF r \in done THEN InactiveRoom
                     ELSE [rooms[r] EXCEPT !.elo_wait_timer =
                             IF r \in finished /\ @ < EloTicks THEN @ + 1 ELSE @]]
      /\ user_data' = Closed(user_data, stale, NoInfo)
      /\ CloseAll(stale, unsent, inbox)
      /\ stage' = "detect"
      /\ UNCHANGED <<backlog, ticket, sessions>>

\* Stage 7: a closed connection that still has its ConnSlotInfo was dropped.
Dropped == {i \in Conns : conn_state[i] = "DISCONNECTED" /\ user_data[i] # NoInfo}

DetectDrop(i) ==
  /\ stage = "detect" /\ IsFirst(i, Dropped)
  /\ CleanupConnection(i, inbox)

DetectDone ==
  /\ stage = "detect" /\ Dropped = {}
  /\ stage' = "poll"
  /\ UNCHANGED <<rooms, connVars, backlog, ticket, sessions>>

-----------------------------------------------------------------------------
Handle(i) ==
  \/ HandshakeReject(i) \/ HandshakeCreate(i) \/ HandshakeJoin(i)
  \/ HandshakeReconnect(i) \/ HandshakeNoMemory(i)
  \/ AddAI(i) \/ RemoveAI(i) \/ StartGame(i) \/ Ignored(i) \/ Disconnect(i)

Environment ==
  \/ \E c \in Clients : ClientConnect(c)
  \/ \E i \in Conns : ClientSend(i) \/ ClientQuit(i) \/ ClientDrop(i)
  \/ \E r \in Rooms : LobbyEloResult(r) \/ \E code \in Codes : LobbyCreateRoom(r, code)

Server ==
  \/ Poll
  \/ \E i \in Conns : Accept(i) \/ Handle(i) \/ DetectDrop(i)
  \/ AcceptRefused \/ AcceptDone \/ RecvDone
  \/ Tick \/ Broadcast \/ Cleanup \/ DetectDone

Next == Environment \/ Server
Spec == Init /\ [][Next]_vars

\* The main loop of hh-server runs updates for as long as the process lives.
FairSpec == Spec /\ WF_vars(Server)

-----------------------------------------------------------------------------
(* Properties.                                                               *)

\* A ConnSlotInfo never dangles: the seat it names exists, is CONNECTED and is
\* served by this very connection, at every stage of an update, through every way
\* a room is destroyed (room.h:58: user_data maps a connection to room and seat).
InfoNamesItsSeat ==
  \A i \in Conns : user_data[i] # NoInfo =>
    Serves(rooms[user_data[i].room_index], user_data[i].seat, i)

\* connected_count, which decides when a room is destroyed and whether it is
\* broadcast to, is the number of CONNECTED seats.
CountIsExact == \A r \in Rooms : CountExact(rooms[r])

\* A waiting room holds no seat for anyone who is away; a running game has no
\* empty seat; the AI plays exactly the seats that are not a player's, a player in
\* the grace period included (game.gs.players[].is_human against slots[].status).
SeatsFitThePhase == \A r \in Rooms : FitsThePhase(rooms[r])

\* A code leads to one room: room_find_by_code stops at the first it finds.
CodesAreUnique ==
  \A q, r \in Rooms : Active(q) /\ Active(r) /\ rooms[q].code = rooms[r].code => q = r

\* A running game keeps the seat of a player who dropped for the whole grace
\* period, and is destroyed under its players only when no seat is theirs.
GraceIsHonoured ==
  [][\A r \in Rooms : rooms[r].status = "PLAYING" =>
       /\ rooms'[r].status = "INACTIVE" =>
            \A s \in Seats : \/ rooms[r].slots[s].status = "AI"
                             \/ GraceOver(rooms[r].slots[s])
       /\ \A s \in Seats :
            /\ rooms[r].slots[s].status = "DISCONNECTED"
            /\ rooms'[r].status = "PLAYING" /\ rooms'[r].slots[s].status = "AI"
            => rooms[r].slots[s].disconnect_timer = GraceTicks - 1]_rooms

\* A seat that was left, or taken over by the AI, goes back only to the client
\* that was given its token for this very room.
SeatReturnsToItsOwner ==
  [][\A r \in Rooms, s \in Seats :
       /\ rooms[r].status = "PLAYING"
       /\ rooms[r].slots[s].status \in {"DISCONNECTED", "AI"}
       /\ rooms'[r].slots[s].status = "CONNECTED"
       => ticket[peer[rooms'[r].slots[s].conn_id]] =
            [code |-> rooms[r].code, token |-> rooms[r].slots[s].auth_token]]_rooms

\* The server never closes the connection of a seat of a finished room before a
\* GAME_OVER was queued on it, nor before one with the ratings once it has them.
ResultBeforeClose ==
  [][\A i \in Conns :
       stage = "cleanup" /\ user_data[i] # NoInfo /\ user_data'[i] = NoInfo
         /\ conn_state[i] # "DISCONNECTED"
       => LET r == user_data[i].room_index
          IN  <<r, rooms[r].elo_received>> \in told[i]]_vars

\* Each room lives the life SeatLifecycle describes, however the stages of the
\* server, the clients and the lobby interleave.
Lifecycle(r) == INSTANCE SeatLifecycle WITH
  phase <- rooms[r].status, seat <- [s \in Seats |-> rooms[r].slots[s].status]
RoomsLiveTheirLife ==
  /\ \A r \in Rooms : Lifecycle(r)!Init
  /\ [][\A r \in Rooms : [Lifecycle(r)!Next]_(Lifecycle(r)!lifeVars)]_rooms

\* A finished room is destroyed, whether the lobby answers or not.
FinishedRoomsClose ==
  \A r \in Rooms : rooms[r].status = "FINISHED" ~> rooms[r].status = "INACTIVE"

\* A dropped player's seat does not wait for ever: the player is back, the AI has
\* it, or the game is over.
DroppedSeatsResolve ==
  \A r \in Rooms, s \in Seats :
    rooms[r].status = "PLAYING" /\ rooms[r].slots[s].status = "DISCONNECTED"
    ~> rooms[r].status # "PLAYING" \/ rooms[r].slots[s].status # "DISCONNECTED"

=============================================================================
