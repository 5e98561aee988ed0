--------------------------------- MODULE Lobby ---------------------------------
(*****************************************************************************)
(* hh-lobby (lobby/lobby_net.c over the tables of LobbyTables) with the      *)
(* clients (net/lobby_client.c and its use in main.c) and the game servers   *)
(* (server/lobby_link.c) that talk to it.                                    *)
(*                                                                           *)
(* One lobby_net_update is a sequence of stages, as in ServerNet:            *)
(*                                                                           *)
(*   poll -> accept -> recv -> detect -> maintain -> poll                    *)
(*                                                                           *)
(* Clients, servers and the network act before a poll.                       *)
(*                                                                           *)
(* Abstractions: a connection the lobby closes is closed at once and its     *)
(* peer reads no more of it; the accounts exist and a client logs in to its  *)
(* own; a time limit has passed when the model likes; PING, queue positions, *)
(* statistics, friends and the account database change nothing here.         *)
(*****************************************************************************)
EXTENDS LobbyTables, Sequences, SequencesExt

CONSTANTS
  Outsiders,        \* a client may be of another version, or its key not fit its name
  NoPeer, NoInfo,
  InboxCap,         \* bound: frames of one connection read and not handled yet
  MaxRequests,      \* bound: rooms and matches asked for in one behaviour
  MaxClientDrops,   \* bound: ends of a client's connection
  MaxServerDrops,   \* bound: ends of a game server's connection
  MaxExpiries,      \* bound: game servers without a heartbeat for a minute
  MaxRoomEvents,    \* bound: starts and ends of rooms on the game servers
  MaxCleanups       \* bound: room codes deleted, which may be drawn again

Limit == [requests |-> MaxRequests, client_drops |-> MaxClientDrops,
          server_drops |-> MaxServerDrops, expiries |-> MaxExpiries,
          room_events |-> MaxRoomEvents, cleanups |-> MaxCleanups]

Peers == Clients \cup Servers
ASSUME LobbyBounds == InboxCap \in Nat \ {0} /\ \A b \in DOMAIN Limit : Limit[b] \in Nat
ASSUME LobbyPrograms ==
  NoPeer \notin Peers /\ Clients \cap Servers = {} /\ Outsiders \in BOOLEAN

VARIABLES
  stage,        \* stage of lobby_net_update that runs next
  conn_state,   \* NetConn.state
  user_data,    \* NetConn.user_data: the connection's LobbyConnInfo, or NULL
  inbox,        \* frames the peer sent on the connection, not handled yet
  peer,         \* the program at the other end of the connection
  gone,         \* that program has closed its end
  lobby,        \* the tables
  backlog,      \* connections the kernel has completed, not accepted yet
  mail,         \* frames of the lobby a program has not handled yet
  client,       \* lobby_client.c: g_state; main.c: oui.subphase
  hosted,       \* the rooms of a game server, by code
  spent         \* how much of each bound was used

connVars == <<conn_state, user_data, inbox, peer, gone>>
lobbyVars == <<stage, connVars, lobby, backlog>>
vars == <<lobbyVars, mail, client, hosted, spent>>

ConnInfo == [type       : {"UNKNOWN", "CLIENT", "GAME_SERVER"},
             auth_state : {"NONE", "CHALLENGE_SENT", "AUTHENTICATED"}]
\* OLD_HELLO is a LOBBY_HELLO with another version.
Message == [type : {"HELLO", "OLD_HELLO", "LOGIN", "LOGIN_RESPONSE", "DISCONNECT",
                    "CREATE_ROOM", "QUEUE", "QUEUE_CANCEL"}]
      \cup [type : {"JOIN_ROOM", "ROOM_CREATED", "ROOM_REFUSED", "RESULT", "ROOM_DESTROYED"},
            code : Codes]
      \cup [type : {"REGISTER", "HEARTBEAT"}, current_rooms : Nat]
Mail == [type : {"ERROR", "LOGIN_CHALLENGE", "LOGIN_ACK", "ROOM_ASSIGNED", "ELO_RESULT"}]
   \cup [type : {"SERVER_CREATE_ROOM"}, code : Codes]
Asking == {"CREATING_ROOM", "JOINING_ROOM", "QUEUED"}
ClientState ==
  [state    : Asking \cup {"DISCONNECTED", "CONNECTING", "LOGGING_IN", "CHALLENGED",
                           "AUTHENTICATED", "ERROR"},
   subphase : Asking \cup {"MENU", "MATCH_FOUND"}]
RoomOnServer == {"none", "waiting", "playing", "over"}

TypeOK ==
  /\ stage \in {"poll", "accept", "recv", "detect", "maintain"}
  /\ conn_state \in [Conns -> {"DISCONNECTED", "CONNECTED"}]
  /\ user_data \in [Conns -> ConnInfo \cup {NoInfo}]
  /\ inbox \in [Conns -> Seq(Message)]
  /\ peer \in [Conns -> Peers \cup {NoPeer}]
  /\ gone \in [Conns -> BOOLEAN]
  /\ lobby \in Tables
  /\ backlog \in Seq(Peers)
  /\ mail \in [Peers -> Seq(Mail)]
  /\ client \in [Clients -> ClientState]
  /\ hosted \in [Servers -> [Codes -> RoomOnServer]]
  /\ spent \in [DOMAIN Limit -> Nat]

Offline == [state |-> "DISCONNECTED", subphase |-> "MENU"]

Init ==
  /\ stage = "poll"
  /\ conn_state = [i \in Conns |-> "DISCONNECTED"]
  /\ user_data = [i \in Conns |-> NoInfo]
  /\ inbox = [i \in Conns |-> <<>>]
  /\ peer = [i \in Conns |-> NoPeer]
  /\ gone = [i \in Conns |-> FALSE]
  /\ lobby = EmptyTables
  /\ backlog = <<>>
  /\ mail = [p \in Peers |-> <<>>]
  /\ client = [c \in Clients |-> Offline]
  /\ hosted = [g \in Servers |-> [k \in Codes |-> "none"]]
  /\ spent = [b \in DOMAIN Limit |-> 0]

Spend(b) == spent[b] < Limit[b] /\ spent' = [spent EXCEPT ![b] = @ + 1]

\* The connection a program talks on, while the lobby has not closed it.
Link(p, i) == peer[i] = p /\ ~gone[i]
Linked(p) == \E i \in Conns : Link(p, i)
Knocking(p) == \E n \in DOMAIN backlog : backlog[n] = p
RoomsOf(g) == {k \in Codes : hosted[g][k] # "none"}

-----------------------------------------------------------------------------
(* The programs at the other end.                                            *)

Says(i, ms) == inbox' = [inbox EXCEPT ![i] = @ \o ms]
CanSay(p, i) == stage = "poll" /\ Link(p, i) /\ Len(inbox[i]) < InboxCap
Become(c, state, subphase) ==
  client' = [client EXCEPT ![c] = [state |-> state, subphase |-> subphase]]

Connect(p) ==
  /\ stage = "poll"
  /\ ~Linked(p) /\ ~Knocking(p)
  /\ backlog' = Append(backlog, p)
  /\ mail' = [mail EXCEPT ![p] = <<>>]
  /\ UNCHANGED <<stage, connVars, lobby, hosted, spent>>

ClientConnect(c) ==
  Connect(c) /\ client[c] = Offline /\ Become(c, "CONNECTING", "MENU")

\* The frame the connection is up: the version, then the login main.c starts
\* (with the stored name or with the key; the lobby answers both alike).  A player whose
\* program is too old may come back with a new one.
ClientHello(c, i) ==
  /\ CanSay(c, i) /\ client[c].state = "CONNECTING"
  /\ \E hello \in {"HELLO"} \cup IF Outsiders THEN {"OLD_HELLO"} ELSE {} :
       Says(i, <<[type |-> hello], [type |-> "LOGIN"]>>)
  /\ Become(c, "LOGGING_IN", "MENU")
  /\ UNCHANGED <<stage, conn_state, user_data, peer, gone, lobby, backlog, mail, hosted, spent>>

\* lobby_client_create_room, _join_room, _queue_matchmake: only when AUTHENTICATED,
\* from the online menu.
ClientAsks(c, i) ==
  /\ CanSay(c, i) /\ client[c].state = "AUTHENTICATED" /\ client[c].subphase = "MENU"
  /\ Spend("requests")
  /\ \/ Says(i, <<[type |-> "CREATE_ROOM"]>>) /\ Become(c, "CREATING_ROOM", "CREATING_ROOM")
     \/ Says(i, <<[type |-> "QUEUE"]>>) /\ Become(c, "QUEUED", "QUEUED")
     \/ \E k \in Codes : /\ Says(i, <<[type |-> "JOIN_ROOM", code |-> k]>>)
                         /\ Become(c, "JOINING_ROOM", "JOINING_ROOM")
  /\ UNCHANGED <<stage, conn_state, user_data, peer, gone, lobby, backlog, mail, hosted>>

\* INPUT_CMD_ONLINE_CANCEL, or the end of the game a request led to: back to the
\* menu.  Only leaving the queue is told to the lobby, and only when still QUEUED.
ClientBack(c, i) ==
  /\ CanSay(c, i) /\ client[c].subphase # "MENU"
  /\ LET cancels == client[c].state = client[c].subphase
     IN  /\ Become(c, IF cancels THEN "AUTHENTICATED" ELSE client[c].state, "MENU")
         /\ Says(i, IF cancels /\ client[c].state = "QUEUED"
                    THEN <<[type |-> "QUEUE_CANCEL"]>> ELSE <<>>)
  /\ UNCHANGED <<stage, conn_state, user_data, peer, gone, lobby, backlog, mail, hosted, spent>>

\* lc_handle_message, and what main.c does in the same frame: an assignment that
\* comes while the menu is idle is discarded, another is followed ("MATCH_FOUND"
\* stands for the subphases from there to the game).
ClientRead(c, i) ==
  LET m == Head(mail[c])
      cl == client[c]
  IN  /\ stage = "poll" /\ mail[c] # <<>> /\ Link(c, i)
      /\ mail' = [mail EXCEPT ![c] = Tail(@)]
      /\ inbox' = IF m.type = "LOGIN_CHALLENGE" /\ cl.state = "LOGGING_IN"
                  THEN [inbox EXCEPT ![i] = Append(@, [type |-> "LOGIN_RESPONSE"])] ELSE inbox
      /\ client' = [client EXCEPT ![c] =
           CASE m.type = "LOGIN_CHALLENGE" /\ cl.state = "LOGGING_IN" ->
                  [cl EXCEPT !.state = "CHALLENGED"]
             [] m.type = "LOGIN_ACK" /\ cl.state = "CHALLENGED" ->
                  [cl EXCEPT !.state = "AUTHENTICATED"]
             [] m.type = "ROOM_ASSIGNED" ->
                  [state |-> "AUTHENTICATED",
                   subphase |-> IF cl.subphase = "MENU" THEN "MENU" ELSE "MATCH_FOUND"]
             [] m.type = "ERROR" /\ cl.state \in Asking ->
                  [state |-> "AUTHENTICATED", subphase |-> "MENU"]
             [] m.type = "ERROR" /\ cl.state \notin Asking -> [cl EXCEPT !.state = "ERROR"]
             [] OTHER -> cl]
      /\ UNCHANGED <<stage, conn_state, user_data, peer, gone, lobby, backlog, hosted, spent>>

\* The lobby closed the connection or turned it away: "Connection lost", and the
\* player tries again.
ClientLost(c) ==
  /\ stage = "poll" /\ client[c] # Offline /\ ~Linked(c) /\ ~Knocking(c)
  /\ Become(c, "DISCONNECTED", "MENU")
  /\ mail' = [mail EXCEPT ![c] = <<>>]
  /\ UNCHANGED <<lobbyVars, hosted, spent>>

\* lobby_client_shutdown says farewell first; a crash, a lost network and the retry
\* of a failed login do not.
ClientEnds(c, i) ==
  /\ stage = "poll" /\ Link(c, i) /\ Spend("client_drops")
  /\ inbox' \in {inbox, [inbox EXCEPT ![i] = Append(@, [type |-> "DISCONNECT"])]}
  /\ gone' = [gone EXCEPT ![i] = TRUE]
  /\ mail' = [mail EXCEPT ![c] = <<>>]
  /\ Become(c, "DISCONNECTED", "MENU")
  /\ UNCHANGED <<stage, conn_state, user_data, peer, lobby, backlog, hosted>>

-----------------------------------------------------------------------------
(* A game server's link (lobby_link_update and what server_net.c calls).     *)

ServerConnect(g) == Connect(g) /\ UNCHANGED client

\* The first connected update registers; a heartbeat every 15 s.  Heartbeats that
\* repeat the number of rooms only keep the server alive and are left out.
ServerReports(g, i, type) ==
  /\ CanSay(g, i) /\ inbox[i] = <<>>
  /\ Says(i, <<[type |-> type, current_rooms |-> Cardinality(RoomsOf(g))]>>)
  /\ UNCHANGED <<stage, conn_state, user_data, peer, gone, lobby, backlog, mail, client,
                 hosted, spent>>
ServerRegisters(g, i) ==
  peer[i] = g /\ user_data[i].type = "UNKNOWN" /\ ServerReports(g, i, "REGISTER")
ServerBeats(g, i) ==
  /\ peer[i] = g /\ user_data[i].type = "GAME_SERVER"
  /\ \A h \in RegisteredOn(lobby, i) :
       lobby.servers[h].current_rooms # Cardinality(RoomsOf(g))
  /\ ServerReports(g, i, "HEARTBEAT")

\* SERVER_CREATE_ROOM: room_create_with_code refuses a code in use and a full table.
ServerCreateRoom(g, i) ==
  LET k == Head(mail[g]).code
      made == hosted[g][k] = "none" /\ Cardinality(RoomsOf(g)) < MaxRooms
  IN  /\ stage = "poll" /\ Link(g, i) /\ mail[g] # <<>>
      /\ Head(mail[g]).type = "SERVER_CREATE_ROOM"
      /\ mail' = [mail EXCEPT ![g] = Tail(@)]
      /\ hosted' = IF made THEN [hosted EXCEPT ![g][k] = "waiting"] ELSE hosted
      /\ Says(i, <<[type |-> IF made THEN "ROOM_CREATED" ELSE "ROOM_REFUSED", code |-> k]>>)
      /\ UNCHANGED <<stage, conn_state, user_data, peer, gone, lobby, backlog, client, spent>>

\* Any other frame is logged; the ratings go to the room (see ServerNet).
ServerSkips(g) ==
  /\ stage = "poll" /\ mail[g] # <<>> /\ Head(mail[g]).type # "SERVER_CREATE_ROOM"
  /\ mail' = [mail EXCEPT ![g] = Tail(@)]
  /\ UNCHANGED <<lobbyVars, client, hosted, spent>>

\* What is told to the lobby when the link is up, and dropped otherwise.
Tells(g, m) ==
  \/ ~Linked(g) /\ UNCHANGED inbox
  \/ \E i \in Conns : CanSay(g, i) /\ user_data[i].type = "GAME_SERVER" /\ Says(i, <<m>>)

RoomStarts(g, k) ==
  /\ stage = "poll" /\ Spend("room_events") /\ hosted[g][k] = "waiting"
  /\ hosted' = [hosted EXCEPT ![g][k] = "playing"]
  /\ UNCHANGED <<lobbyVars, mail, client>>

RoomFinishes(g, k) ==
  /\ stage = "poll" /\ Spend("room_events") /\ hosted[g][k] = "playing"
  /\ hosted' = [hosted EXCEPT ![g][k] = "over"]
  /\ Tells(g, [type |-> "RESULT", code |-> k])
  /\ UNCHANGED <<stage, conn_state, user_data, peer, gone, lobby, backlog, mail, client>>

\* The last player leaves a waiting room.
RoomEmpties(g, k) ==
  /\ stage = "poll" /\ Spend("room_events") /\ hosted[g][k] = "waiting"
  /\ hosted' = [hosted EXCEPT ![g][k] = "none"]
  /\ Tells(g, [type |-> "ROOM_DESTROYED", code |-> k])
  /\ UNCHANGED <<stage, conn_state, user_data, peer, gone, lobby, backlog, mail, client>>

\* A finished room closes, and one all players have abandoned: the lobby is not told.
RoomCloses(g, k) ==
  /\ stage = "poll" /\ Spend("room_events") /\ hosted[g][k] \in {"playing", "over"}
  /\ hosted' = [hosted EXCEPT ![g][k] = "none"]
  /\ UNCHANGED <<lobbyVars, mail, client>>

\* The link breaks, or the whole server goes down with its rooms.
ServerEnds(g, i) ==
  /\ stage = "poll" /\ Link(g, i) /\ Spend("server_drops")
  /\ gone' = [gone EXCEPT ![i] = TRUE]
  /\ mail' = [mail EXCEPT ![g] = <<>>]
  /\ hosted' \in {hosted, [hosted EXCEPT ![g] = [k \in Codes |-> "none"]]}
  /\ UNCHANGED <<stage, conn_state, user_data, inbox, peer, lobby, backlog, client>>

-----------------------------------------------------------------------------
(* Stages 1 and 2: net_socket_update, net_socket_accept.                     *)

\* The peer's close is seen now or at a later poll; the buffers are forgotten, the
\* LobbyConnInfo is not.
Poll ==
  /\ stage = "poll"
  /\ \E dropped \in SUBSET {i \in Conns : gone[i]} :
       /\ conn_state' = [i \in Conns |-> IF i \in dropped THEN "DISCONNECTED" ELSE conn_state[i]]
       /\ inbox' = [i \in Conns |-> IF i \in dropped THEN <<>> ELSE inbox[i]]
       /\ peer' = [i \in Conns |-> IF i \in dropped THEN NoPeer ELSE peer[i]]
       /\ gone' = [i \in Conns |-> gone[i] /\ i \notin dropped]
  /\ stage' = "accept"
  /\ UNCHANGED <<user_data, lobby, backlog, mail, client, hosted, spent>>

IsFirst(i, S) == i \in S /\ \A j \in S : i <= j

\* find_free_slot takes the first; conn_reset and a new LobbyConnInfo.
Accept(i) ==
  /\ stage = "accept" /\ backlog # <<>>
  /\ IsFirst(i, {j \in Conns : conn_state[j] = "DISCONNECTED"})
  /\ conn_state' = [conn_state EXCEPT ![i] = "CONNECTED"]
  /\ user_data' = [user_data EXCEPT ![i] = [type |-> "UNKNOWN", auth_state |-> "NONE"]]
  /\ peer' = [peer EXCEPT ![i] = Head(backlog)]
  /\ backlog' = Tail(backlog)
  /\ UNCHANGED <<stage, inbox, gone, lobby, mail, client, hosted, spent>>

\* The loop ends when nobody waits or the table is full (then one is turned away).
AcceptDone ==
  /\ stage = "accept"
  /\ \/ backlog = <<>> /\ UNCHANGED backlog
     \/ /\ backlog # <<>> /\ \A i \in Conns : conn_state[i] = "CONNECTED"
        /\ backlog' = Tail(backlog)
  /\ stage' = "recv"
  /\ UNCHANGED <<connVars, lobby, mail, client, hosted, spent>>

-----------------------------------------------------------------------------
(* Stage 3: lby_handle_message.                                              *)

Handling(i, type) ==
  /\ stage = "recv" /\ inbox[i] # <<>> /\ Head(inbox[i]).type = type
  /\ \A j \in Conns : j < i => inbox[j] = <<>>
Consumed(i) == [inbox EXCEPT ![i] = Tail(@)]
Code(i) == Head(inbox[i]).code

\* lby_send_error and the other sends, to the connections of a list or another
\* function: what they add to the mail.  A connection that is not CONNECTED gets nothing.
Reaches(i, p) == conn_state[i] = "CONNECTED" /\ peer[i] = p /\ ~gone[i]
Told(conns, m) ==
  [p \in Peers |-> mail[p] \o
     [n \in 1..Cardinality({q \in DOMAIN conns : Reaches(conns[q], p)}) |-> m]]
Error == [type |-> "ERROR"]
Assigned == [type |-> "ROOM_ASSIGNED"]

\* A handler that leaves the connections alone.
Handled(i, tables, letters) ==
  /\ inbox' = Consumed(i)
  /\ lobby' = tables
  /\ mail' = letters
  /\ UNCHANGED <<stage, conn_state, peer, gone, backlog, client, hosted, spent>>

Hello(i) ==
  /\ Handling(i, "HELLO")
  /\ user_data' = [user_data EXCEPT ![i].type = "CLIENT"]
  /\ Handled(i, lobby, mail)

\* lby_handle_login and lby_handle_login_by_key find the account and send a nonce.
Login(i) ==
  /\ Handling(i, "LOGIN")
  /\ user_data' = [user_data EXCEPT ![i] = [type |-> "CLIENT", auth_state |-> "CHALLENGE_SENT"]]
  /\ Handled(i, lobby, Told(<<i>>, [type |-> "LOGIN_CHALLENGE"]))

\* lby_handle_login_response: the signature fits the account's key, or it does not (a
\* new key with a stored name). A response only follows a challenge.
LoginResponse(i) ==
  /\ Handling(i, "LOGIN_RESPONSE")
  /\ \/ /\ user_data' = [user_data EXCEPT ![i].auth_state = "AUTHENTICATED"]
        /\ Handled(i, lobby, Told(<<i>>, [type |-> "LOGIN_ACK"]))
     \/ /\ Outsiders
        /\ user_data' = [user_data EXCEPT ![i].auth_state = "NONE"]
        /\ Handled(i, lobby, Told(<<i>>, Error))

LoggedIn(i) == user_data[i] # NoInfo /\ user_data[i].auth_state = "AUTHENTICATED"

\* A server with room is picked whatever its connection; that one may be down.
Up(g) == conn_state[lobby.servers[g].conn_id] = "CONNECTED"
NowhereToHost == \/ PickServer(lobby) = {} \/ FreeCodes(lobby) = {}
                 \/ \E g \in PickServer(lobby) : ~Up(g)

CreateRoom(i) ==
  /\ Handling(i, "CREATE_ROOM") /\ LoggedIn(i)
  /\ Cardinality(lobby.pending) < MaxPending
  /\ \E g \in PickServer(lobby), k \in FreeCodes(lobby) :
       LET srv == lobby.servers[g].conn_id
       IN  /\ Up(g)
           /\ Handled(i, [InsertRow(lobby, k, g) EXCEPT
                             !.pending = @ \cup {[code |-> k, client |-> i, server |-> srv]}],
                         Told(<<srv>>, [type |-> "SERVER_CREATE_ROOM", code |-> k]))
  /\ UNCHANGED user_data

CreateRefused(i) ==
  /\ Handling(i, "CREATE_ROOM")
  /\ \/ ~LoggedIn(i)
     \/ Cardinality(lobby.pending) >= MaxPending
     \/ NowhereToHost
  /\ Handled(i, lobby, Told(<<i>>, Error))
  /\ UNCHANGED user_data

\* A finished room is gone; an expired one is not joined either.
JoinRoom(i) ==
  /\ Handling(i, "JOIN_ROOM")
  /\ LET row == lobby.codes[Code(i)]
     IN  Handled(i, lobby, Told(<<i>>,
           IF LoggedIn(i) /\ row # NoRow /\ row.status = "active"
           THEN Assigned ELSE Error))
  /\ UNCHANGED user_data

\* lby_handle_queue when the player waits on, and when it is refused.
Queue(i) ==
  /\ Handling(i, "QUEUE")
  /\ IF LoggedIn(i) /\ CanEnqueue(lobby, peer[i])
     THEN ~MatchForms(Enqueue(lobby, i, peer[i])) /\ Handled(i, Enqueue(lobby, i, peer[i]), mail)
     ELSE Handled(i, lobby, Told(<<i>>, Error))
  /\ UNCHANGED user_data

\* lby_handle_queue when the player completes a match: lby_process_match.
QueueMatch(i) ==
  LET t == Enqueue(lobby, i, peer[i])
      conns == MatchedConns(t)
      left == Unqueue(t, MatchedSlots(t))
      all_there == \A p \in 1..MatchSize : /\ conn_state[conns[p]] = "CONNECTED"
                                           /\ user_data[conns[p]] # NoInfo
  IN  /\ Handling(i, "QUEUE") /\ LoggedIn(i) /\ CanEnqueue(lobby, peer[i]) /\ MatchForms(t)
      /\ \/ /\ NowhereToHost
            /\ Handled(i, left, Told(conns, Error))
         \/ \E g \in PickServer(lobby), k \in FreeCodes(lobby) :
              LET srv == lobby.servers[g].conn_id
                  room == InsertRow(left, k, g)
              IN  /\ Up(g)
                  /\ IF Cardinality(lobby.matches) < MaxMatches /\ all_there
                     THEN Handled(i, [room EXCEPT !.matches = @ \cup
                                       {[code |-> k, conns |-> conns, server |-> srv]}],
                                  Told(<<srv>>, [type |-> "SERVER_CREATE_ROOM", code |-> k]))
                     ELSE Handled(i, SetStatus(room, k, "expired"), Told(conns, Error))
      /\ UNCHANGED user_data

QueueCancel(i) ==
  /\ Handling(i, "QUEUE_CANCEL")
  /\ IF LoggedIn(i) THEN Handled(i, Dequeue(lobby, i), mail)
     ELSE Handled(i, lobby, Told(<<i>>, Error))
  /\ UNCHANGED user_data

\* svreg_register; the connection is a game server's from now on.
ServerRegister(i) ==
  /\ Handling(i, "REGISTER")
  /\ user_data' = [user_data EXCEPT ![i].type = "GAME_SERVER"]
  /\ Handled(i, Register(lobby, peer[i], i, Head(inbox[i]).current_rooms), mail)

\* svreg_heartbeat looks the server up by its connection.
ServerHeartbeat(i) ==
  /\ Handling(i, "HEARTBEAT")
  /\ Handled(i, [lobby EXCEPT !.servers =
                   [g \in Servers |-> IF g \in RegisteredOn(lobby, i)
                                      THEN [@[g] EXCEPT !.current_rooms = Head(inbox[i]).current_rooms]
                                      ELSE @[g]]], mail)
  /\ UNCHANGED user_data

\* lby_handle_server_room_created: a pending match with the code comes first, then
\* a pending private room; nobody may be waiting any more.
PendingOf(k) == {p \in lobby.pending : p.code = k}
MatchOf(k) == {m \in lobby.matches : m.code = k}
Waiting(k) ==
  IF MatchOf(k) # {} THEN (CHOOSE m \in MatchOf(k) : TRUE).conns
  ELSE IF PendingOf(k) # {} THEN <<(CHOOSE p \in PendingOf(k) : TRUE).client>>
  ELSE <<>>
Answered(k) ==
  IF MatchOf(k) # {} THEN [lobby EXCEPT !.matches = @ \ MatchOf(k)]
  ELSE [lobby EXCEPT !.pending = @ \ PendingOf(k)]

ServerRoomCreated(i) ==
  /\ Handling(i, "ROOM_CREATED")
  /\ Handled(i, Answered(Code(i)),
             Told(Waiting(Code(i)), Assigned))
  /\ UNCHANGED user_data

ServerRoomRefused(i) ==
  /\ Handling(i, "ROOM_REFUSED")
  /\ Handled(i, IF Waiting(Code(i)) = <<>> THEN lobby
                ELSE SetStatus(Answered(Code(i)), Code(i), "expired"),
             Told(Waiting(Code(i)), Error))
  /\ UNCHANGED user_data

\* lby_handle_server_result: the room is finished; the ratings are answered when the
\* match could be recorded.
ServerResult(i) ==
  /\ Handling(i, "RESULT")
  /\ \E answer \in {mail, Told(<<i>>, [type |-> "ELO_RESULT"])} :
       Handled(i, SetStatus(lobby, Code(i), "finished"), answer)
  /\ UNCHANGED user_data

ServerRoomDestroyed(i) ==
  /\ Handling(i, "ROOM_DESTROYED")
  /\ Handled(i, [SetStatus(lobby, Code(i), "expired") EXCEPT !.pending = @ \ PendingOf(Code(i))], mail)
  /\ UNCHANGED user_data

\* net_socket_close.
CloseConn(i) ==
  /\ conn_state' = [conn_state EXCEPT ![i] = "DISCONNECTED"]
  /\ inbox' = [inbox EXCEPT ![i] = <<>>]
  /\ peer' = [peer EXCEPT ![i] = NoPeer]
  /\ gone' = [gone EXCEPT ![i] = FALSE]

\* Slip: the other players of its match are not told.
CleanupClientSilently(i) ==
  /\ \E S \in {{}} \cup {{m} : m \in MatchesWith(lobby, i)} :
       /\ S = {} <=> MatchesWith(lobby, i) = {}
       /\ lobby' = [Dequeue(ForgetClient(lobby, i), i) EXCEPT !.matches = @ \ S]
  /\ UNCHANGED mail

\* lby_cleanup_connection: a client leaves the tables and the players it was matched
\* with are told (of one match); a server leaves with all that waited for it.
CleanupClient(i) ==
  LET t == Dequeue(ForgetClient(lobby, i), i)
      others(m) == Restrict(m.conns, {q \in 1..MatchSize : m.conns[q] # i})
  IN  IF MatchesWith(t, i) = {} THEN lobby' = t /\ UNCHANGED mail
      ELSE \E m \in MatchesWith(t, i) :
             /\ lobby' = [t EXCEPT !.matches = @ \ {m}]
             /\ mail' = Told(others(m), Error)

CleanupServer(i) ==
  /\ IF RegisteredOn(lobby, i) = {} THEN lobby' = ForgetServer(lobby, i)
     ELSE \E g \in RegisteredOn(lobby, i) : lobby' = ForgetServer(Unregister(lobby, g), i)
  /\ UNCHANGED mail

CleanupConnection(i) ==
  /\ CASE user_data[i].type = "CLIENT"      -> CleanupClient(i)
       [] user_data[i].type = "GAME_SERVER" -> CleanupServer(i)
       [] OTHER                             -> UNCHANGED <<lobby, mail>>
  /\ user_data' = [user_data EXCEPT ![i] = NoInfo]
  /\ CloseConn(i)
  /\ UNCHANGED <<stage, backlog, client, hosted, spent>>

Farewell(i) == Handling(i, "DISCONNECT") /\ CleanupConnection(i)

\* A client of another version is rejected and cleaned up; it has no place in the
\* tables yet.
OldHello(i) ==
  /\ Handling(i, "OLD_HELLO")
  /\ user_data' = [user_data EXCEPT ![i] = NoInfo]
  /\ CloseConn(i)
  /\ UNCHANGED <<stage, lobby, backlog, mail, client, hosted, spent>>

RecvDone ==
  /\ stage = "recv" /\ \A i \in Conns : inbox[i] = <<>>
  /\ stage' = "detect"
  /\ UNCHANGED <<connVars, lobby, backlog, mail, client, hosted, spent>>

-----------------------------------------------------------------------------
(* Stages 4 and 5.                                                           *)

Dropped == {i \in Conns : conn_state[i] = "DISCONNECTED" /\ user_data[i] # NoInfo}

DetectDrop(i) ==
  /\ stage = "detect" /\ IsFirst(i, Dropped)
  /\ CleanupConnection(i)

DetectDone ==
  /\ stage = "detect" /\ Dropped = {}
  /\ stage' = "maintain"
  /\ UNCHANGED <<connVars, lobby, backlog, mail, client, hosted, spent>>

\* Stage 5: each time limit may have passed for whatever it guards.
Expires(tables, letters) ==
  /\ stage = "maintain"
  /\ lobby' = tables /\ mail' = letters
  /\ UNCHANGED <<stage, backlog, user_data, client, hosted>>
Kept == UNCHANGED <<conn_state, inbox, peer, gone>>

\* mm_pending_expire.
ExpireMatch(m) ==
  /\ Expires([lobby EXCEPT !.matches = @ \ {m}], Told(m.conns, Error)) /\ Kept /\ UNCHANGED spent

\* Slip: the time limit passes and the client is not told.
ExpirePendingSilently(p) ==
  /\ Expires([lobby EXCEPT !.pending = @ \ {p}], mail) /\ Kept /\ UNCHANGED spent

\* lobby_pending_expire.
ExpirePending(p) ==
  /\ Expires([lobby EXCEPT !.pending = @ \ {p}], Told(<<p.client>>, Error)) /\ Kept /\ UNCHANGED spent

\* lobby_rooms_cleanup: an active or expired row ten minutes after its insertion,
\* when whoever waited for it has long been answered.
CleanupCode(k) ==
  /\ lobby.codes[k] # NoRow /\ lobby.codes[k].status # "finished"
  /\ PendingOf(k) = {} /\ MatchOf(k) = {}
  /\ Spend("cleanups")
  /\ Expires([lobby EXCEPT !.codes[k] = NoRow], mail) /\ Kept

\* svreg_expire_dead and lby_on_dead_server: no heartbeat for a minute on the
\* connection of g.  The server unregistered is one found by that connection.
ExpireServer(g) ==
  LET i == lobby.servers[g].conn_id
      rooms == {p \in lobby.pending : p.server = i}
      matches == {m \in lobby.matches : m.server = i}
      waits(j) == \/ \E p \in rooms : p.client = j
                  \/ \E m \in matches : \E q \in 1..MatchSize : m.conns[q] = j
  IN  /\ g \in Registered(lobby)
      /\ \E h \in RegisteredOn(lobby, i) :
           Expires(ForgetServer(Unregister(lobby, h), i),
                   Told([j \in {j \in Conns : waits(j)} |-> j], Error))
      /\ CloseConn(i)
      /\ Spend("expiries")

MaintainDone ==
  /\ stage = "maintain" /\ stage' = "poll"
  /\ UNCHANGED <<connVars, lobby, backlog, mail, client, hosted, spent>>

-----------------------------------------------------------------------------
Handle(i) ==
  \/ Hello(i) \/ OldHello(i) \/ Login(i) \/ LoginResponse(i) \/ Farewell(i)
  \/ CreateRoom(i) \/ CreateRefused(i) \/ JoinRoom(i)
  \/ Queue(i) \/ QueueMatch(i) \/ QueueCancel(i)
  \/ ServerRegister(i) \/ ServerHeartbeat(i) \/ ServerRoomCreated(i)
  \/ ServerRoomRefused(i) \/ ServerResult(i) \/ ServerRoomDestroyed(i)

Update ==
  \/ Poll
  \/ \E i \in Conns : Accept(i) \/ Handle(i) \/ DetectDrop(i)
  \/ AcceptDone \/ RecvDone \/ DetectDone \/ MaintainDone

Timeouts ==
  \/ \E m \in lobby.matches : ExpireMatch(m)
  \/ \E p \in lobby.pending : ExpirePending(p)
  \/ \E g \in Servers : ExpireServer(g)
  \/ \E k \in Codes : CleanupCode(k)

ClientStep(c) ==
  \/ ClientConnect(c) \/ ClientLost(c)
  \/ \E i \in Conns : \/ ClientHello(c, i) \/ ClientAsks(c, i) \/ ClientBack(c, i)
                       \/ ClientRead(c, i) \/ ClientEnds(c, i)

ServerStep(g) ==
  \/ ServerConnect(g) \/ ServerSkips(g)
  \/ \E i \in Conns : \/ ServerRegisters(g, i) \/ ServerBeats(g, i)
                       \/ ServerCreateRoom(g, i) \/ ServerEnds(g, i)
  \/ \E k \in Codes : RoomStarts(g, k) \/ RoomFinishes(g, k)
                        \/ RoomEmpties(g, k) \/ RoomCloses(g, k)

Next ==
  \/ Update \/ Timeouts
  \/ \E c \in Clients : ClientStep(c)
  \/ \E g \in Servers : ServerStep(g)

Spec == Init /\ [][Next]_vars

\* The lobby and the clients run their loops for ever; what a client does in a frame
\* waits here for the stage between two updates.  The time limit of a pending room
\* is looked at again and again, so it is found to have passed.
ClientFrame(c) == ClientLost(c) \/ \E i \in Conns : ClientRead(c, i)
FairSpec ==
  /\ Spec
  /\ WF_vars(Update)
  /\ \A c \in Clients : SF_vars(ClientFrame(c))
  /\ \A k \in Codes : SF_vars(\E p \in PendingOf(k) : ExpirePending(p))

-----------------------------------------------------------------------------
(* Properties.                                                               *)

\* A ROOM_CREATED answers one request at most: no code is waited for twice, as a
\* private room, as a match or as both.  lby_handle_server_room_created looks the
\* matches up first and would give a room to the wrong clients.
CodesNameOneRequest ==
  /\ \A p, q \in lobby.pending : p.code = q.code => p = q
  /\ \A m, n \in lobby.matches : m.code = n.code => m = n
  /\ \A p \in lobby.pending, m \in lobby.matches : p.code # m.code

\* A client that waits for a room or a match, with nothing under way to or from it,
\* is in the tables: the client has no time limit of its own, so an answer must
\* come from the lobby.
WaitersAreTracked ==
  stage = "poll" /\ spent.server_drops = 0 /\ spent.cleanups = 0 =>
    \A c \in Clients, i \in Conns :
      Link(c, i) /\ inbox[i] = <<>> /\ mail[c] = <<>> =>
        /\ client[c].state = "CREATING_ROOM" => \E p \in lobby.pending : p.client = i
        /\ client[c].state = "QUEUED" =>
             \/ \E s \in Queued(lobby) : lobby.queue[s].conn_id = i
             \/ MatchesWith(lobby, i) # {}

\* The queue is shorter than a match: lby_handle_queue tries to form one after every
\* player, so a full queue refuses nobody.
QueueNeverFills == Cardinality(Queued(lobby)) < MatchSize

\* A game server whose connection is up is registered on that connection, also when
\* its old connection is cleaned up after it has registered on a new one.
LinkIsRegistered ==
  stage = "poll" =>
    \A g \in Servers, i \in Conns :
      Link(g, i) /\ user_data[i].type = "GAME_SERVER" =>
        g \in Registered(lobby) /\ lobby.servers[g].conn_id = i

\* A client that asked for a room is answered, however silent the game servers are,
\* as long as none of them loses its connection.
RequestsAreAnswered ==
  \A c \in Clients :
    client[c].state \in {"CREATING_ROOM", "JOINING_ROOM"}
      ~> \/ client[c].state \notin {"CREATING_ROOM", "JOINING_ROOM"}
         \/ spent.server_drops > 0

=============================================================================
