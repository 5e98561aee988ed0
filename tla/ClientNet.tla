------------------------------- MODULE ClientNet -------------------------------
(*****************************************************************************)
(* The game client's connection to hh-server (net/client_net.c,              *)
(* net/reconnect.c), the parts of the main loop and of the online menu that  *)
(* drive it (main.c, core/settings.c), and what the player is shown by it    *)
(* (module PlayerView).                                                      *)
(*                                                                           *)
(* The server is the environment, reduced to what one client sees of it      *)
(* (module ServerNet has the whole of it): its rooms, the seats this client  *)
(* has taken in them, and a game that runs through the states of Story.      *)
(*                                                                           *)
(* A frame of the client is client_net_update, then the menu, the player's   *)
(* commands, the pass confirmations and at most one view.  Each is an action *)
(* of its own; those of one frame that must come in this order are kept in   *)
(* order by their guards.  Messages that arrive together are handled as if   *)
(* each arrived before an update of its own.  Sends do not fail here, names  *)
(* resolve, and chat, pings, room status and ratings are left out.           *)
(*****************************************************************************)
EXTENDS PlayerView, FiniteSetsExt

CONSTANTS
  Story,          \* the states a game goes through, first deal to game over
  JoinSeats,      \* seats this client may be given
  Prompt,         \* seats whose pass is confirmed as soon as it is asked for
  Moves,          \* rearrangements of the hand: from, to
  Transmuted,     \* the card a transmutation turns any card into
  STATE_QUEUE_CAP, PASS_CONFIRM_QUEUE_MAX, RECONNECT_MAX_ATTEMPTS,
  RECONNECT_MAX_DELAY,              \* s
  NoGame,
  MaxRooms,       \* bound: rooms the lobby ever assigns
  MaxBreaks,      \* bound: connections that break
  MaxStarts       \* bound: times the player connects, reconnects or restarts

ASSUME SeatsAssumption == JoinSeats \subseteq PlayerSeats /\ Prompt \subseteq PlayerSeats
ASSUME StoryAssumption ==
  /\ Story \in Seq(Range(Story)) /\ Story # <<>>
  /\ \A g \in Range(Story) :
       /\ {"phase", "round", "lead", "trick", "table", "ready", "hand", "slots", "inv",
           "selections", "draft", "contracts", "effects", "pending", "duel", "phase2"}
             \subseteq DOMAIN g
       /\ \A i \in DOMAIN g.trick.plays :
            "player" \in DOMAIN g.trick.plays[i] /\ g.trick.plays[i].player \in PlayerSeats
       /\ \A p \in PlayerSeats : g.hand[p] \in Seq(Range(g.hand[p]))
       /\ \A p \in PlayerSeats : \A i \in DOMAIN g.contracts[p] :
            {"id", "revealed", "completed"} \subseteq DOMAIN g.contracts[p][i]
       /\ {"winner", "target", "index", "card"} \subseteq DOMAIN g.duel
       /\ {g.duel.target, g.pending} \subseteq PlayerSeats \cup {NobodySeat}
       /\ \A i \in DOMAIN g.effects :
            /\ {"source", "target"} \subseteq DOMAIN g.effects[i]
            /\ {g.effects[i].source, g.effects[i].target} \subseteq PlayerSeats \cup {NobodySeat}
       /\ g.phase2 => \A p \in PlayerSeats :
            g.slots[p] \in Seq(Range(g.slots[p])) /\ Len(g.slots[p]) = Len(g.hand[p])
ASSUME CapsAssumption ==
  {STATE_QUEUE_CAP, PASS_CONFIRM_QUEUE_MAX, RECONNECT_MAX_ATTEMPTS, RECONNECT_MAX_DELAY,
   MaxRooms} \subseteq Nat \ {0}

VARIABLES
  g_state, g_seat, g_room, g_session_token,
  g_view_queue, g_pass_confirm_queue,
  g_reconnect,    \* [active, attempt, timer]
  conn,           \* the socket: [st, up, down, closing], both queues in flight
  oui,            \* oui.subphase, as far as it concerns this connection
  saved,          \* the reconnect info in the settings file
  gs,             \* the client's copy of the game, or NoGame in the menus
  shown,          \* the view in it: <<room, version>>
  toss_started,   \* local players whose pass animation has started
  confirm_sent,   \* the player has confirmed the pass shown
  guess,          \* gs holds a transmutation the server has not confirmed
  rooms,          \* the server's rooms
  starts, breaks

clientVars == <<g_state, g_seat, g_room, g_session_token, g_view_queue,
                g_pass_confirm_queue, g_reconnect>>
shownVars == <<gs, shown, toss_started, confirm_sent, guess>>
vars == <<clientVars, conn, oui, saved, shownVars, rooms, starts, breaks>>

RoomIds == 1 .. MaxRooms
\* <<r, 0>>: what the lobby hands out for room r; <<r, n>>: of its n-th join.
NoToken == <<0, 0>>
NoConn == [st |-> "NONE", up |-> <<>>, down |-> <<>>, closing |-> FALSE]
NewConn == [NoConn EXCEPT !.st = "CONNECTING"]
NoReconnect == [active |-> FALSE, attempt |-> 0, timer |-> 0]
NoSaved == [valid |-> FALSE, room |-> 0, token |-> NoToken]
EmptySeat == [status |-> "EMPTY", token |-> NoToken, mine |-> FALSE]
NewRoom == [status |-> "WAITING", version |-> 0, joins |-> 0, confirmed |-> {},
            slots |-> [s \in JoinSeats |-> EmptySeat]]
\* What gs holds before the first view (game_state_reset_to_menu).
EmptyGame == [phase |-> "MENU", round |-> 0, lead |-> NobodySeat, hand |-> <<>>,
              table |-> <<>>, trick |-> [lead |-> NobodySeat, plays |-> <<>>],
              ready |-> <<>>, selections |-> <<>>, phase2 |-> FALSE, p2 |-> NoPhase2]

Init ==
  /\ g_state = "DISCONNECTED" /\ g_seat = NobodySeat /\ g_room = 0
  /\ g_session_token = NoToken
  /\ g_view_queue = <<>> /\ g_pass_confirm_queue = <<>>
  /\ g_reconnect = NoReconnect
  /\ conn = NoConn /\ oui = "MENU" /\ saved = NoSaved
  /\ gs = NoGame /\ shown = <<0, 0>> /\ toss_started = {}
  /\ confirm_sent = FALSE /\ guess = FALSE
  /\ rooms = [r \in RoomIds |-> NewRoom]
  /\ starts = 0 /\ breaks = 0

-----------------------------------------------------------------------------
(* net/client_net.c                                                          *)

\* The server's seats no longer bound to this client's connection.
Unbound == [r \in RoomIds |->
             [rooms[r] EXCEPT !.slots = [s \in JoinSeats |-> [@[s] EXCEPT !.mine = FALSE]]]]

CloseConn == conn' = NoConn /\ rooms' = Unbound

\* client_net_connect, with the token set before it.
Connect(room, token) ==
  /\ g_state' = "CONNECTING" /\ g_seat' = NobodySeat /\ g_room' = room
  /\ g_session_token' = token
  /\ g_view_queue' = <<>> /\ g_pass_confirm_queue' = <<>>
  /\ g_reconnect' = NoReconnect
  /\ conn' = NewConn /\ rooms' = Unbound

\* client_net_disconnect: without a connection only the retries are cancelled.
Disconnect ==
  /\ g_reconnect' = [g_reconnect EXCEPT !.active = FALSE]
  /\ IF conn.st = "NONE" \/ g_state = "DISCONNECTED"
     THEN UNCHANGED <<g_state, g_seat, conn, rooms>>
     ELSE g_state' = "DISCONNECTED" /\ g_seat' = NobodySeat /\ CloseConn
  /\ UNCHANGED <<g_room, g_session_token, g_view_queue, g_pass_confirm_queue>>

\* reconnect_update's delay before the attempt after attempt n.
Backoff(n) == Min({2 ^ (n - 1), RECONNECT_MAX_DELAY})

\* client_net_update finds the connection lost.
NoticeLoss ==
  /\ conn.st = "BROKEN" /\ g_state \in {"CONNECTING", "HANDSHAKING", "CONNECTED"}
  /\ conn' = NoConn /\ g_seat' = NobodySeat
  /\ IF g_state = "CONNECTED"
     THEN /\ g_state' = "RECONNECTING"
          /\ g_view_queue' = <<>>
          /\ g_reconnect' = [active |-> TRUE, attempt |-> 0, timer |-> 0]
     ELSE /\ g_state' = "ERROR"
          /\ UNCHANGED <<g_view_queue, g_reconnect>>
  /\ UNCHANGED <<g_room, g_session_token, g_pass_confirm_queue, oui, saved, shownVars,
                 rooms, starts, breaks>>

\* client_net_update while reconnecting without a connection; one such step is
\* the frames of one second.  A connect that fails at once leaves none.
ReconnectStep ==
  /\ g_state = "RECONNECTING" /\ conn.st \in {"NONE", "BROKEN"}
  /\ IF g_reconnect.attempt >= RECONNECT_MAX_ATTEMPTS
     THEN /\ g_state' = "DISCONNECTED"
          /\ g_reconnect' = [g_reconnect EXCEPT !.active = FALSE]
          /\ conn' = NoConn
     ELSE /\ g_reconnect.active
          /\ IF g_reconnect.timer > 1
             THEN g_reconnect' = [g_reconnect EXCEPT !.timer = @ - 1] /\ conn' = NoConn
             ELSE /\ g_reconnect' = [g_reconnect EXCEPT !.attempt = @ + 1,
                                                        !.timer = Backoff(g_reconnect.attempt + 1)]
                  /\ conn' \in {NewConn, NoConn}
          /\ UNCHANGED g_state
  /\ UNCHANGED <<g_seat, g_room, g_session_token, g_view_queue, g_pass_confirm_queue,
                 oui, saved, shownVars, rooms, starts, breaks>>

SendHandshake ==
  /\ g_state \in {"CONNECTING", "RECONNECTING"} /\ conn.st = "OPEN"
  /\ conn' = [conn EXCEPT !.up = Append(@, [room |-> g_room, token |-> g_session_token])]
  /\ g_state' = "HANDSHAKING"
  /\ UNCHANGED <<g_seat, g_room, g_session_token, g_view_queue, g_pass_confirm_queue,
                 g_reconnect, oui, saved, shownVars, rooms, starts, breaks>>

\* The next message of an open connection.
Receive(type) ==
  /\ g_state \in {"HANDSHAKING", "CONNECTED"}
  /\ conn.st = "OPEN" /\ conn.down # <<>> /\ Head(conn.down).type = type
  /\ UNCHANGED <<g_room, oui, saved, shownVars, starts, breaks>>
Received == conn' = [conn EXCEPT !.down = Tail(@)] /\ UNCHANGED rooms

\* A mutant: the client keeps the token it presented.
HandleAckWithoutToken ==
  /\ Receive("HANDSHAKE_ACK") /\ Received
  /\ g_state = "HANDSHAKING"
  /\ g_state' = "CONNECTED"
  /\ g_seat' = Head(conn.down).seat
  /\ g_reconnect' = [g_reconnect EXCEPT !.active = FALSE]
  /\ UNCHANGED <<g_session_token, g_view_queue, g_pass_confirm_queue>>

HandleAck ==
  /\ Receive("HANDSHAKE_ACK") /\ Received
  /\ g_state = "HANDSHAKING"
  /\ g_state' = "CONNECTED"
  /\ g_seat' = Head(conn.down).seat
  /\ g_session_token' = Head(conn.down).token
  /\ g_reconnect' = [g_reconnect EXCEPT !.active = FALSE]
  /\ UNCHANGED <<g_view_queue, g_pass_confirm_queue>>

\* A mutant: a rejected reconnection stays in its handshake.
HandleRejectInPlace ==
  /\ Receive("HANDSHAKE_REJECT") /\ CloseConn
  /\ g_state' = IF g_reconnect.active THEN g_state ELSE "ERROR"
  /\ UNCHANGED <<g_seat, g_session_token, g_view_queue, g_pass_confirm_queue, g_reconnect>>

HandleReject ==
  /\ Receive("HANDSHAKE_REJECT") /\ CloseConn
  /\ g_state' = IF g_reconnect.active THEN "RECONNECTING" ELSE "ERROR"
  /\ UNCHANGED <<g_seat, g_session_token, g_view_queue, g_pass_confirm_queue, g_reconnect>>

\* A mutant: the new view overwrites the oldest, and its turn.
EnqueueWithoutAdvancing(queue, view) ==
  IF Len(queue) >= STATE_QUEUE_CAP THEN [queue EXCEPT ![1] = view] ELSE Append(queue, view)

\* A full queue loses its oldest view.
Enqueue(queue, view) ==
  Append(IF Len(queue) >= STATE_QUEUE_CAP THEN Tail(queue) ELSE queue, view)

HandleStateUpdate ==
  /\ Receive("STATE_UPDATE") /\ Received
  /\ g_view_queue' = Enqueue(g_view_queue, Head(conn.down).update)
  /\ UNCHANGED <<g_state, g_seat, g_session_token, g_pass_confirm_queue, g_reconnect>>

HandlePassConfirmed ==
  /\ Receive("PASS_CONFIRMED") /\ Received
  /\ g_pass_confirm_queue' = IF Len(g_pass_confirm_queue) < PASS_CONFIRM_QUEUE_MAX
                             THEN Append(g_pass_confirm_queue, Head(conn.down).seat)
                             ELSE g_pass_confirm_queue
  /\ UNCHANGED <<g_state, g_seat, g_session_token, g_view_queue, g_reconnect>>

ClientNetUpdate ==
  \/ NoticeLoss \/ ReconnectStep \/ SendHandshake
  \/ HandleAck \/ HandleReject \/ HandleStateUpdate \/ HandlePassConfirmed

-----------------------------------------------------------------------------
(* main.c: the online menu, PHASE_ONLINE_MENU                                *)

\* The lobby has found a room: its code, and a token to present there.
JoinAssignedRoom(room) ==
  /\ gs = NoGame /\ oui \in {"MENU", "ERROR"} /\ starts < MaxStarts
  /\ \A r \in 1 .. room - 1 : rooms[r] # NewRoom
  /\ Connect(room, <<room, 0>>)
  /\ oui' = "CONNECTING" /\ starts' = starts + 1
  /\ UNCHANGED <<saved, shownVars, breaks>>

\* The "Reconnect" button.
ReconnectSaved ==
  /\ gs = NoGame /\ oui \in {"MENU", "ERROR"} /\ saved.valid /\ starts < MaxStarts
  /\ Connect(saved.room, saved.token)
  /\ oui' = "CONNECTING" /\ starts' = starts + 1
  /\ UNCHANGED <<saved, shownVars, breaks>>

Cancel ==
  /\ gs = NoGame /\ oui # "MENU"
  /\ IF g_state # "DISCONNECTED" THEN Disconnect ELSE UNCHANGED <<clientVars, conn, rooms>>
  /\ oui' = "MENU"
  /\ UNCHANGED <<saved, shownVars, starts, breaks>>

MenuSeesConnection ==
  /\ gs = NoGame /\ oui = "CONNECTING" /\ g_state = "CONNECTED"
  /\ oui' = "WAITING"
  /\ UNCHANGED <<clientVars, conn, saved, shownVars, rooms, starts, breaks>>

\* A failed connection also clears the reconnect info, whatever it was for.
MenuSeesError ==
  /\ gs = NoGame /\ oui \in {"CONNECTING", "WAITING"} /\ g_state = "ERROR"
  /\ oui' = "ERROR"
  /\ saved' = IF oui = "CONNECTING" THEN NoSaved ELSE saved
  /\ UNCHANGED <<clientVars, conn, shownVars, rooms, starts, breaks>>

\* The first view: the game starts, and the way back to it is written down.
MenuSeesGame ==
  /\ gs = NoGame /\ oui = "WAITING" /\ g_state = "CONNECTED" /\ g_view_queue # <<>>
  /\ saved' = [valid |-> TRUE, room |-> g_room, token |-> g_session_token]
  /\ oui' = "MENU"
  /\ UNCHANGED <<clientVars, conn, shownVars, rooms, starts, breaks>>

-----------------------------------------------------------------------------
(* main.c: the game on the screen                                            *)

\* The next view is applied, unless an animation holds it back.  A new round
\* forgets the pass confirmations (in the main menu, though, they are kept); the
\* end of the pass starts every toss left.
ShowView ==
  /\ g_state = "CONNECTED" /\ g_view_queue # <<>>
  /\ oui \notin {"CONNECTING", "WAITING"}
  /\ LET update == Head(g_view_queue)
         before == IF gs = NoGame THEN EmptyGame ELSE gs
         new_round == update.view.round # before.round
         passed == before.phase = "PASSING" /\ update.view.phase = "PLAYING"
     IN  \E forget \in IF gs = NoGame THEN BOOLEAN ELSE {new_round} :
           /\ gs' = StateRecvApply(before, update.view)
           /\ shown' = update.of
           /\ toss_started' = IF forget THEN {} ELSE IF passed THEN PlayerSeats ELSE toss_started
           /\ confirm_sent' = (confirm_sent /\ ~forget)
           /\ g_pass_confirm_queue' = IF forget THEN <<>> ELSE g_pass_confirm_queue
  /\ g_view_queue' = Tail(g_view_queue)
  /\ guess' = FALSE
  /\ UNCHANGED <<g_state, g_seat, g_room, g_session_token, g_reconnect, conn, oui, saved,
                 rooms, starts, breaks>>

Passing == gs # NoGame /\ gs.phase = "PASSING"

\* The cards of the player named by a pass confirmation are tossed.
ShowPassConfirmed ==
  /\ Passing /\ g_pass_confirm_queue # <<>>
  /\ LET confirmed_seat == Head(g_pass_confirm_queue)
     IN  /\ gs' = [gs EXCEPT !.ready[confirmed_seat] = TRUE]
         /\ toss_started' = toss_started \cup {confirmed_seat}
  /\ g_pass_confirm_queue' = Tail(g_pass_confirm_queue)
  /\ UNCHANGED <<g_state, g_seat, g_room, g_session_token, g_view_queue, g_reconnect,
                 conn, oui, saved, shown, confirm_sent, guess, rooms, starts, breaks>>

\* The player confirms the pass: the button is there until its cards are
\* tossed, and the toss does not wait for the server.
ConfirmPass ==
  /\ Passing /\ g_state = "CONNECTED" /\ 0 \notin toss_started
  /\ toss_started' = toss_started \cup {0} /\ confirm_sent' = TRUE
  /\ UNCHANGED <<clientVars, conn, oui, saved, gs, shown, guess, rooms, starts, breaks>>

ArrangeHand(from, to) ==
  /\ gs # NoGame /\ {from, to} \subseteq DOMAIN gs.hand
  /\ gs' = ReorderHand(gs, from, to)
  /\ UNCHANGED <<clientVars, conn, oui, saved, shown, toss_started, confirm_sent, guess, rooms,
                 starts, breaks>>

\* A transmutation is shown at once; the server may refuse it.
TransmuteAhead(i, id) ==
  /\ Passing /\ g_state = "CONNECTED" /\ gs.phase2 /\ ~guess
  /\ i \in DOMAIN gs.hand /\ id \in Range(gs.p2.inv) /\ gs.p2.slots[i].id = -1
  /\ gs' = TransmuteLocally(gs, i, id, Transmuted)
  /\ guess' = TRUE
  /\ UNCHANGED <<clientVars, conn, oui, saved, shown, toss_started, confirm_sent, rooms, starts,
                 breaks>>

LeaveScreen ==
  /\ gs' = NoGame /\ shown' = <<0, 0>>
  /\ toss_started' = {} /\ confirm_sent' = FALSE /\ guess' = FALSE

\* The player leaves the final screen: the way back is forgotten.
LeaveFinishedGame ==
  /\ gs # NoGame /\ gs.phase = "GAME_OVER"
  /\ IF g_state = "CONNECTED" THEN Disconnect ELSE UNCHANGED <<clientVars, conn, rooms>>
  /\ LeaveScreen
  /\ saved' = NoSaved
  /\ UNCHANGED <<oui, starts, breaks>>

\* "Return to menu" leaves the screen, not the game: the connection stays, and
\* the next view brings the game back.
ReturnToMenu ==
  /\ gs # NoGame
  /\ LeaveScreen
  /\ UNCHANGED <<clientVars, conn, oui, saved, rooms, starts, breaks>>

\* The program ends, in order or not, and starts again; the settings survive.
Restart ==
  /\ starts < MaxStarts /\ starts' = starts + 1
  /\ g_state' = "DISCONNECTED" /\ g_seat' = NobodySeat /\ g_session_token' = NoToken
  /\ g_view_queue' = <<>> /\ g_pass_confirm_queue' = <<>> /\ g_reconnect' = NoReconnect
  /\ CloseConn
  /\ LeaveScreen /\ oui' = "MENU"
  /\ UNCHANGED <<g_room, saved, breaks>>

Menu ==
  \/ \E r \in RoomIds : JoinAssignedRoom(r)
  \/ ReconnectSaved \/ Cancel \/ MenuSeesConnection \/ MenuSeesError \/ MenuSeesGame

Player ==
  \/ ConfirmPass \/ LeaveFinishedGame \/ ReturnToMenu \/ Restart
  \/ \E m \in Moves : ArrangeHand(m[1], m[2])
  \/ gs # NoGame /\ \E i \in DOMAIN gs.hand, id \in Range(gs.p2.inv) : TransmuteAhead(i, id)

-----------------------------------------------------------------------------
(* The network and the server (server/server_net.c, server/room.c).          *)

NetworkVars == <<clientVars, oui, saved, shownVars, starts>>

ConnectionOpens ==
  /\ conn.st = "CONNECTING" /\ conn' = [conn EXCEPT !.st = "OPEN"]
  /\ UNCHANGED <<NetworkVars, rooms, breaks>>

\* The connection is refused or breaks: what was under way is lost.
ConnectionBreaks ==
  /\ conn.st \in {"CONNECTING", "OPEN"} /\ breaks < MaxBreaks
  /\ breaks' = breaks + 1
  /\ conn' = [NoConn EXCEPT !.st = "BROKEN"] /\ rooms' = Unbound
  /\ UNCHANGED NetworkVars

\* The server has closed its end: an update that finds it so drops what it read.
ServerCloses ==
  /\ conn.st = "OPEN" /\ conn.closing
  /\ conn' = [NoConn EXCEPT !.st = "BROKEN"] /\ rooms' = Unbound
  /\ UNCHANGED <<NetworkVars, breaks>>

Bound(r) == {s \in JoinSeats : rooms[r].slots[s].mine}
StateUpdate(r, seat, version) ==
  [type |-> "STATE_UPDATE",
   update |-> [of |-> <<r, version>>,
               view |-> BuildPlayerView([Story[version] EXCEPT !.ready =
                          [p \in PlayerSeats |-> p \in rooms[r].confirmed]], seat)]]
Send(messages) == conn' = [conn EXCEPT !.down = @ \o messages]

\* sv_handle_handshake's answers.
Reject == conn' = [conn EXCEPT !.up = Tail(@), !.closing = TRUE,
                               !.down = Append(@, [type |-> "HANDSHAKE_REJECT"])]
Welcome(r, s, token, messages) ==
  /\ conn' = [conn EXCEPT !.up = Tail(@),
                          !.down = @ \o <<[type |-> "HANDSHAKE_ACK", seat |-> s,
                                           token |-> token]>> \o messages]
  /\ rooms' = [rooms EXCEPT ![r].slots[s] = [status |-> "CONNECTED", token |-> token,
                                             mine |-> TRUE],
                            ![r].joins = IF token = rooms[r].slots[s].token THEN @ ELSE token[2]]

\* room_join: the first empty seat, and a new session token for it.
RoomJoin(r) ==
  LET empty == {s \in JoinSeats : rooms[r].slots[s].status = "EMPTY"}
  IN  IF empty = {} THEN Reject /\ UNCHANGED rooms
      ELSE Welcome(r, Min(empty), <<r, rooms[r].joins + 1>>, <<>>)

\* room_reconnect: the seat of the token, if its player is known to be away.
RoomReconnect(r, token) ==
  LET matching == {s \in JoinSeats : /\ rooms[r].slots[s].status = "AWAY"
                                     /\ rooms[r].slots[s].token = token}
  IN  IF matching = {} THEN Reject /\ UNCHANGED rooms
      ELSE Welcome(r, Min(matching), token,
                   <<StateUpdate(r, Min(matching), rooms[r].version)>>)

HandshakeArrives ==
  /\ conn.st = "OPEN" /\ conn.up # <<>>
  /\ LET handshake == Head(conn.up)
     IN  CASE rooms[handshake.room].status = "WAITING" -> RoomJoin(handshake.room)
           [] rooms[handshake.room].status = "PLAYING" ->
                RoomReconnect(handshake.room, handshake.token)
           [] rooms[handshake.room].status = "GONE" -> Reject /\ UNCHANGED rooms
  /\ UNCHANGED <<NetworkVars, breaks>>

\* The fourth player is there: the others' seats are none of this client's.
GameStarts(r) ==
  /\ rooms[r].status = "WAITING" /\ rooms[r].joins > 0
  /\ rooms' = [rooms EXCEPT ![r].status = "PLAYING", ![r].version = 1,
                 ![r].confirmed = Prompt,
                 ![r].slots = [s \in JoinSeats |->
                                 IF @[s].status = "EMPTY" THEN [@[s] EXCEPT !.status = "OTHER"]
                                 ELSE @[s]]]
  /\ Send([i \in 1 .. Cardinality(Bound(r)) |-> StateUpdate(r, Max(Bound(r)), 1)])
  /\ UNCHANGED <<NetworkVars, breaks>>

\* A pass is confirmed: the player's own CONFIRM, another player's, the time.
PassConfirmed(r, s) ==
  /\ rooms[r].status = "PLAYING" /\ s \notin rooms[r].confirmed
  /\ Story[rooms[r].version].phase = "PASSING"
  /\ rooms' = [rooms EXCEPT ![r].confirmed = @ \cup {s}]
  /\ Send([i \in 1 .. Cardinality(Bound(r)) |-> [type |-> "PASS_CONFIRMED", seat |-> s]])
  /\ UNCHANGED <<NetworkVars, breaks>>

GameMovesOn(r) ==
  /\ rooms[r].status = "PLAYING" /\ rooms[r].version < Len(Story)
  /\ LET v == rooms[r].version
         passed == Story[v].phase = "PASSING" /\ Story[v + 1].phase # "PASSING"
         again == Story[v].phase # "PASSING" /\ Story[v + 1].phase = "PASSING"
     IN  /\ passed => rooms[r].confirmed = PlayerSeats
         /\ rooms' = [rooms EXCEPT ![r].version = v + 1,
                                   ![r].confirmed = IF again THEN Prompt ELSE @]
         /\ Send([i \in 1 .. Cardinality(Bound(r)) |-> StateUpdate(r, Max(Bound(r)), v + 1)])
  /\ UNCHANGED <<NetworkVars, breaks>>

\* The room is closed after its game, or when everybody has left it.
RoomCloses(r) ==
  /\ rooms[r].status # "GONE" /\ rooms[r].joins > 0
  /\ rooms[r].version = Len(Story) \/ Bound(r) = {}
  /\ rooms' = [rooms EXCEPT ![r] = [NewRoom EXCEPT !.status = "GONE"]]
  /\ conn' = [conn EXCEPT !.closing = @ \/ Bound(r) # {}]
  /\ UNCHANGED <<NetworkVars, breaks>>

\* sv_cleanup_connection: the server finds a connection closed, however late.
ServerNoticesDrop(r, s) ==
  /\ rooms[r].slots[s].status = "CONNECTED" /\ ~rooms[r].slots[s].mine
  /\ rooms' = [rooms EXCEPT ![r].slots[s] =
                 IF rooms[r].status = "WAITING" THEN EmptySeat ELSE [@ EXCEPT !.status = "AWAY"]]
  /\ UNCHANGED <<NetworkVars, conn, breaks>>

Environment ==
  \/ ConnectionOpens \/ ConnectionBreaks \/ ServerCloses \/ HandshakeArrives
  \/ \E r \in RoomIds :
       \/ GameStarts(r) \/ GameMovesOn(r) \/ RoomCloses(r)
       \/ \E s \in PlayerSeats : PassConfirmed(r, s)
       \/ \E s \in JoinSeats : ServerNoticesDrop(r, s)

Next == ClientNetUpdate \/ Menu \/ ShowView \/ ShowPassConfirmed \/ Player \/ Environment
Spec == Init /\ [][Next]_vars

\* The program runs frame after frame, and so does the server; TCP answers.
FairSpec ==
  /\ Spec /\ WF_vars(ClientNetUpdate)
  /\ WF_vars(ConnectionOpens) /\ WF_vars(ServerCloses) /\ WF_vars(HandshakeArrives)

-----------------------------------------------------------------------------
(* Safety.                                                                   *)

\* Views are shown in the order the server made them, and a queue that
\* overflows loses none but its oldest: what waits is in order, of the room the
\* client is in, and none of it older than what is shown.
ViewsAreInOrder ==
  /\ \A i \in 1 .. Len(g_view_queue) - 1 :
       g_view_queue[i].of[2] <= g_view_queue[i + 1].of[2]
  /\ \A i \in DOMAIN g_view_queue :
       /\ g_view_queue[i].of[1] = g_room
       /\ shown[1] = g_room => shown[2] <= g_view_queue[i].of[2]

\* Local player p is the player at server seat (p + my_seat) % 4 in everything
\* that is shown, "my_seat" being the one of the handshake that the client's
\* commands are written for: a click on an opponent reaches that opponent. And
\* however the player has arranged the hand, each card shown has the transmutation
\* slot the server holds for it, the client's own guesses apart.
Connected == g_state = "CONNECTED" /\ gs # NoGame
SeenFromTheSeat ==
  Connected =>
    LET g == Story[shown[2]]
        At(p) == IF p < 0 THEN p ELSE ServerSeat(p, g_seat)
        slots == [i \in DOMAIN g.slots[At(0)] |-> ApplyTransmuteSlot(g.slots[At(0)][i], At(0))]
    IN  /\ \A p \in PlayerSeats : gs.table[p] = g.table[At(p)]
        /\ \A i \in DOMAIN g.trick.plays : At(gs.trick.plays[i].player) = g.trick.plays[i].player
        /\ g.phase2 =>
             /\ At(gs.p2.duel.target) = g.duel.target /\ At(gs.p2.pending) = g.pending
             /\ \A p \in PlayerSeats : \A i \in DOMAIN gs.p2.effects[p] :
                  \E e \in Range(g.effects) :
                    e.source = At(p) /\ e.target = At(gs.p2.effects[p][i].target)
             /\ ~guess => PairCounts(gs.hand, gs.p2.slots) = PairCounts(g.hand[At(0)], slots)

\* A view shows its player nothing of what is the others' own: it is the same
\* whatever they hold, have picked, or have not revealed.
OthersStayHidden ==
  \A r \in RoomIds : rooms[r].version > 0 =>
    \A s \in PlayerSeats :
      LET g == Story[rooms[r].version]
      IN  BuildPlayerView(g, s) = BuildPlayerView(PublicPart(g, s), s)

\* As long as a game runs, the token the client holds for it, and the one in
\* its settings, open the seat it had.
Opens(room, token) ==
  rooms[room].status = "PLAYING" =>
    \E s \in JoinSeats : /\ rooms[room].slots[s].token = token
                         /\ rooms[room].slots[s].status \in {"CONNECTED", "AWAY"}
TokenOpensTheSeat ==
  /\ gs # NoGame => Opens(g_room, g_session_token)
  /\ saved.valid => Opens(saved.room, saved.token)

-----------------------------------------------------------------------------
(* Actions.                                                                  *)

\* A view leaves the cards that stay in the hand in the order the player has
\* put them.
PlaceIn(hand, card) == Min({i \in DOMAIN hand : hand[i] = card})
ArrangementIsKept ==
  [][(gs # NoGame /\ gs' # NoGame /\ shown' # shown) =>
       \A c, d \in Range(gs.hand) \cap Range(gs'.hand) :
         PlaceIn(gs.hand, c) < PlaceIn(gs.hand, d) => PlaceIn(gs'.hand, c) < PlaceIn(gs'.hand, d)]_vars

-----------------------------------------------------------------------------
(* Liveness.                                                                 *)

\* A reconnection ends: the client is back, or gives up, or its player does.
ReconnectionEnds ==
  (g_state = "RECONNECTING" /\ g_reconnect.active)
    ~> (g_state \in {"CONNECTED", "DISCONNECTED", "ERROR"} \/ ~g_reconnect.active)
===============================================================================
