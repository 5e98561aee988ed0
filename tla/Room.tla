---------------------------------- MODULE Room ----------------------------------
(*****************************************************************************)
(* The room table of hh-server (server/room.c): what each operation of the   *)
(* room manager does to one entry of g_rooms[].  There are no variables here *)
(* - ServerNet owns the table and decides when an operation runs - so each   *)
(* operation is an operator from a room to a room, or a predicate on a room. *)
(*                                                                           *)
(* Abstractions: names, chat and lobby identifiers are left out; a duration  *)
(* is counted in ticks of room_tick_all (GraceTicks for                      *)
(* DISCONNECT_GRACE_SEC); the game a room plays is represented by the part   *)
(* of it that room.c writes, is_human of the four players.                   *)
(*****************************************************************************)
EXTENDS Integers, FiniteSets

CONSTANTS
  NumSeats,     \* NET_MAX_PLAYERS
  Conns,        \* indices of NetSocket.conns[], 0..max_conns-1
  Codes,        \* room codes
  Clients,      \* the players' programs; a client is its own lobby token
  NoToken,      \* the all-zero token
  NoCode,       \* the empty code
  GraceTicks    \* DISCONNECT_GRACE_SEC / FIXED_DT

ASSUME NumSeatsAssumption == NumSeats \in Nat \ {0}
ASSUME ConnsAssumption == Conns \subseteq Nat
ASSUME GraceAssumption == GraceTicks \in Nat \ {0}

\* A lobby token, or the n-th session token the server drew.
Tokens == Clients \cup Nat

ASSUME NullAssumption == NoToken \notin Tokens /\ NoCode \notin Codes
\* Both kinds are 32 random bytes: a lobby token is never drawn as a session token.
ASSUME TokensAssumption == Clients \cap Nat = {}

Seats == 0 .. NumSeats - 1
NoConn == -1

SlotStatus == {"EMPTY", "CONNECTED", "DISCONNECTED", "AI"}
RoomStatus == {"INACTIVE", "WAITING", "PLAYING", "FINISHED"}

\* PlayerSlot: auth_token is the session token the server drew for the player,
\* lobby_token the one the player was given by the lobby.
PlayerSlot == [status           : SlotStatus,
               conn_id          : Conns \cup {NoConn},
               auth_token       : Tokens \cup {NoToken},
               lobby_token      : Tokens \cup {NoToken},
               disconnect_timer : -1 .. GraceTicks - 1]

RoomRecord == [status          : RoomStatus,
               code            : Codes \cup {NoCode},
               slots           : [Seats -> PlayerSlot],
               connected_count : Int,
               is_human        : [Seats -> BOOLEAN],
               changed         : BOOLEAN,
               elo_received    : BOOLEAN,
               elo_wait_timer  : Nat]

\* The timer of a seat that is not DISCONNECTED is never read: it is -1 here.
EmptySlot == [status |-> "EMPTY", conn_id |-> NoConn, auth_token |-> NoToken,
              lobby_token |-> NoToken, disconnect_timer |-> -1]

\* An entry after room_destroy, and after room_create / room_create_with_code.
\* "changed" stands for force_broadcast, state_dirty and the comparison with
\* last_broadcast that sv_broadcast_state makes.
NewRoom(status, code) ==
  [status |-> status, code |-> code, slots |-> [s \in Seats |-> EmptySlot],
   connected_count |-> 0, is_human |-> [s \in Seats |-> FALSE],
   changed |-> FALSE, elo_received |-> FALSE, elo_wait_timer |-> 0]

InactiveRoom == NewRoom("INACTIVE", NoCode)
WaitingRoom(code) == NewRoom("WAITING", code)

SeatsWith(room, status) == {s \in Seats : room.slots[s].status = status}
IsFirst(s, S) == s \in S /\ \A t \in S : s <= t
IsLast(s, S) == s \in S /\ \A t \in S : t <= s

-----------------------------------------------------------------------------
\* room_join: seat s is the first empty one.
CanJoin(room, s) ==
  room.status = "WAITING" /\ IsFirst(s, SeatsWith(room, "EMPTY"))

RoomJoin(room, s, conn, lobbyToken, session) ==
  [room EXCEPT !.slots[s] = [status |-> "CONNECTED", conn_id |-> conn,
                             auth_token |-> session, lobby_token |-> lobbyToken,
                             disconnect_timer |-> -1],
               !.connected_count = @ + 1]

\* room_leave: only a CONNECTED seat leaves.  A waiting room frees the seat and
\* is destroyed with its last player; a game keeps the seat for the grace period.
VacatedSlot(slot, status) ==
  IF status = "WAITING"
  THEN [slot EXCEPT !.status = "EMPTY", !.conn_id = NoConn, !.auth_token = NoToken]
  ELSE [slot EXCEPT !.status = "DISCONNECTED", !.conn_id = NoConn,
                    !.disconnect_timer = IF status = "PLAYING" THEN 0 ELSE -1]

RoomLeave(room, s) ==
  IF room.status = "INACTIVE" \/ room.slots[s].status # "CONNECTED"
  THEN room
  ELSE IF room.status = "WAITING" /\ room.connected_count = 1
  THEN InactiveRoom
  ELSE [room EXCEPT !.slots[s] = VacatedSlot(@, room.status),
                    !.connected_count = @ - 1]

\* room_add_ai and room_remove_ai: first empty seat, last bot.
CanAddAI(room, s) ==
  room.status = "WAITING" /\ IsFirst(s, SeatsWith(room, "EMPTY"))

RoomAddAI(room, s) ==
  [room EXCEPT !.slots[s] = [EmptySlot EXCEPT !.status = "AI"]]

CanRemoveAI(room, s) ==
  room.status = "WAITING" /\ IsLast(s, SeatsWith(room, "AI"))

RoomRemoveAI(room, s) == [room EXCEPT !.slots[s] = EmptySlot]

\* Slip: a room with an empty seat can be started.
CanStartShort(room) == room.status = "WAITING"

\* room_start: every seat is taken; is_human follows the connected seats.  The
\* first broadcast of the game is due at once, its phase is new.
CanStart(room) ==
  room.status = "WAITING" /\ SeatsWith(room, "EMPTY") = {}

RoomStart(room) ==
  [room EXCEPT !.status = "PLAYING", !.changed = TRUE,
               !.is_human = [s \in Seats |-> room.slots[s].status = "CONNECTED"]]

\* room_update_timers: every DISCONNECTED seat counts one more tick and is taken
\* over by the AI when the grace period is over.
GraceOver(slot) ==
  slot.status = "DISCONNECTED" /\ slot.disconnect_timer + 1 >= GraceTicks

\* Slip: the timer of a DISCONNECTED seat does not advance.
TickedSlotStuck(slot) ==
  IF GraceOver(slot) THEN [slot EXCEPT !.status = "AI", !.disconnect_timer = -1] ELSE slot

TickedSlot(slot) ==
  IF GraceOver(slot) THEN [slot EXCEPT !.status = "AI", !.disconnect_timer = -1]
  ELSE IF slot.status = "DISCONNECTED" THEN [slot EXCEPT !.disconnect_timer = @ + 1]
  ELSE slot

UpdateTimers(room) ==
  [room EXCEPT !.slots = [s \in Seats |-> TickedSlot(room.slots[s])],
               !.is_human = [s \in Seats |-> room.is_human[s] /\ ~GraceOver(room.slots[s])]]

\* Slips: one half of the condition on which room_tick destroys a game is missing.
AbandonedBySome(room) == SeatsWith(room, "DISCONNECTED") = {}
AbandonedTooSoon(room) == room.connected_count = 0

Abandoned(room) ==
  room.connected_count = 0 /\ SeatsWith(room, "DISCONNECTED") = {}

\* Slip: any token opens the seat.
CanReconnectAnyToken(room, s, token) ==
  /\ room.status = "PLAYING"
  /\ IsFirst(s, {t \in Seats : room.slots[t].status \in {"DISCONNECTED", "AI"}})

\* room_reconnect: the first DISCONNECTED or AI seat that holds this token.
CanReconnect(room, s, token) ==
  /\ room.status = "PLAYING"
  /\ IsFirst(s, {t \in Seats : /\ room.slots[t].status \in {"DISCONNECTED", "AI"}
                               /\ room.slots[t].auth_token = token})

\* Slips: the seat is a player's again, but not counted, or still played by the AI.
RoomReconnectUncounted(room, s, conn) ==
  [room EXCEPT !.slots[s] = [@ EXCEPT !.status = "CONNECTED", !.conn_id = conn,
                                      !.disconnect_timer = -1],
               !.is_human[s] = TRUE, !.changed = TRUE]
RoomReconnectByAI(room, s, conn) ==
  [room EXCEPT !.slots[s] = [@ EXCEPT !.status = "CONNECTED", !.conn_id = conn,
                                      !.disconnect_timer = -1],
               !.connected_count = @ + 1, !.changed = TRUE]

RoomReconnect(room, s, conn) ==
  [room EXCEPT !.slots[s] = [@ EXCEPT !.status = "CONNECTED", !.conn_id = conn,
                                      !.disconnect_timer = -1],
               !.is_human[s] = TRUE,
               !.connected_count = @ + 1,
               !.changed = TRUE]

-----------------------------------------------------------------------------
(* What a room is expected to satisfy whatever was done to it.               *)

CountExact(room) ==
  room.connected_count = Cardinality(SeatsWith(room, "CONNECTED"))

\* Connection i is the one that plays seat s.
Serves(room, s, i) ==
  /\ room.status # "INACTIVE"
  /\ room.slots[s].status = "CONNECTED"
  /\ room.slots[s].conn_id = i

FitsThePhase(room) ==
  /\ room.status = "WAITING" => SeatsWith(room, "DISCONNECTED") = {}
  /\ room.status = "PLAYING" =>
       \A s \in Seats : /\ room.slots[s].status # "EMPTY"
                        /\ room.is_human[s] <=> room.slots[s].status # "AI"

=============================================================================
