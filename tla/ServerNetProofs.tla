---------------------------- MODULE ServerNetProofs ----------------------------
(*****************************************************************************)
(* What holds of ServerNet for any number of seats, connections, rooms and   *)
(* clients: its types, and the agreement of the three tables - connections,  *)
(* ConnSlotInfos and rooms - in every stage.                                 *)
(*                                                                           *)
(* The inductive invariant has four parts, one for each table and one for    *)
(* the rest of the state, so that the proof of an action deals with each     *)
(* part through one lemma.                                                   *)
(*****************************************************************************)
EXTENDS ServerNet, FiniteSetTheorems, TLAPS

-----------------------------------------------------------------------------
(* The operations of Room: each takes a room to a room, keeps                *)
(* connected_count exact and the seats as the room's phase wants them; what  *)
(* it does to the states of the seats, and to their tokens.                  *)

\* What is assumed of a room an operation is applied to, and holds of its result.
HasCode(room) == room.status # "INACTIVE" => room.code \in Codes
GoodRoom(room) ==
  room \in RoomRecord /\ CountExact(room) /\ FitsThePhase(room) /\ HasCode(room)

\* The seats of a room with one status are finitely many.
LEMMA SeatsFinite ==
  ASSUME NEW room, NEW status
  PROVE  /\ IsFiniteSet(SeatsWith(room, status))
         /\ Cardinality(SeatsWith(room, status)) \in Nat
         /\ Cardinality(SeatsWith(room, status)) = 0 <=> SeatsWith(room, status) = {}
<1>1. IsFiniteSet(Seats)
  BY NumSeatsAssumption, FS_Interval DEF Seats
<1>2. SeatsWith(room, status) \subseteq Seats
  BY DEF SeatsWith
<1>3. IsFiniteSet(SeatsWith(room, status))
  BY <1>1, <1>2, FS_Subset
<1> QED
  BY <1>3, FS_CardinalityType, FS_EmptySet

\* A room just opened, or an entry just destroyed.
LEMMA NewRoomGood ==
  ASSUME NEW status \in {"INACTIVE", "WAITING"}, NEW code \in Codes \cup {NoCode},
         status = "INACTIVE" \/ code \in Codes
  PROVE  GoodRoom(NewRoom(status, code))
<1> DEFINE room == NewRoom(status, code)
<1>1. room \in RoomRecord
  BY GraceAssumption DEF NewRoom, RoomRecord, RoomStatus, PlayerSlot, SlotStatus, EmptySlot
<1>2. SeatsWith(room, "CONNECTED") = {} /\ SeatsWith(room, "DISCONNECTED") = {}
  BY DEF NewRoom, SeatsWith, EmptySlot
<1>3. CountExact(room)
  BY <1>2, FS_EmptySet DEF CountExact, NewRoom
<1>4. FitsThePhase(room)
  BY <1>2 DEF FitsThePhase, NewRoom
<1>5. HasCode(room)
  BY DEF HasCode, NewRoom
<1> QED
  BY <1>1, <1>3, <1>4, <1>5 DEF GoodRoom

\* One more CONNECTED seat, or one less, changes the count by one.
LEMMA OneMoreConnected ==
  ASSUME NEW room, NEW other, NEW s \in Seats,
         s \notin SeatsWith(room, "CONNECTED"),
         SeatsWith(other, "CONNECTED") = SeatsWith(room, "CONNECTED") \cup {s}
  PROVE  Cardinality(SeatsWith(other, "CONNECTED"))
           = Cardinality(SeatsWith(room, "CONNECTED")) + 1
BY SeatsFinite, FS_AddElement

LEMMA OneLessConnected ==
  ASSUME NEW room, NEW other, NEW s \in SeatsWith(room, "CONNECTED"),
         SeatsWith(other, "CONNECTED") = SeatsWith(room, "CONNECTED") \ {s}
  PROVE  Cardinality(SeatsWith(other, "CONNECTED"))
           = Cardinality(SeatsWith(room, "CONNECTED")) - 1
BY SeatsFinite, FS_RemoveElement

\* A room keeps its type when a seat is rewritten and the players are counted again.
LEMMA SeatWritten ==
  ASSUME NEW room \in RoomRecord, NEW s \in Seats, NEW slot \in PlayerSlot, NEW n \in Int
  PROVE  [room EXCEPT !.slots[s] = slot, !.connected_count = n] \in RoomRecord
<1>1. [room.slots EXCEPT ![s] = slot] \in [Seats -> PlayerSlot]
  BY DEF RoomRecord
<1> QED
  BY <1>1 DEF RoomRecord

LEMMA RoomJoinGood ==
  ASSUME NEW room, GoodRoom(room), NEW s \in Seats, CanJoin(room, s),
         NEW conn \in Conns, NEW lobbyToken \in Tokens \cup {NoToken}, NEW session \in Tokens
  PROVE  LET joined == RoomJoin(room, s, conn, lobbyToken, session)
         IN  /\ GoodRoom(joined)
             /\ joined.code = room.code /\ Serves(joined, s, conn)
             /\ \A t \in Seats, i \in Conns : Serves(room, t, i) => Serves(joined, t, i)
<1> DEFINE joined == RoomJoin(room, s, conn, lobbyToken, session)
<1>1. room \in RoomRecord /\ room.status = "WAITING" /\ room.slots[s].status = "EMPTY"
  BY DEF GoodRoom, CanJoin, IsFirst, SeatsWith
<1> DEFINE slot == [status |-> "CONNECTED", conn_id |-> conn, auth_token |-> session,
                    lobby_token |-> lobbyToken, disconnect_timer |-> -1]
<1>a. slot \in PlayerSlot
  BY GraceAssumption DEF PlayerSlot, SlotStatus
<1>b. room.connected_count + 1 \in Int
  BY <1>1 DEF RoomRecord
<1>2. joined \in RoomRecord
  BY <1>1, <1>a, <1>b, SeatWritten DEF RoomJoin
<1>3. /\ joined.status = "WAITING"
      /\ joined.connected_count = room.connected_count + 1
      /\ \A t \in Seats : joined.slots[t].status =
                            IF t = s THEN "CONNECTED" ELSE room.slots[t].status
  BY <1>1 DEF RoomJoin, RoomRecord
<1>4. SeatsWith(joined, "CONNECTED") = SeatsWith(room, "CONNECTED") \cup {s}
  BY <1>3 DEF SeatsWith
<1>5. CountExact(joined)
  <2>1. s \notin SeatsWith(room, "CONNECTED")
    BY <1>1 DEF SeatsWith
  <2>2. Cardinality(SeatsWith(joined, "CONNECTED"))
          = Cardinality(SeatsWith(room, "CONNECTED")) + 1
    BY <1>4, <2>1, OneMoreConnected
  <2> QED
    BY <1>3, <2>2 DEF GoodRoom, CountExact
<1>6. FitsThePhase(joined)
  BY <1>1, <1>3 DEF GoodRoom, FitsThePhase, SeatsWith
<1>7. /\ joined.code = room.code /\ Serves(joined, s, conn)
      /\ \A t \in Seats, i \in Conns : Serves(room, t, i) => Serves(joined, t, i)
  BY <1>1 DEF RoomJoin, RoomRecord, Serves
<1> QED
  BY <1>1, <1>2, <1>3, <1>5, <1>6, <1>7 DEF GoodRoom, HasCode

\* What is left of a seat is a seat, free in a waiting room and kept in a game.
LEMMA VacatedSlotGood ==
  ASSUME NEW slot \in PlayerSlot, NEW status
  PROVE  /\ VacatedSlot(slot, status) \in PlayerSlot
         /\ VacatedSlot(slot, status).status =
              IF status = "WAITING" THEN "EMPTY" ELSE "DISCONNECTED"
<1>1. CASE status = "WAITING"
  BY <1>1 DEF VacatedSlot, PlayerSlot, SlotStatus
<1>2. CASE status # "WAITING"
  <2> DEFINE timer == IF status = "PLAYING" THEN 0 ELSE -1
  <2>1. timer \in -1 .. GraceTicks - 1
    BY GraceAssumption
  <2>2. VacatedSlot(slot, status) = [slot EXCEPT !.status = "DISCONNECTED", !.conn_id = NoConn,
                                                 !.disconnect_timer = timer]
    BY <1>2 DEF VacatedSlot
  <2> HIDE DEF timer
  <2> QED
    BY <1>2, <2>1, <2>2 DEF PlayerSlot, SlotStatus
<1> QED
  BY <1>1, <1>2

\* A seat that is left is nobody's, the others keep theirs: a waiting room is
\* destroyed with its last player only, because the count is exact.
LEMMA RoomLeaveGood ==
  ASSUME NEW room, GoodRoom(room), NEW s \in Seats
  PROVE  LET left == RoomLeave(room, s)
         IN  /\ GoodRoom(left)
             /\ \A t \in Seats, i \in Conns :
                  Serves(room, t, i) /\ t # s => Serves(left, t, i)
<1> DEFINE left == RoomLeave(room, s)
<1>1. CASE room.status = "INACTIVE" \/ room.slots[s].status # "CONNECTED"
  BY <1>1 DEF RoomLeave
<1>2. CASE /\ ~(room.status = "INACTIVE" \/ room.slots[s].status # "CONNECTED")
           /\ room.status = "WAITING" /\ room.connected_count = 1
  <2>1. left = InactiveRoom
    BY <1>2 DEF RoomLeave
  <2>2. GoodRoom(left)
    BY <2>1, NewRoomGood DEF InactiveRoom
  <2>3. ASSUME NEW t \in Seats, NEW i \in Conns, Serves(room, t, i), t # s
        PROVE  FALSE
    <3>1. {s, t} \subseteq SeatsWith(room, "CONNECTED")
      BY <1>2, <2>3 DEF SeatsWith, Serves
    <3>2. Cardinality({s, t}) <= Cardinality(SeatsWith(room, "CONNECTED"))
      BY <3>1, SeatsFinite, FS_Subset
    <3>3. Cardinality({s, t}) = 2
      <4>1. IsFiniteSet({s}) /\ Cardinality({s}) = 1 /\ t \notin {s}
        BY <2>3, FS_Singleton
      <4>2. {s, t} = {s} \cup {t}
        OBVIOUS
      <4> QED
        BY <4>1, <4>2, FS_AddElement
    <3> QED
      BY <1>2, <3>2, <3>3 DEF GoodRoom, CountExact
  <2> QED
    BY <2>2, <2>3
<1>3. CASE /\ ~(room.status = "INACTIVE" \/ room.slots[s].status # "CONNECTED")
           /\ ~(room.status = "WAITING" /\ room.connected_count = 1)
  <2> DEFINE slot == VacatedSlot(room.slots[s], room.status)
  <2>1. left = [room EXCEPT !.slots[s] = slot, !.connected_count = room.connected_count - 1]
    BY <1>3 DEF RoomLeave
  <2>2. room \in RoomRecord /\ room.slots[s] \in PlayerSlot /\ room.connected_count - 1 \in Int
    BY DEF GoodRoom, RoomRecord
  <2>3. slot \in PlayerSlot /\ slot.status # "CONNECTED"
        /\ slot.status = IF room.status = "WAITING" THEN "EMPTY" ELSE "DISCONNECTED"
    BY <2>2, VacatedSlotGood
  <2> HIDE DEF slot
  <2>4. left \in RoomRecord
    <3>1. [room EXCEPT !.slots[s] = slot, !.connected_count = room.connected_count - 1]
            \in RoomRecord
      BY <2>2, <2>3, SeatWritten
    <3> QED
      BY <2>1, <3>1
  <2>5. /\ left.status = room.status /\ left.is_human = room.is_human /\ left.code = room.code
        /\ left.connected_count = room.connected_count - 1
        /\ \A t \in Seats : left.slots[t] = IF t = s THEN slot ELSE room.slots[t]
    BY <2>1, <2>2 DEF RoomRecord
  <2> HIDE DEF left
  <2>6. /\ s \in SeatsWith(room, "CONNECTED")
        /\ SeatsWith(left, "CONNECTED") = SeatsWith(room, "CONNECTED") \ {s}
    BY <1>3, <2>3, <2>5 DEF SeatsWith
  <2>7. CountExact(left)
    BY <2>5, <2>6, OneLessConnected DEF GoodRoom, CountExact
  <2>8. FitsThePhase(left)
    BY <1>3, <2>3, <2>5 DEF GoodRoom, FitsThePhase, SeatsWith
  <2>9. \A t \in Seats, i \in Conns : Serves(room, t, i) /\ t # s => Serves(left, t, i)
    BY <2>5 DEF Serves
  <2> QED
    BY <2>4, <2>5, <2>7, <2>8, <2>9 DEF GoodRoom, HasCode, left
<1> QED
  BY <1>1, <1>2, <1>3

\* Bots come and go without the count.
LEMMA BotsGood ==
  ASSUME NEW room, GoodRoom(room), NEW s \in Seats, NEW other,
         \/ CanAddAI(room, s) /\ other = RoomAddAI(room, s)
         \/ CanRemoveAI(room, s) /\ other = RoomRemoveAI(room, s)
  PROVE  /\ GoodRoom(other)
         /\ \A t \in Seats, i \in Conns : Serves(room, t, i) => Serves(other, t, i)
<1> DEFINE bot == [EmptySlot EXCEPT !.status = "AI"]
<1>1. EmptySlot \in PlayerSlot /\ bot \in PlayerSlot
      /\ EmptySlot.status = "EMPTY" /\ bot.status = "AI"
  BY GraceAssumption DEF EmptySlot, PlayerSlot, SlotStatus
<1> HIDE DEF bot
<1>2. PICK slot \in {EmptySlot, bot} : other = [room EXCEPT !.slots[s] = slot]
  BY DEF RoomAddAI, RoomRemoveAI, bot
<1>3. room \in RoomRecord /\ room.status = "WAITING" /\ room.slots[s].status # "CONNECTED"
  BY DEF GoodRoom, CanAddAI, CanRemoveAI, IsFirst, IsLast, SeatsWith
<1>4. other \in RoomRecord
  <2>1. [room.slots EXCEPT ![s] = slot] \in [Seats -> PlayerSlot]
    BY <1>1, <1>3 DEF RoomRecord
  <2> QED
    BY <1>2, <1>3, <2>1 DEF RoomRecord
<1>5. /\ other.status = "WAITING" /\ other.code = room.code /\ other.connected_count = room.connected_count
      /\ \A t \in Seats : other.slots[t] = IF t = s THEN slot ELSE room.slots[t]
  BY <1>2, <1>3 DEF RoomRecord
<1>6. /\ SeatsWith(other, "CONNECTED") = SeatsWith(room, "CONNECTED")
      /\ SeatsWith(other, "DISCONNECTED") \subseteq SeatsWith(room, "DISCONNECTED")
  BY <1>1, <1>2, <1>3, <1>5 DEF SeatsWith
<1>7. \A t \in Seats, i \in Conns : Serves(room, t, i) => Serves(other, t, i)
  BY <1>3, <1>5 DEF Serves
<1> QED
  BY <1>3, <1>4, <1>5, <1>6, <1>7 DEF GoodRoom, CountExact, FitsThePhase, HasCode

LEMMA RoomStartGood ==
  ASSUME NEW room, GoodRoom(room), CanStart(room)
  PROVE  /\ GoodRoom(RoomStart(room))
         /\ \A t \in Seats, i \in Conns : Serves(room, t, i) => Serves(RoomStart(room), t, i)
<1> DEFINE started == RoomStart(room)
<1>1. room \in RoomRecord /\ room.status = "WAITING"
  BY DEF GoodRoom, CanStart
<1>2. started \in RoomRecord
  BY <1>1 DEF RoomStart, RoomRecord, RoomStatus
<1>3. /\ started.status = "PLAYING" /\ started.code = room.code /\ started.slots = room.slots
      /\ started.connected_count = room.connected_count
      /\ \A s \in Seats : started.is_human[s] = (room.slots[s].status = "CONNECTED")
  BY <1>1 DEF RoomStart, RoomRecord
<1> HIDE DEF started
<1>4. CountExact(started)
  BY <1>3 DEF GoodRoom, CountExact, SeatsWith
<1>5. \A s \in Seats : room.slots[s].status \in {"CONNECTED", "AI"}
  BY <1>1 DEF GoodRoom, FitsThePhase, CanStart, SeatsWith, RoomRecord, PlayerSlot, SlotStatus
<1>6. FitsThePhase(started)
  BY <1>3, <1>5 DEF FitsThePhase
<1>7. \A t \in Seats, i \in Conns : Serves(room, t, i) => Serves(started, t, i)
  BY <1>3 DEF Serves
<1> QED
  BY <1>1, <1>2, <1>3, <1>4, <1>6, <1>7 DEF GoodRoom, HasCode, started

\* The AI takes over seats of absent players only.
LEMMA TickedSlotGood ==
  ASSUME NEW slot \in PlayerSlot
  PROVE  /\ TickedSlot(slot) \in PlayerSlot
         /\ TickedSlot(slot).status = IF GraceOver(slot) THEN "AI" ELSE slot.status
         /\ slot.status = "CONNECTED" => TickedSlot(slot) = slot
<1>1. CASE GraceOver(slot)
  <2>1. -1 \in -1 .. GraceTicks - 1
    BY GraceAssumption
  <2>2. TickedSlot(slot) = [slot EXCEPT !.status = "AI", !.disconnect_timer = -1]
    BY <1>1 DEF TickedSlot
  <2>3. slot.status # "CONNECTED"
    BY <1>1 DEF GraceOver
  <2> QED
    BY <1>1, <2>1, <2>2, <2>3 DEF PlayerSlot, SlotStatus
<1>2. CASE ~GraceOver(slot) /\ slot.status = "DISCONNECTED"
  <2>1. slot.disconnect_timer + 1 \in -1 .. GraceTicks - 1
    BY <1>2, GraceAssumption DEF GraceOver, PlayerSlot
  <2> QED
    BY <1>2, <2>1 DEF TickedSlot, PlayerSlot, SlotStatus
<1>3. CASE ~GraceOver(slot) /\ slot.status # "DISCONNECTED"
  BY <1>3 DEF TickedSlot
<1> QED
  BY <1>1, <1>2, <1>3

LEMMA UpdateTimersGood ==
  ASSUME NEW room, GoodRoom(room), room.status = "PLAYING"
  PROVE  LET ticked == UpdateTimers(room)
         IN  /\ GoodRoom(ticked) /\ ticked.status = "PLAYING"
             /\ \A s \in Seats : ticked.slots[s] = TickedSlot(room.slots[s])
             /\ \A t \in Seats, i \in Conns : Serves(room, t, i) => Serves(ticked, t, i)
<1> DEFINE ticked == UpdateTimers(room)
<1>1. room \in RoomRecord /\ \A s \in Seats : room.slots[s] \in PlayerSlot
  BY DEF GoodRoom, RoomRecord
<1>2. /\ ticked.status = "PLAYING" /\ ticked.code = room.code /\ ticked.connected_count = room.connected_count
      /\ \A s \in Seats : ticked.slots[s] = TickedSlot(room.slots[s])
      /\ \A s \in Seats : ticked.is_human[s] = (room.is_human[s] /\ ~GraceOver(room.slots[s]))
  BY <1>1 DEF UpdateTimers, RoomRecord
<1>3. ticked \in RoomRecord
  <2>1. [s \in Seats |-> TickedSlot(room.slots[s])] \in [Seats -> PlayerSlot]
    BY <1>1, TickedSlotGood
  <2>2. [s \in Seats |-> room.is_human[s] /\ ~GraceOver(room.slots[s])] \in [Seats -> BOOLEAN]
    OBVIOUS
  <2> QED
    BY <1>1, <2>1, <2>2 DEF UpdateTimers, RoomRecord
<1> HIDE DEF ticked
<1>4. \A s \in Seats : ticked.slots[s].status =
                        IF GraceOver(room.slots[s]) THEN "AI" ELSE room.slots[s].status
  BY <1>1, <1>2, TickedSlotGood
<1>5. SeatsWith(ticked, "CONNECTED") = SeatsWith(room, "CONNECTED")
  BY <1>4 DEF SeatsWith, GraceOver
<1>6. FitsThePhase(ticked)
  BY <1>2, <1>4 DEF GoodRoom, FitsThePhase, GraceOver
<1>7. \A t \in Seats, i \in Conns : Serves(room, t, i) => Serves(ticked, t, i)
  BY <1>1, <1>2, TickedSlotGood DEF Serves
<1> QED
  BY <1>2, <1>3, <1>5, <1>6, <1>7 DEF GoodRoom, CountExact, HasCode, ticked

LEMMA RoomReconnectGood ==
  ASSUME NEW room, GoodRoom(room), NEW s \in Seats, NEW token, CanReconnect(room, s, token),
         NEW conn \in Conns
  PROVE  LET back == RoomReconnect(room, s, conn)
         IN  /\ GoodRoom(back) /\ back.code = room.code /\ Serves(back, s, conn)
             /\ \A t \in Seats, i \in Conns : Serves(room, t, i) => Serves(back, t, i)
<1> DEFINE back == RoomReconnect(room, s, conn)
           slot == [room.slots[s] EXCEPT !.status = "CONNECTED", !.conn_id = conn,
                                         !.disconnect_timer = -1]
<1>1. /\ room \in RoomRecord /\ room.status = "PLAYING" /\ room.slots[s] \in PlayerSlot
      /\ room.slots[s].status # "CONNECTED"
  BY DEF GoodRoom, CanReconnect, IsFirst, RoomRecord
<1>a. -1 \in -1 .. GraceTicks - 1
  BY GraceAssumption
<1>2. slot \in PlayerSlot /\ slot.status = "CONNECTED" /\ slot.conn_id = conn
  BY <1>1, <1>a DEF PlayerSlot, SlotStatus
<1>3. back = [room EXCEPT !.slots[s] = slot, !.is_human[s] = TRUE,
                          !.connected_count = room.connected_count + 1, !.changed = TRUE]
  BY DEF RoomReconnect
<1> HIDE DEF back, slot
<1>4. back \in RoomRecord
  <2>1. /\ [room.slots EXCEPT ![s] = slot] \in [Seats -> PlayerSlot]
        /\ [room.is_human EXCEPT ![s] = TRUE] \in [Seats -> BOOLEAN]
        /\ room.connected_count + 1 \in Int
    BY <1>1, <1>2 DEF RoomRecord
  <2> QED
    BY <1>1, <1>3, <2>1 DEF RoomRecord
<1>5. /\ back.status = "PLAYING" /\ back.code = room.code
      /\ back.connected_count = room.connected_count + 1
      /\ \A t \in Seats : back.slots[t] = IF t = s THEN slot ELSE room.slots[t]
      /\ \A t \in Seats : back.is_human[t] = (t = s \/ room.is_human[t])
  BY <1>1, <1>3 DEF RoomRecord
<1>6. SeatsWith(back, "CONNECTED") = SeatsWith(room, "CONNECTED") \cup {s}
  BY <1>2, <1>5 DEF SeatsWith
<1>7. CountExact(back)
  <2>1. s \notin SeatsWith(room, "CONNECTED")
    BY <1>1 DEF SeatsWith
  <2>2. Cardinality(SeatsWith(back, "CONNECTED"))
          = Cardinality(SeatsWith(room, "CONNECTED")) + 1
    BY <1>6, <2>1, OneMoreConnected
  <2> QED
    BY <1>5, <2>2 DEF GoodRoom, CountExact
<1>8. FitsThePhase(back)
  BY <1>1, <1>2, <1>5 DEF GoodRoom, FitsThePhase
<1>9. Serves(back, s, conn) /\ \A t \in Seats, i \in Conns : Serves(room, t, i) => Serves(back, t, i)
  BY <1>1, <1>2, <1>5 DEF Serves
<1> QED
  BY <1>1, <1>4, <1>5, <1>7, <1>8, <1>9 DEF GoodRoom, HasCode, back

-----------------------------------------------------------------------------
(* The states of the seats.                                                  *)

\* The states of the seats, which is what SeatLifecycle sees of a room.
Statuses(room) == [s \in Seats |-> room.slots[s].status]

LEMMA NewRoomSeats ==
  ASSUME NEW status, NEW code
  PROVE  /\ NewRoom(status, code).status = status /\ NewRoom(status, code).code = code
         /\ Statuses(NewRoom(status, code)) = [s \in Seats |-> "EMPTY"]
BY DEF NewRoom, EmptySlot, Statuses

LEMMA RoomJoinSeats ==
  ASSUME NEW room \in RoomRecord, NEW s \in Seats, NEW i, NEW token, NEW n
  PROVE  LET next == RoomJoin(room, s, i, token, n)
         IN  /\ next.status = room.status /\ next.code = room.code
             /\ Statuses(next) = [Statuses(room) EXCEPT ![s] = "CONNECTED"]
<1> DEFINE next == RoomJoin(room, s, i, token, n)
<1>1. /\ next.status = room.status /\ next.code = room.code
      /\ \A t \in Seats : next.slots[t].status = IF t = s THEN "CONNECTED" ELSE room.slots[t].status
  BY DEF RoomJoin, RoomRecord
<1> HIDE DEF next
<1> QED
  BY <1>1 DEF Statuses, next

\* A seat that is left by its player: a waiting room frees it, or ends with it.
LEMMA RoomLeaveSeats ==
  ASSUME NEW room, GoodRoom(room), NEW s \in Seats,
         room.status # "INACTIVE", room.slots[s].status = "CONNECTED"
  PROVE  LET next == RoomLeave(room, s)
         IN  \/ /\ room.status = "WAITING" /\ next = InactiveRoom
                /\ \A t \in Seats : room.slots[t].status = "CONNECTED" => t = s
             \/ /\ next.status = room.status /\ next.code = room.code
                /\ Statuses(next) = [Statuses(room) EXCEPT
                     ![s] = IF room.status = "WAITING" THEN "EMPTY" ELSE "DISCONNECTED"]
<1> DEFINE next == RoomLeave(room, s)
<1>1. CASE room.status = "WAITING" /\ room.connected_count = 1
  <2>1. next = InactiveRoom
    BY <1>1 DEF RoomLeave
  <2>2. PICK u : SeatsWith(room, "CONNECTED") = {u}
    BY <1>1, SeatsFinite, FS_Singleton DEF GoodRoom, CountExact
  <2> QED
    BY <1>1, <2>1, <2>2 DEF SeatsWith
<1>2. CASE ~(room.status = "WAITING" /\ room.connected_count = 1)
  <2> DEFINE slot == VacatedSlot(room.slots[s], room.status)
  <2>1. room \in RoomRecord /\ room.slots[s] \in PlayerSlot
    BY DEF GoodRoom, RoomRecord
  <2>2. slot.status = IF room.status = "WAITING" THEN "EMPTY" ELSE "DISCONNECTED"
    BY <2>1, VacatedSlotGood
  <2>3. next = [room EXCEPT !.slots[s] = slot, !.connected_count = @ - 1]
    BY <1>2 DEF RoomLeave
  <2> HIDE DEF slot, next
  <2>4. /\ next.status = room.status /\ next.code = room.code
        /\ \A t \in Seats : next.slots[t].status = IF t = s THEN slot.status ELSE room.slots[t].status
    BY <2>1, <2>3 DEF RoomRecord
  <2> QED
    BY <2>2, <2>4 DEF Statuses, next
<1> QED
  BY <1>1, <1>2

LEMMA RoomReconnectSeats ==
  ASSUME NEW room \in RoomRecord, NEW s \in Seats, NEW i
  PROVE  LET next == RoomReconnect(room, s, i)
         IN  /\ next.status = room.status /\ next.code = room.code
             /\ Statuses(next) = [Statuses(room) EXCEPT ![s] = "CONNECTED"]
<1> DEFINE next == RoomReconnect(room, s, i)
           slot == [room.slots[s] EXCEPT !.status = "CONNECTED", !.conn_id = i,
                                         !.disconnect_timer = -1]
<1>1. slot.status = "CONNECTED"
  BY DEF RoomRecord, PlayerSlot
<1>2. next = [room EXCEPT !.slots[s] = slot, !.is_human[s] = TRUE,
                          !.connected_count = room.connected_count + 1, !.changed = TRUE]
  BY DEF RoomReconnect
<1> HIDE DEF slot, next
<1>3. /\ next.status = room.status /\ next.code = room.code
      /\ \A t \in Seats : next.slots[t].status = IF t = s THEN "CONNECTED" ELSE room.slots[t].status
  BY <1>1, <1>2 DEF RoomRecord
<1> QED
  BY <1>3 DEF Statuses, next

LEMMA BotSeats ==
  ASSUME NEW room \in RoomRecord, NEW s \in Seats
  PROVE  /\ LET next == RoomAddAI(room, s)
            IN  /\ next.status = room.status /\ next.code = room.code
                /\ Statuses(next) = [Statuses(room) EXCEPT ![s] = "AI"]
         /\ LET next == RoomRemoveAI(room, s)
            IN  /\ next.status = room.status /\ next.code = room.code
                /\ Statuses(next) = [Statuses(room) EXCEPT ![s] = "EMPTY"]
<1> DEFINE added == RoomAddAI(room, s)
           removed == RoomRemoveAI(room, s)
           bot == [EmptySlot EXCEPT !.status = "AI"]
<1>1. EmptySlot.status = "EMPTY" /\ bot.status = "AI"
  BY DEF EmptySlot
<1>2. /\ added = [room EXCEPT !.slots[s] = bot]
      /\ removed = [room EXCEPT !.slots[s] = EmptySlot]
  BY DEF RoomAddAI, RoomRemoveAI
<1> HIDE DEF added, removed, bot
<1>3. /\ added.status = room.status /\ added.code = room.code
      /\ removed.status = room.status /\ removed.code = room.code
      /\ \A t \in Seats :
           /\ added.slots[t].status = IF t = s THEN "AI" ELSE room.slots[t].status
           /\ removed.slots[t].status = IF t = s THEN "EMPTY" ELSE room.slots[t].status
  BY <1>1, <1>2 DEF RoomRecord
<1> QED
  BY <1>3 DEF Statuses, added, removed

LEMMA RoomStartSeats ==
  ASSUME NEW room \in RoomRecord
  PROVE  /\ RoomStart(room).status = "PLAYING" /\ RoomStart(room).code = room.code
         /\ Statuses(RoomStart(room)) = Statuses(room)
BY DEF RoomStart, RoomRecord, Statuses

-----------------------------------------------------------------------------
(* The tokens of the seats.                                                  *)

\* The token of a seat was drawn by the server, or there is none.
SessionTokens(room) == \A s \in Seats : room.slots[s].auth_token \in Nat \cup {NoToken}

LEMMA JoinsKeepTokens ==
  ASSUME NEW room \in RoomRecord, SessionTokens(room), NEW s \in Seats, NEW i, NEW token, NEW n \in Nat
  PROVE  SessionTokens(RoomJoin(room, s, i, token, n))
BY DEF RoomJoin, RoomRecord, SessionTokens

LEMMA LeavesKeepTokens ==
  ASSUME NEW room \in RoomRecord, SessionTokens(room), NEW s \in Seats
  PROVE  SessionTokens(RoomLeave(room, s))
<1>1. SessionTokens(InactiveRoom)
  BY DEF SessionTokens, InactiveRoom, NewRoom, EmptySlot
<1> DEFINE slot == VacatedSlot(room.slots[s], room.status)
<1>2. slot.auth_token \in {room.slots[s].auth_token, NoToken}
  BY DEF VacatedSlot, RoomRecord, PlayerSlot
<1> HIDE DEF slot
<1>3. SessionTokens([room EXCEPT !.slots[s] = slot, !.connected_count = @ - 1])
  BY <1>2 DEF SessionTokens, RoomRecord
<1> QED
  BY <1>1, <1>3 DEF RoomLeave, slot

LEMMA ReconnectsKeepTokens ==
  ASSUME NEW room \in RoomRecord, SessionTokens(room), NEW s \in Seats, NEW i
  PROVE  SessionTokens(RoomReconnect(room, s, i))
<1> DEFINE slot == [room.slots[s] EXCEPT !.status = "CONNECTED", !.conn_id = i,
                                         !.disconnect_timer = -1]
<1>1. slot.auth_token = room.slots[s].auth_token
  BY DEF RoomRecord, PlayerSlot
<1>2. RoomReconnect(room, s, i) = [room EXCEPT !.slots[s] = slot, !.is_human[s] = TRUE,
                          !.connected_count = room.connected_count + 1, !.changed = TRUE]
  BY DEF RoomReconnect
<1> HIDE DEF slot
<1> QED
  BY <1>1, <1>2 DEF RoomRecord, SessionTokens

LEMMA BotsKeepTokens ==
  ASSUME NEW room \in RoomRecord, SessionTokens(room), NEW s \in Seats
  PROVE  SessionTokens(RoomAddAI(room, s)) /\ SessionTokens(RoomRemoveAI(room, s))
<1> DEFINE bot == [EmptySlot EXCEPT !.status = "AI"]
<1>1. EmptySlot.auth_token = NoToken /\ bot.auth_token = NoToken
  BY DEF EmptySlot
<1> HIDE DEF bot
<1>2. SessionTokens([room EXCEPT !.slots[s] = bot]) /\ SessionTokens([room EXCEPT !.slots[s] = EmptySlot])
  BY <1>1 DEF SessionTokens, RoomRecord
<1> QED
  BY <1>2 DEF RoomAddAI, RoomRemoveAI, bot

LEMMA StartKeepsTokens ==
  ASSUME NEW room \in RoomRecord, SessionTokens(room)
  PROVE  SessionTokens(RoomStart(room))
BY DEF SessionTokens, RoomRecord, RoomStart

-----------------------------------------------------------------------------
(* The invariant of the network loop.                                        *)

\* The socket table: only an open connection has something to send, and an open
\* connection has a peer.
ConnsOK ==
  /\ conn_state \in [Conns -> {"DISCONNECTED", "CONNECTED", "CLOSING"}]
  /\ inbox \in [Conns -> Seq(Message)]
  /\ unsent \in [Conns -> BOOLEAN]
  /\ peer \in [Conns -> Clients \cup {NoClient}]
  /\ gone \in [Conns -> BOOLEAN]
  /\ told \in [Conns -> SUBSET (Rooms \X BOOLEAN)]
  /\ \A i \in Conns : unsent[i] => conn_state[i] # "DISCONNECTED"
  /\ \A i \in Conns : conn_state[i] # "DISCONNECTED" => peer[i] \in Clients

RoomsOK ==
  /\ rooms \in [Rooms -> RoomRecord]
  /\ \A r \in Rooms : GoodRoom(rooms[r])

InfosOK ==
  /\ user_data \in [Conns -> ConnSlotInfo \cup {NoInfo}]
  /\ InfoNamesItsSeat

RestOK ==
  /\ stage \in Stages
  /\ backlog \in Seq(Clients)
  /\ ticket \in [Clients -> [code : Codes, token : Tokens] \cup {NoTicket}]
  /\ sessions \in Nat

IInv == ConnsOK /\ RoomsOK /\ InfosOK /\ RestOK

-----------------------------------------------------------------------------
(* The parts of the actions.                                                 *)

\* Closing connections keeps the socket table consistent.
LEMMA CloseAllOK ==
  ASSUME ConnsOK, NEW S \in SUBSET Conns, NEW out \in [Conns -> BOOLEAN],
         NEW box \in [Conns -> Seq(Message)],
         \A i \in Conns : out[i] => conn_state[i] # "DISCONNECTED",
         CloseAll(S, out, box)
  PROVE  ConnsOK'
<1> DEFINE ended == {j \in S : ~out[j]}
<1>1. \A i \in Conns : conn_state'[i] = IF i \notin S THEN conn_state[i]
                                        ELSE IF out[i] THEN "CLOSING" ELSE "DISCONNECTED"
  BY DEF CloseAll
<1>2. conn_state' \in [Conns -> {"DISCONNECTED", "CONNECTED", "CLOSING"}]
  BY DEF CloseAll, ConnsOK
<1>3. inbox' \in [Conns -> Seq(Message)]
  <2>1. <<>> \in Seq(Message)
    OBVIOUS
  <2> QED
    BY <2>1 DEF CloseAll, Closed
<1>4. /\ unsent' = out
      /\ peer' = [i \in Conns |-> IF i \in ended THEN NoClient ELSE peer[i]]
      /\ gone' = [i \in Conns |-> IF i \in ended THEN FALSE ELSE gone[i]]
      /\ told' = [i \in Conns |-> IF i \in ended THEN {} ELSE told[i]]
  BY DEF CloseAll, Closed
<1>5. /\ peer' \in [Conns -> Clients \cup {NoClient}]
      /\ gone' \in [Conns -> BOOLEAN]
      /\ told' \in [Conns -> SUBSET (Rooms \X BOOLEAN)]
  BY <1>4 DEF ConnsOK
<1>6. \A i \in Conns : unsent'[i] => conn_state'[i] # "DISCONNECTED"
  BY <1>1, <1>4
<1>7. ASSUME NEW i \in Conns, conn_state'[i] # "DISCONNECTED"
      PROVE  peer'[i] \in Clients
  <2>1. i \notin ended /\ conn_state[i] # "DISCONNECTED"
    BY <1>1, <1>7
  <2> QED
    BY <1>4, <2>1 DEF ConnsOK
<1> QED
  BY <1>2, <1>3, <1>4, <1>5, <1>6, <1>7 DEF ConnsOK

\* What is queued is queued on open connections.
LEMMA QueuedOK ==
  ASSUME ConnsOK, NEW S
  PROVE  /\ Queued(S) \in [Conns -> BOOLEAN]
         /\ \A i \in Conns : Queued(S)[i] => conn_state[i] # "DISCONNECTED"
BY DEF Queued, ConnsOK

LEMMA ConsumedOK ==
  ASSUME ConnsOK, NEW i \in Conns, Handling(i)
  PROVE  Consumed(i) \in [Conns -> Seq(Message)] /\ Msg(i) \in Message
<1>1. inbox[i] \in Seq(Message) /\ inbox[i] # <<>>
  BY DEF ConnsOK, Handling, IsFirst
<1>2. Tail(inbox[i]) \in Seq(Message) /\ Head(inbox[i]) \in Message
  BY <1>1
<1> QED
  BY <1>2 DEF Consumed, Msg, ConnsOK

LEMMA AnswerOK ==
  ASSUME ConnsOK, NEW i \in Conns, Handling(i), NEW S, Answer(i, S)
  PROVE  ConnsOK'
BY ConsumedOK, QueuedOK DEF Answer, ConnsOK

\* One room is rewritten and no connection that plays in it loses its seat.
LEMMA RoomRewritten ==
  ASSUME RoomsOK, NEW r \in Rooms, NEW room, GoodRoom(room),
         rooms' = [rooms EXCEPT ![r] = room]
  PROVE  RoomsOK'
BY DEF RoomsOK, GoodRoom

LEMMA InfosKept ==
  ASSUME RoomsOK, InfosOK, NEW r \in Rooms, NEW room,
         \A s \in Seats, i \in Conns : Serves(rooms[r], s, i) => Serves(room, s, i),
         rooms' = [rooms EXCEPT ![r] = room], user_data' = user_data
  PROVE  InfosOK'
<1>1. ASSUME NEW i \in Conns, user_data[i] # NoInfo
      PROVE  Serves(rooms'[user_data[i].room_index], user_data[i].seat, i)
  <2>1. user_data[i].room_index \in Rooms /\ user_data[i].seat \in Seats
    BY <1>1 DEF InfosOK, ConnSlotInfo
  <2>2. Serves(rooms[user_data[i].room_index], user_data[i].seat, i)
    BY <1>1 DEF InfosOK, InfoNamesItsSeat
  <2> QED
    BY <2>1, <2>2 DEF RoomsOK
<1> QED
  BY <1>1 DEF InfosOK, InfoNamesItsSeat

\* No connection plays in a room that is not active.
LEMMA InactiveServesNone ==
  ASSUME NEW r \in Rooms, ~Active(r)
  PROVE  \A s \in Seats, i \in Conns : ~Serves(rooms[r], s, i)
BY DEF Active, Serves

-----------------------------------------------------------------------------
(* The environment's steps.                                                  *)

\* What a client says is a message, whoever the connection belongs to.
LEMMA SaysMessages ==
  ASSUME RestOK, NEW c \in Clients, NEW i \in Conns
  PROVE  SayableMessages(c, i) \subseteq Message
<1>1. \A type \in Requests \cup {"OLD_HANDSHAKE"} : Request(type) \in Message
  BY DEF Request, Requests, Message
<1>2. Entries(c) \subseteq Message
  BY <1>1 DEF Entries, Handshake, Message, Tokens
<1>3. Comebacks(c) \subseteq Message
  BY DEF RestOK, Comebacks, Handshake, Message
<1> QED
  BY <1>1, <1>2, <1>3 DEF SayableMessages

LEMMA EnvironmentOK ==
  ASSUME IInv, Environment
  PROVE  IInv'
<1>1. ASSUME NEW c \in Clients, ClientConnect(c)
      PROVE  IInv'
  <2>1. RestOK'
    BY <1>1 DEF IInv, RestOK, ClientConnect
  <2> QED
    BY <1>1, <2>1 DEF IInv, ConnsOK, RoomsOK, InfosOK, InfoNamesItsSeat, ClientConnect, connVars
<1>2. ASSUME NEW i \in Conns, ClientSend(i)
      PROVE  IInv'
  <2>1. peer[i] \in Clients /\ inbox[i] \in Seq(Message)
    BY <1>2 DEF IInv, ConnsOK, ClientSend
  <2>2. PICK m \in SayableMessages(peer[i], i) : inbox' = [inbox EXCEPT ![i] = Append(@, m)]
    BY <1>2 DEF ClientSend
  <2>3. m \in Message
    BY <2>1, <2>2, SaysMessages DEF IInv
  <2>4. Append(inbox[i], m) \in Seq(Message)
    BY <2>1, <2>3
  <2>5. ConnsOK'
    BY <1>2, <2>2, <2>4 DEF IInv, ConnsOK, ClientSend
  <2> QED
    BY <1>2, <2>5 DEF IInv, RoomsOK, InfosOK, InfoNamesItsSeat, RestOK, ClientSend
<1>3. ASSUME NEW i \in Conns, ClientQuit(i)
      PROVE  IInv'
  <2>1. Request("DISCONNECT") \in Message /\ inbox[i] \in Seq(Message)
    BY DEF IInv, ConnsOK, Request, Message
  <2>2. Append(inbox[i], Request("DISCONNECT")) \in Seq(Message)
    BY <2>1
  <2>3. ConnsOK'
    BY <1>3, <2>2 DEF IInv, ConnsOK, ClientQuit
  <2> QED
    BY <1>3, <2>3 DEF IInv, RoomsOK, InfosOK, InfoNamesItsSeat, RestOK, ClientQuit
<1>4. ASSUME NEW i \in Conns, ClientDrop(i)
      PROVE  IInv'
  <2>1. ConnsOK'
    BY <1>4 DEF IInv, ConnsOK, ClientDrop
  <2> QED
    BY <1>4, <2>1 DEF IInv, RoomsOK, InfosOK, InfoNamesItsSeat, RestOK, ClientDrop
<1>5. ASSUME NEW r \in Rooms, NEW code \in Codes, LobbyCreateRoom(r, code)
      PROVE  IInv'
  <2>1. ~Active(r)
    BY <1>5 DEF LobbyCreateRoom, FreeRoom, IsFirst
  <2>2. GoodRoom(WaitingRoom(code))
    BY NewRoomGood DEF WaitingRoom
  <2>3. RoomsOK' /\ InfosOK'
    BY <1>5, <2>1, <2>2, RoomRewritten, InfosKept, InactiveServesNone
    DEF IInv, LobbyCreateRoom, connVars
  <2> QED
    BY <1>5, <2>3 DEF IInv, ConnsOK, RestOK, LobbyCreateRoom, connVars
<1>6. ASSUME NEW r \in Rooms, LobbyEloResult(r)
      PROVE  IInv'
  <2> DEFINE rated == [rooms[r] EXCEPT !.elo_received = TRUE, !.changed = TRUE]
  <2>1. /\ rated \in RoomRecord /\ rated.status = rooms[r].status
        /\ rated.slots = rooms[r].slots /\ rated.is_human = rooms[r].is_human
        /\ rated.connected_count = rooms[r].connected_count /\ rated.code = rooms[r].code
    BY DEF IInv, RoomsOK, RoomRecord
  <2>2. rooms' = [rooms EXCEPT ![r] = rated]
    BY <1>6 DEF LobbyEloResult
  <2> HIDE DEF rated
  <2>3. GoodRoom(rated) /\ \A s \in Seats, i \in Conns : Serves(rooms[r], s, i) => Serves(rated, s, i)
    BY <2>1 DEF IInv, RoomsOK, GoodRoom, CountExact, FitsThePhase, HasCode, SeatsWith, Serves
  <2>4. RoomsOK' /\ InfosOK'
    BY <1>6, <2>2, <2>3, RoomRewritten, InfosKept DEF IInv, LobbyEloResult, connVars
  <2> QED
    BY <1>6, <2>4 DEF IInv, ConnsOK, RestOK, LobbyEloResult, connVars
<1> QED
  BY <1>1, <1>2, <1>3, <1>4, <1>5, <1>6 DEF Environment

-----------------------------------------------------------------------------
(* Polling and accepting.                                                    *)

LEMMA PollOK ==
  ASSUME IInv, Poll
  PROVE  IInv'
<1>1. PICK flushed \in SUBSET {i \in Conns : unsent[i]}, dropped \in SUBSET {i \in Conns : gone[i]} :
        LET ended == dropped \cup {i \in flushed : conn_state[i] = "CLOSING"}
        IN  /\ conn_state' = Closed(conn_state, ended, "DISCONNECTED")
            /\ inbox' = Closed(inbox, ended, <<>>)
            /\ unsent' = [i \in Conns |-> unsent[i] /\ i \notin flushed \cup ended]
            /\ peer' = Closed(peer, ended, NoClient)
            /\ gone' = Closed(gone, ended, FALSE)
            /\ told' = Closed(told, ended, {})
  BY DEF Poll
<1>2. <<>> \in Seq(Message)
  OBVIOUS
<1>3. ConnsOK'
  BY <1>1, <1>2 DEF IInv, ConnsOK, Closed
<1> QED
  BY <1>3 DEF IInv, RoomsOK, InfosOK, InfoNamesItsSeat, RestOK, Poll, Stages

LEMMA AcceptOK ==
  ASSUME IInv, NEW i \in Conns, Accept(i)
  PROVE  IInv'
<1>1. Head(backlog) \in Clients /\ Tail(backlog) \in Seq(Clients)
  BY DEF IInv, RestOK, Accept
<1>2. ConnsOK' /\ RestOK'
  BY <1>1 DEF IInv, ConnsOK, RestOK, Accept
<1>3. RoomsOK'
  BY DEF IInv, RoomsOK, Accept
<1>4. InfosOK'
  BY DEF IInv, InfosOK, InfoNamesItsSeat, Accept
<1> QED
  BY <1>2, <1>3, <1>4 DEF IInv

\* A step that touches nothing but the stage and the backlog.
LEMMA StageOK ==
  ASSUME IInv, stage' \in Stages, backlog' \in Seq(Clients),
         UNCHANGED <<rooms, connVars, ticket, sessions>>
  PROVE  IInv'
BY DEF IInv, ConnsOK, RoomsOK, InfosOK, InfoNamesItsSeat, RestOK, connVars

-----------------------------------------------------------------------------
(* Handling a message.                                                       *)

\* The end of a handshake: the seat the connection is given is its own.
LEMMA SeatedOK ==
  ASSUME IInv, NEW i \in Conns, Handling(i), user_data[i] = NoInfo,
         NEW r \in Rooms, NEW s \in Seats, NEW room, Seated(i, r, s, room),
         GoodRoom(room), room.code \in Codes, room.slots[s].auth_token \in Tokens,
         Serves(room, s, i), sessions' \in Nat,
         \A t \in Seats, j \in Conns : Serves(rooms[r], t, j) => Serves(room, t, j)
  PROVE  IInv'
<1>1. ConnsOK'
  BY AnswerOK DEF IInv, Seated
<1>2. RoomsOK'
  BY RoomRewritten DEF IInv, Seated
<1>3. user_data' \in [Conns -> ConnSlotInfo \cup {NoInfo}]
  BY DEF IInv, InfosOK, Seated, ConnSlotInfo
<1>4. ASSUME NEW j \in Conns, user_data'[j] # NoInfo
      PROVE  Serves(rooms'[user_data'[j].room_index], user_data'[j].seat, j)
  <2>1. user_data' = [user_data EXCEPT ![i] = [room_index |-> r, seat |-> s]]
    BY DEF Seated
  <2>2. CASE j = i
    <3>1. user_data'[i] = [room_index |-> r, seat |-> s]
      BY <2>1 DEF IInv, InfosOK
    <3>2. rooms'[r] = room
      BY DEF IInv, RoomsOK, Seated
    <3> QED
      BY <2>2, <3>1, <3>2
  <2>3. CASE j # i
    <3>1. user_data'[j] = user_data[j] /\ user_data[j] \in ConnSlotInfo
      BY <1>4, <2>1, <2>3 DEF IInv, InfosOK
    <3>2. Serves(rooms[user_data[j].room_index], user_data[j].seat, j)
      BY <1>4, <3>1 DEF IInv, InfosOK, InfoNamesItsSeat
    <3>3. rooms'[user_data[j].room_index]
            = IF user_data[j].room_index = r THEN room ELSE rooms[user_data[j].room_index]
      BY <3>1 DEF IInv, RoomsOK, Seated, ConnSlotInfo
    <3> QED
      BY <3>1, <3>2, <3>3 DEF ConnSlotInfo
  <2> QED
    BY <2>2, <2>3
<1>5. InfosOK'
  BY <1>3, <1>4 DEF InfosOK, InfoNamesItsSeat
<1>6. RestOK'
  <2>1. [code |-> room.code, token |-> room.slots[s].auth_token] \in [code : Codes, token : Tokens]
    OBVIOUS
  <2> QED
    BY <2>1 DEF IInv, RestOK, Seated
<1> QED
  BY <1>1, <1>2, <1>5, <1>6 DEF IInv

LEMMA HandshakeOK ==
  ASSUME IInv, NEW i \in Conns,
         HandshakeCreate(i) \/ HandshakeJoin(i) \/ HandshakeReconnect(i)
  PROVE  IInv'
<1>1. /\ Handling(i) /\ user_data[i] = NoInfo
      /\ Msg(i) \in Message /\ Msg(i).token \in Tokens
      /\ sessions \in Nat /\ sessions + 1 \in Nat /\ sessions + 1 \in Tokens
  BY ConsumedOK DEF IInv, RestOK, HandshakeCreate, HandshakeJoin, HandshakeReconnect,
                    HandshakeOn, Message, Tokens
<1>2. ASSUME HandshakeCreate(i)
      PROVE  IInv'
  <2>1. PICK r \in Rooms, code \in Codes :
          /\ Opens(Msg(i), r, code)
          /\ Seated(i, r, 0, RoomJoin(WaitingRoom(code), 0, i, Msg(i).token, sessions + 1))
    BY <1>2 DEF HandshakeCreate
  <2> DEFINE empty == WaitingRoom(code)
             room == RoomJoin(empty, 0, i, Msg(i).token, sessions + 1)
  <2>2. GoodRoom(empty) /\ empty.code = code
    BY NewRoomGood DEF WaitingRoom, NewRoom
  <2>3. 0 \in Seats /\ CanJoin(empty, 0)
    BY NumSeatsAssumption DEF Seats, CanJoin, IsFirst, SeatsWith, WaitingRoom, NewRoom, EmptySlot
  <2>4. GoodRoom(room) /\ room.code = code /\ Serves(room, 0, i)
    BY <1>1, <2>2, <2>3, RoomJoinGood
  <2>5. room.slots[0].auth_token = sessions + 1
    BY <2>2, <2>3 DEF RoomJoin, GoodRoom, RoomRecord
  <2>6. ~Active(r)
    BY <2>1 DEF Opens, FreeRoom, IsFirst
  <2> HIDE DEF room
  <2> QED
    BY <1>1, <1>2, <2>1, <2>3, <2>4, <2>5, <2>6, InactiveServesNone, SeatedOK
    DEF HandshakeCreate, room
<1>3. ASSUME HandshakeJoin(i)
      PROVE  IInv'
  <2>1. PICK r \in Rooms, s \in Seats :
          /\ Joins(Msg(i), r, s)
          /\ Seated(i, r, s, RoomJoin(rooms[r], s, i, Msg(i).token, sessions + 1))
    BY <1>3 DEF HandshakeJoin
  <2> DEFINE room == RoomJoin(rooms[r], s, i, Msg(i).token, sessions + 1)
  <2>2. GoodRoom(rooms[r]) /\ CanJoin(rooms[r], s)
    BY <2>1 DEF IInv, RoomsOK, Joins
  <2>3. /\ GoodRoom(room) /\ room.code = rooms[r].code /\ Serves(room, s, i)
        /\ \A t \in Seats, j \in Conns : Serves(rooms[r], t, j) => Serves(room, t, j)
    BY <1>1, <2>2, RoomJoinGood
  <2>4. room.slots[s].auth_token = sessions + 1
    BY <2>2 DEF RoomJoin, GoodRoom, RoomRecord
  <2>5. rooms[r].code \in Codes
    BY <2>1, <2>2 DEF Joins, RoomWithCode, Active, GoodRoom, HasCode
  <2> HIDE DEF room
  <2> QED
    BY <1>1, <1>3, <2>1, <2>3, <2>4, <2>5, SeatedOK DEF HandshakeJoin, room
<1>4. ASSUME HandshakeReconnect(i)
      PROVE  IInv'
  <2>1. PICK r \in Rooms, s \in Seats :
          Returns(Msg(i), r, s) /\ Seated(i, r, s, RoomReconnect(rooms[r], s, i))
    BY <1>4 DEF HandshakeReconnect
  <2> DEFINE room == RoomReconnect(rooms[r], s, i)
  <2>2. GoodRoom(rooms[r]) /\ CanReconnect(rooms[r], s, Msg(i).token)
    BY <2>1 DEF IInv, RoomsOK, Returns
  <2>3. /\ GoodRoom(room) /\ room.code = rooms[r].code /\ Serves(room, s, i)
        /\ \A t \in Seats, j \in Conns : Serves(rooms[r], t, j) => Serves(room, t, j)
    BY <2>2, RoomReconnectGood
  <2>4. room.slots[s].auth_token = Msg(i).token
    <3>1. rooms[r].slots[s].auth_token = Msg(i).token
      BY <2>2 DEF CanReconnect, IsFirst
    <3> QED
      BY <2>2, <3>1 DEF RoomReconnect, GoodRoom, RoomRecord, PlayerSlot
  <2>5. rooms[r].code \in Codes
    BY <2>1, <2>2 DEF Returns, RoomWithCode, Active, GoodRoom, HasCode
  <2> HIDE DEF room
  <2> QED
    BY <1>1, <1>4, <2>1, <2>3, <2>4, <2>5, SeatedOK DEF HandshakeReconnect, room
<1> QED
  BY <1>2, <1>3, <1>4

\* The seat taken is left again, for want of memory.
LEMMA HandshakeNoMemoryOK ==
  ASSUME IInv, NEW i \in Conns, HandshakeNoMemory(i)
  PROVE  IInv'
<1>1. /\ Handling(i) /\ Consumed(i) \in [Conns -> Seq(Message)] /\ Msg(i).token \in Tokens
      /\ sessions \in Nat /\ sessions + 1 \in Nat /\ sessions + 1 \in Tokens
  BY ConsumedOK DEF IInv, RestOK, HandshakeNoMemory, HandshakeOn, Message, Tokens
<1>2. PICK r \in Rooms, s \in Seats :
        \E taken :
          /\ \/ Joins(Msg(i), r, s) /\ taken = RoomJoin(rooms[r], s, i, Msg(i).token, sessions + 1)
             \/ Returns(Msg(i), r, s) /\ taken = RoomReconnect(rooms[r], s, i)
          /\ rooms' = [rooms EXCEPT ![r] = RoomLeave(taken, s)]
          /\ CloseAll({i}, Queued({i}), Consumed(i)) \/ CloseAll({i}, unsent, Consumed(i))
          /\ sessions' \in {sessions, sessions + 1}
  BY DEF HandshakeNoMemory
<1>a. PICK taken :
        /\ \/ Joins(Msg(i), r, s) /\ taken = RoomJoin(rooms[r], s, i, Msg(i).token, sessions + 1)
           \/ Returns(Msg(i), r, s) /\ taken = RoomReconnect(rooms[r], s, i)
        /\ rooms' = [rooms EXCEPT ![r] = RoomLeave(taken, s)]
        /\ CloseAll({i}, Queued({i}), Consumed(i)) \/ CloseAll({i}, unsent, Consumed(i))
        /\ sessions' \in {sessions, sessions + 1}
  BY <1>2
<1>3. /\ rooms[r].slots[s].status # "CONNECTED"
      /\ GoodRoom(taken)
      /\ \A t \in Seats, j \in Conns : Serves(rooms[r], t, j) => Serves(taken, t, j)
  <2>1. GoodRoom(rooms[r])
    BY DEF IInv, RoomsOK
  <2>2. CASE CanJoin(rooms[r], s) /\ taken = RoomJoin(rooms[r], s, i, Msg(i).token, sessions + 1)
    BY <1>1, <2>1, <2>2, RoomJoinGood DEF CanJoin, IsFirst, SeatsWith
  <2>3. CASE CanReconnect(rooms[r], s, Msg(i).token) /\ taken = RoomReconnect(rooms[r], s, i)
    BY <2>1, <2>3, RoomReconnectGood DEF CanReconnect, IsFirst
  <2> QED
    BY <1>a, <2>2, <2>3 DEF Joins, Returns
<1>4. /\ GoodRoom(RoomLeave(taken, s))
      /\ \A t \in Seats, j \in Conns : Serves(rooms[r], t, j) => Serves(RoomLeave(taken, s), t, j)
  BY <1>3, RoomLeaveGood DEF Serves
<1>5. RoomsOK' /\ InfosOK'
  BY <1>a, <1>4, RoomRewritten, InfosKept DEF IInv, HandshakeNoMemory
<1>6. ConnsOK'
  BY <1>1, <1>a, CloseAllOK, QueuedOK DEF IInv, ConnsOK
<1> QED
  BY <1>1, <1>a, <1>5, <1>6 DEF IInv, RestOK, HandshakeNoMemory

\* A request is served: one room is rewritten, and nobody in it loses a seat.
LEMMA ServedOK ==
  ASSUME IInv, NEW i \in Conns, Handling(i), NEW r \in Rooms, NEW room, GoodRoom(room),
         \A t \in Seats, j \in Conns : Serves(rooms[r], t, j) => Serves(room, t, j),
         rooms' = [rooms EXCEPT ![r] = room], NEW S, Answer(i, S),
         UNCHANGED <<stage, user_data, backlog, ticket, sessions>>
  PROVE  IInv'
<1>1. RoomsOK' /\ InfosOK'
  BY RoomRewritten, InfosKept DEF IInv
<1>2. ConnsOK'
  BY AnswerOK DEF IInv
<1> QED
  BY <1>1, <1>2 DEF IInv, RestOK

LEMMA RequestOK ==
  ASSUME IInv, NEW i \in Conns, AddAI(i) \/ RemoveAI(i) \/ StartGame(i)
  PROVE  IInv'
<1>1. \A r \in Rooms : GoodRoom(rooms[r])
  BY DEF IInv, RoomsOK
<1>2. CASE AddAI(i)
  <2>1. PICK r \in Rooms, s \in Seats :
          /\ CanAddAI(rooms[r], s) /\ rooms' = [rooms EXCEPT ![r] = RoomAddAI(@, s)]
          /\ Answer(i, Members(rooms[r]))
    BY <1>2 DEF AddAI
  <2> DEFINE room == RoomAddAI(rooms[r], s)
  <2>2. /\ GoodRoom(room)
        /\ \A t \in Seats, j \in Conns : Serves(rooms[r], t, j) => Serves(room, t, j)
    BY <1>1, <2>1, BotsGood
  <2>3. /\ Handling(i) /\ rooms' = [rooms EXCEPT ![r] = room]
        /\ UNCHANGED <<stage, user_data, backlog, ticket, sessions>>
    BY <1>2, <2>1 DEF AddAI
  <2> HIDE DEF room
  <2> QED
    BY <2>1, <2>2, <2>3, ServedOK
<1>3. CASE RemoveAI(i)
  <2>1. PICK r \in Rooms, s \in Seats :
          /\ CanRemoveAI(rooms[r], s) /\ rooms' = [rooms EXCEPT ![r] = RoomRemoveAI(@, s)]
          /\ Answer(i, Members(rooms[r]))
    BY <1>3 DEF RemoveAI
  <2> DEFINE room == RoomRemoveAI(rooms[r], s)
  <2>2. /\ GoodRoom(room)
        /\ \A t \in Seats, j \in Conns : Serves(rooms[r], t, j) => Serves(room, t, j)
    BY <1>1, <2>1, BotsGood
  <2>3. /\ Handling(i) /\ rooms' = [rooms EXCEPT ![r] = room]
        /\ UNCHANGED <<stage, user_data, backlog, ticket, sessions>>
    BY <1>3, <2>1 DEF RemoveAI
  <2> HIDE DEF room
  <2> QED
    BY <2>1, <2>2, <2>3, ServedOK
<1>4. CASE StartGame(i)
  <2>1. PICK r \in Rooms : CanStart(rooms[r]) /\ rooms' = [rooms EXCEPT ![r] = RoomStart(@)]
    BY <1>4 DEF StartGame
  <2> QED
    BY <1>1, <1>4, <2>1, RoomStartGood, ServedOK DEF StartGame
<1> QED
  BY <1>2, <1>3, <1>4

\* The only connection that loses a seat is the one that is closed: no two
\* ConnSlotInfos name the same seat, as a seat has one conn_id.
LEMMA CleanupConnectionOK ==
  ASSUME IInv, NEW i \in Conns, NEW box \in [Conns -> Seq(Message)], CleanupConnection(i, box)
  PROVE  IInv'
<1> DEFINE info == user_data[i]
           left == IF info = NoInfo THEN InactiveRoom
                   ELSE RoomLeave(rooms[info.room_index], info.seat)
           heard_by == IF left.status \in {"WAITING", "PLAYING"} THEN Members(left) ELSE {}
<1>1. /\ rooms' = IF info = NoInfo THEN rooms ELSE [rooms EXCEPT ![info.room_index] = left]
      /\ user_data' = [user_data EXCEPT ![i] = NoInfo]
      /\ CloseAll({i}, Queued(heard_by), box)
      /\ UNCHANGED <<stage, backlog, ticket, sessions>>
  BY DEF CleanupConnection
<1>2. ConnsOK'
  BY <1>1, CloseAllOK, QueuedOK DEF IInv
<1>3. info # NoInfo =>
        /\ info.room_index \in Rooms /\ info.seat \in Seats
        /\ GoodRoom(left)
        /\ \A t \in Seats, j \in Conns :
             Serves(rooms[info.room_index], t, j) /\ t # info.seat => Serves(left, t, j)
  BY RoomLeaveGood DEF IInv, InfosOK, ConnSlotInfo, RoomsOK
<1> HIDE DEF left
<1>4. RoomsOK'
  BY <1>1, <1>3, RoomRewritten DEF IInv, RoomsOK
<1>5. user_data' \in [Conns -> ConnSlotInfo \cup {NoInfo}]
  BY <1>1 DEF IInv, InfosOK
<1>6. ASSUME NEW j \in Conns, user_data'[j] # NoInfo
      PROVE  Serves(rooms'[user_data'[j].room_index], user_data'[j].seat, j)
  <2> DEFINE other == user_data[j]
  <2>1. /\ j # i /\ user_data'[j] = other
        /\ other.room_index \in Rooms /\ other.seat \in Seats
        /\ Serves(rooms[other.room_index], other.seat, j)
    BY <1>1, <1>6 DEF IInv, InfosOK, InfoNamesItsSeat, ConnSlotInfo
  <2>2. CASE info = NoInfo
    BY <1>1, <2>1, <2>2
  <2>3. CASE info # NoInfo /\ other.room_index # info.room_index
    BY <1>1, <2>1, <2>3 DEF IInv, RoomsOK
  <2>4. CASE info # NoInfo /\ other.room_index = info.room_index
    <3>1. Serves(rooms[info.room_index], info.seat, i)
      BY <2>4 DEF IInv, InfosOK, InfoNamesItsSeat
    <3>2. other.seat # info.seat
      BY <2>1, <2>4, <3>1 DEF Serves
    <3>3. rooms'[info.room_index] = left
      BY <1>1, <1>3, <2>4 DEF IInv, RoomsOK
    <3> QED
      BY <1>3, <2>1, <2>4, <3>2, <3>3
  <2> QED
    BY <2>2, <2>3, <2>4
<1>7. InfosOK'
  BY <1>5, <1>6 DEF InfosOK, InfoNamesItsSeat
<1> QED
  BY <1>1, <1>2, <1>4, <1>7 DEF IInv, RestOK

LEMMA HandleOK ==
  ASSUME IInv, NEW i \in Conns, Handle(i)
  PROVE  IInv'
<1>1. ASSUME HandshakeReject(i)
      PROVE  IInv'
  <2>1. Handling(i) /\ CloseAll({i}, Queued({i}), Consumed(i))
    BY <1>1 DEF HandshakeReject, HandshakeOn
  <2>2. ConnsOK'
    BY <2>1, CloseAllOK, QueuedOK, ConsumedOK DEF IInv
  <2> QED
    BY <1>1, <2>2 DEF IInv, RoomsOK, InfosOK, InfoNamesItsSeat, RestOK, HandshakeReject
<1>2. ASSUME Ignored(i)
      PROVE  IInv'
  <2>1. ConnsOK'
    BY <1>2, AnswerOK DEF IInv, Ignored
  <2> QED
    BY <1>2, <2>1 DEF IInv, RoomsOK, InfosOK, InfoNamesItsSeat, RestOK, Ignored
<1>3. ASSUME Disconnect(i)
      PROVE  IInv'
  <2>1. Handling(i) /\ CleanupConnection(i, Consumed(i))
    BY <1>3 DEF Disconnect
  <2> QED
    BY <2>1, ConsumedOK, CleanupConnectionOK DEF IInv
<1> QED
  BY <1>1, <1>2, <1>3, HandshakeOK, HandshakeNoMemoryOK, RequestOK DEF Handle

-----------------------------------------------------------------------------
(* Stages 4 to 7.                                                            *)

\* A destroyed game had no CONNECTED seat, as the count is exact.
LEMMA AbandonedGood ==
  ASSUME NEW room, GoodRoom(room), Abandoned(room)
  PROVE  \A s \in Seats, i \in Conns : ~Serves(room, s, i)
<1>1. SeatsWith(room, "CONNECTED") = {}
  BY SeatsFinite DEF GoodRoom, CountExact, Abandoned
<1> QED
  BY <1>1 DEF SeatsWith, Serves

LEMMA PlayedGood ==
  ASSUME NEW room, GoodRoom(room), room.status = "PLAYING",
         NEW moved, NEW over
  PROVE  LET played == Played(room, moved, over)
         IN  /\ GoodRoom(played)
             /\ \A s \in Seats, i \in Conns : Serves(room, s, i) => Serves(played, s, i)
<1> DEFINE played == Played(room, moved, over)
<1>1. /\ played \in RoomRecord /\ played.slots = room.slots /\ played.code = room.code
      /\ played.status \in {"PLAYING", "FINISHED"} /\ played.is_human = room.is_human
      /\ played.connected_count = room.connected_count
  BY DEF Played, GoodRoom, RoomRecord, RoomStatus
<1> HIDE DEF played
<1>2. GoodRoom(played)
  BY <1>1 DEF GoodRoom, CountExact, FitsThePhase, HasCode, SeatsWith
<1>3. \A s \in Seats, i \in Conns : Serves(room, s, i) => Serves(played, s, i)
  BY <1>1 DEF Serves
<1> QED
  BY <1>2, <1>3 DEF played

LEMMA TickOK ==
  ASSUME IInv, Tick
  PROVE  IInv'
<1> DEFINE playing == {r \in Rooms : rooms[r].status = "PLAYING"}
           abandoned == {r \in playing : Abandoned(UpdateTimers(rooms[r]))}
<1>1. PICK moved \in SUBSET (playing \ abandoned) : \E over \in SUBSET moved :
        rooms' = [r \in Rooms |->
                    IF r \in abandoned THEN InactiveRoom
                    ELSE IF r \in playing
                    THEN Played(UpdateTimers(rooms[r]), r \in moved, r \in over)
                    ELSE rooms[r]]
  BY DEF Tick
<1>2. PICK over \in SUBSET moved :
        rooms' = [r \in Rooms |->
                    IF r \in abandoned THEN InactiveRoom
                    ELSE IF r \in playing
                    THEN Played(UpdateTimers(rooms[r]), r \in moved, r \in over)
                    ELSE rooms[r]]
  BY <1>1
<1>3. ASSUME NEW r \in Rooms
      PROVE  /\ GoodRoom(rooms'[r])
             /\ \A s \in Seats, i \in Conns : Serves(rooms[r], s, i) => Serves(rooms'[r], s, i)
  <2>1. GoodRoom(rooms[r])
    BY DEF IInv, RoomsOK
  <2>2. CASE r \in abandoned
    <3>1. GoodRoom(InactiveRoom) /\ rooms'[r] = InactiveRoom
      BY <1>2, <2>2, NewRoomGood DEF InactiveRoom
    <3>2. \A s \in Seats, i \in Conns : ~Serves(rooms[r], s, i)
      BY <2>1, <2>2, UpdateTimersGood, AbandonedGood
    <3> QED
      BY <3>1, <3>2
  <2>3. CASE r \in playing \ abandoned
    <3>1. rooms'[r] = Played(UpdateTimers(rooms[r]), r \in moved, r \in over)
      BY <1>2, <2>3
    <3>2. /\ GoodRoom(UpdateTimers(rooms[r])) /\ UpdateTimers(rooms[r]).status = "PLAYING"
          /\ \A s \in Seats, i \in Conns :
               Serves(rooms[r], s, i) => Serves(UpdateTimers(rooms[r]), s, i)
      BY <2>1, <2>3, UpdateTimersGood
    <3> QED
      BY <3>1, <3>2, PlayedGood, Zenon
  <2>4. CASE r \notin playing
    BY <1>2, <2>1, <2>4
  <2> QED
    BY <2>2, <2>3, <2>4
<1>4. RoomsOK'
  BY <1>2, <1>3 DEF RoomsOK, GoodRoom
<1>5. InfosOK'
  BY <1>3 DEF IInv, InfosOK, InfoNamesItsSeat, ConnSlotInfo, Tick, connVars
<1>6. ConnsOK' /\ RestOK'
  BY DEF IInv, ConnsOK, RestOK, Tick, connVars, Stages
<1> QED
  BY <1>4, <1>5, <1>6 DEF IInv

LEMMA BroadcastOK ==
  ASSUME IInv, Broadcast
  PROVE  IInv'
<1>1. PICK due \in SUBSET Rooms :
        rooms' = [r \in Rooms |-> [rooms[r] EXCEPT !.changed = @ /\ r \notin due]]
  BY DEF Broadcast
<1>2. ASSUME NEW r \in Rooms
      PROVE  /\ GoodRoom(rooms'[r])
             /\ \A s \in Seats, i \in Conns : Serves(rooms[r], s, i) => Serves(rooms'[r], s, i)
  <2>1. GoodRoom(rooms[r])
    BY DEF IInv, RoomsOK
  <2>2. rooms'[r] = [rooms[r] EXCEPT !.changed = @ /\ r \notin due]
    BY <1>1
  <2>3. /\ rooms'[r] \in RoomRecord /\ rooms'[r].slots = rooms[r].slots
        /\ rooms'[r].status = rooms[r].status /\ rooms'[r].code = rooms[r].code
        /\ rooms'[r].is_human = rooms[r].is_human
        /\ rooms'[r].connected_count = rooms[r].connected_count
    BY <2>1, <2>2 DEF GoodRoom, RoomRecord
  <2> QED
    BY <2>1, <2>3 DEF GoodRoom, CountExact, FitsThePhase, HasCode, SeatsWith, Serves
<1>3. RoomsOK'
  BY <1>1, <1>2 DEF RoomsOK, GoodRoom
<1>4. InfosOK'
  BY <1>2 DEF IInv, InfosOK, InfoNamesItsSeat, ConnSlotInfo, Broadcast
<1>5. ConnsOK'
  BY DEF IInv, ConnsOK, RoomsOK, RoomRecord, GoodRoom, Broadcast
<1> QED
  BY <1>3, <1>4, <1>5 DEF IInv, RestOK, Broadcast, Stages

\* A connection that loses its room loses its ConnSlotInfo.
LEMMA CleanupOK ==
  ASSUME IInv, Cleanup
  PROVE  IInv'
<1> DEFINE finished == {r \in Rooms : rooms[r].status = "FINISHED"}
           done == {r \in finished : Settled(rooms[r])}
           stale == {i \in Conns : user_data[i] # NoInfo /\ user_data[i].room_index \in done}
<1>1. /\ rooms' = [r \in Rooms |->
                     IF r \in done THEN InactiveRoom
                     ELSE [rooms[r] EXCEPT !.elo_wait_timer = IF r \in finished /\ @ < EloTicks THEN @ + 1 ELSE @]]
      /\ user_data' = Closed(user_data, stale, NoInfo)
      /\ CloseAll(stale, unsent, inbox)
      /\ stage' = "detect"
      /\ UNCHANGED <<backlog, ticket, sessions>>
  BY DEF Cleanup
<1>2. ASSUME NEW r \in Rooms
      PROVE  /\ GoodRoom(rooms'[r])
             /\ r \notin done => \A s \in Seats, i \in Conns :
                                  Serves(rooms[r], s, i) => Serves(rooms'[r], s, i)
  <2>1. GoodRoom(rooms[r])
    BY DEF IInv, RoomsOK
  <2>2. CASE r \in done
    BY <1>1, <2>2, NewRoomGood DEF InactiveRoom
  <2>3. CASE r \notin done
    <3> DEFINE n == IF r \in finished /\ rooms[r].elo_wait_timer < EloTicks THEN rooms[r].elo_wait_timer + 1 ELSE rooms[r].elo_wait_timer
    <3>1. rooms'[r] = [rooms[r] EXCEPT !.elo_wait_timer = n]
      <4>1. rooms'[r] = [rooms[r] EXCEPT !.elo_wait_timer = IF r \in finished /\ @ < EloTicks THEN @ + 1 ELSE @]
        BY <1>1, <2>3
      <4>2. CASE r \in finished
        BY <4>1, <4>2
      <4>3. CASE r \notin finished
        BY <4>1, <4>3
      <4> QED
        BY <4>2, <4>3
    <3>2. n \in Nat
      BY <2>1 DEF GoodRoom, RoomRecord
    <3> HIDE DEF n
    <3>3. /\ rooms'[r] \in RoomRecord /\ rooms'[r].slots = rooms[r].slots
          /\ rooms'[r].status = rooms[r].status /\ rooms'[r].code = rooms[r].code
          /\ rooms'[r].is_human = rooms[r].is_human
          /\ rooms'[r].connected_count = rooms[r].connected_count
      BY <2>1, <3>1, <3>2 DEF GoodRoom, RoomRecord
    <3> QED
      BY <2>1, <3>3 DEF GoodRoom, CountExact, FitsThePhase, HasCode, SeatsWith, Serves
  <2> QED
    BY <2>2, <2>3
<1>3. RoomsOK'
  BY <1>1, <1>2 DEF RoomsOK, GoodRoom
<1>4. \A i \in Conns : user_data'[i] = IF i \in stale THEN NoInfo ELSE user_data[i]
  BY <1>1 DEF Closed
<1>5. InfosOK'
  <2>1. user_data' \in [Conns -> ConnSlotInfo \cup {NoInfo}]
    BY <1>1 DEF IInv, InfosOK, Closed
  <2>2. ASSUME NEW i \in Conns, user_data'[i] # NoInfo
        PROVE  Serves(rooms'[user_data'[i].room_index], user_data'[i].seat, i)
    <3>1. /\ user_data'[i] = user_data[i] /\ user_data[i] \in ConnSlotInfo
          /\ user_data[i].room_index \notin done
      BY <1>4, <2>2 DEF IInv, InfosOK
    <3>2. Serves(rooms[user_data[i].room_index], user_data[i].seat, i)
      BY <2>2, <3>1 DEF IInv, InfosOK, InfoNamesItsSeat
    <3> QED
      BY <1>2, <3>1, <3>2 DEF ConnSlotInfo
  <2> QED
    BY <2>1, <2>2 DEF InfosOK, InfoNamesItsSeat
<1>6. ConnsOK'
  <2>1. stale \in SUBSET Conns
    OBVIOUS
  <2> HIDE DEF stale
  <2> QED
    BY <1>1, <2>1, CloseAllOK DEF IInv, ConnsOK
<1> QED
  BY <1>1, <1>3, <1>5, <1>6 DEF IInv, RestOK, Stages

LEMMA ServerOK ==
  ASSUME IInv, Server
  PROVE  IInv'
<1>1. ASSUME AcceptRefused
      PROVE  IInv'
  <2>1. Tail(backlog) \in Seq(Clients)
    BY <1>1 DEF IInv, RestOK, AcceptRefused
  <2> QED
    BY <1>1, <2>1, StageOK DEF AcceptRefused, Stages
<1>2. ASSUME AcceptDone \/ RecvDone \/ DetectDone
      PROVE  IInv'
  BY <1>2, StageOK DEF IInv, RestOK, AcceptDone, RecvDone, DetectDone, Stages
<1>3. ASSUME NEW i \in Conns, DetectDrop(i)
      PROVE  IInv'
  BY <1>3, CleanupConnectionOK DEF IInv, ConnsOK, DetectDrop
<1> QED
  BY <1>1, <1>2, <1>3, PollOK, AcceptOK, HandleOK, TickOK, BroadcastOK, CleanupOK DEF Server

-----------------------------------------------------------------------------
(* The theorems.                                                             *)

LEMMA InitOK == Init => IInv
<1> SUFFICES ASSUME Init
             PROVE  IInv
  OBVIOUS
<1>1. GoodRoom(InactiveRoom)
  BY NewRoomGood DEF InactiveRoom
<1>2. RoomsOK
  BY <1>1 DEF Init, RoomsOK, GoodRoom
<1> QED
  BY <1>2 DEF Init, IInv, ConnsOK, InfosOK, InfoNamesItsSeat, RestOK, Stages

LEMMA StepOK == IInv /\ [Next]_vars => IInv'
<1>1. ASSUME IInv, UNCHANGED vars
      PROVE  IInv'
  BY <1>1, StageOK DEF vars, IInv, RestOK
<1> QED
  BY <1>1, EnvironmentOK, ServerOK DEF Next

\* The four parts hold in every state the server reaches.
THEOREM Invariance == Spec => []IInv
BY InitOK, StepOK, PTL DEF Spec

\* Every variable keeps its type (the tables of server_net.c, room.c and socket.c).
THEOREM TypeCorrect == Spec => []TypeOK
<1>1. IInv => TypeOK
  BY DEF IInv, ConnsOK, RoomsOK, InfosOK, RestOK, TypeOK
<1> QED
  BY <1>1, Invariance, PTL

\* A ConnSlotInfo never dangles, whatever destroys its room and whoever leaves.
THEOREM InfosNeverDangle == Spec => []InfoNamesItsSeat
<1>1. IInv => InfoNamesItsSeat
  BY DEF IInv, InfosOK
<1> QED
  BY <1>1, Invariance, PTL

\* The counter a room lives and dies by is the number of its CONNECTED seats.
THEOREM CountIsAlwaysExact == Spec => []CountIsExact
<1>1. IInv => CountIsExact
  BY DEF IInv, RoomsOK, GoodRoom, CountIsExact
<1> QED
  BY <1>1, Invariance, PTL

\* Seats are in the states their room's phase allows, and the AI plays those of
\* the seats that are its own.
THEOREM SeatsAlwaysFit == Spec => []SeatsFitThePhase
<1>1. IInv => SeatsFitThePhase
  BY DEF IInv, RoomsOK, GoodRoom, SeatsFitThePhase
<1> QED
  BY <1>1, Invariance, PTL

=============================================================================
