-------------------------- MODULE ServerNetStepProofs --------------------------
(*****************************************************************************)
(* What no step of ServerNet does, for any number of seats, rooms,           *)
(* connections and clients: the refinement of SeatLifecycle, the grace       *)
(* period, the codes of the rooms, the results of the games and the owners   *)
(* of the seats.                                                             *)
(*                                                                           *)
(* The steps are described twice: by what they do to the rooms (RoomsStep:   *)
(* flags, one room rewritten, all ticked, the finished ones cleaned up) and  *)
(* by what they do to a connection (Hung or Held).  The properties only look *)
(* at these.                                                                 *)
(*****************************************************************************)
EXTENDS ServerNetProofs, SequenceTheorems

\* Nothing of a room changes but its flags and its wait for the lobby.
SameSeats(room, next) ==
  next.status = room.status /\ next.code = room.code /\ next.slots = room.slots

\* Room r is opened by the lobby, or by a player for its first seat.
Opened(r, next) ==
  \E code \in FreshCodes :
    /\ ~Active(r)
    /\ \/ next = WaitingRoom(code)
       \/ \E i \in Conns, token \in Tokens, n \in Nat :
            next = RoomJoin(WaitingRoom(code), 0, i, token, n)

\* A handshake takes seat s of room r, and leaves it again when memory is short.
Taken(r, s, taken) ==
  \E i \in Conns :
    /\ HandshakeOn(i)
    /\ \/ /\ Joins(Msg(i), r, s)
          /\ taken = RoomJoin(rooms[r], s, i, Msg(i).token, sessions + 1)
       \/ /\ Returns(Msg(i), r, s)
          /\ taken = RoomReconnect(rooms[r], s, i)

SeatTaken(r, next) ==
  \E s \in Seats : Taken(r, s, next) \/ \E taken : Taken(r, s, taken) /\ next = RoomLeave(taken, s)

SeatLeft(r, next) ==
  \E s \in Seats, i \in Conns : Serves(rooms[r], s, i) /\ next = RoomLeave(rooms[r], s)

BotMoved(r, next) ==
  \E s \in Seats : \/ CanAddAI(rooms[r], s) /\ next = RoomAddAI(rooms[r], s)
                   \/ CanRemoveAI(rooms[r], s) /\ next = RoomRemoveAI(rooms[r], s)

Started(r, next) == CanStart(rooms[r]) /\ next = RoomStart(rooms[r])

OneRoomStep ==
  \E r \in Rooms : \E next :
    /\ Opened(r, next) \/ SeatTaken(r, next) \/ SeatLeft(r, next) \/ BotMoved(r, next)
         \/ Started(r, next)
    /\ rooms' = [rooms EXCEPT ![r] = next]

\* Nothing, or only flags of the rooms change.
FlagsStep == rooms' = rooms \/ (\E r \in Rooms : LobbyEloResult(r)) \/ Broadcast

RoomsStep == FlagsStep \/ OneRoomStep \/ Tick \/ Cleanup

-----------------------------------------------------------------------------
(* Every step is one of these.                                               *)

LEMMA FlagsStepSeats ==
  ASSUME IInv, FlagsStep, NEW r \in Rooms
  PROVE  SameSeats(rooms[r], rooms'[r])
<1>1. CASE rooms' = rooms
  BY <1>1 DEF SameSeats
<1>2. CASE \E q \in Rooms : LobbyEloResult(q)
  <2>1. PICK q \in Rooms : rooms' = [rooms EXCEPT ![q].elo_received = TRUE, ![q].changed = TRUE]
    BY <1>2 DEF LobbyEloResult
  <2> QED
    BY <2>1 DEF IInv, RoomsOK, RoomRecord, SameSeats
<1>3. CASE Broadcast
  <2>1. PICK due \in SUBSET Rooms :
          rooms' = [q \in Rooms |-> [rooms[q] EXCEPT !.changed = @ /\ q \notin due]]
    BY <1>3 DEF Broadcast
  <2> QED
    BY <2>1 DEF IInv, RoomsOK, RoomRecord, SameSeats
<1> QED
  BY <1>1, <1>2, <1>3 DEF FlagsStep

LEMMA HandshakeSteps ==
  ASSUME IInv, NEW i \in Conns,
         \/ HandshakeCreate(i) \/ HandshakeJoin(i) \/ HandshakeReconnect(i)
         \/ HandshakeNoMemory(i)
  PROVE  OneRoomStep
<1>1. /\ HandshakeOn(i) /\ Msg(i).token \in Tokens /\ sessions + 1 \in Nat
  BY ConsumedOK DEF IInv, RestOK, HandshakeCreate, HandshakeJoin, HandshakeReconnect,
                    HandshakeNoMemory, HandshakeOn, Message, Tokens
<1>2. CASE HandshakeCreate(i)
  <2>1. PICK r \in Rooms, code \in Codes :
          /\ Opens(Msg(i), r, code)
          /\ Seated(i, r, 0, RoomJoin(WaitingRoom(code), 0, i, Msg(i).token, sessions + 1))
    BY <1>2 DEF HandshakeCreate
  <2> DEFINE next == RoomJoin(WaitingRoom(code), 0, i, Msg(i).token, sessions + 1)
  <2>2. Opened(r, next)
    BY <1>1, <2>1 DEF Opens, Opened, FreeRoom, IsFirst
  <2> QED
    BY <2>1, <2>2 DEF Seated, OneRoomStep
<1>3. CASE HandshakeJoin(i) \/ HandshakeReconnect(i)
  <2>1. PICK r \in Rooms, s \in Seats : \E next : Taken(r, s, next) /\ Seated(i, r, s, next)
    BY <1>1, <1>3 DEF HandshakeJoin, HandshakeReconnect, Taken
  <2>2. PICK next : Taken(r, s, next) /\ rooms' = [rooms EXCEPT ![r] = next]
    BY <2>1 DEF Seated
  <2> QED
    BY <2>2 DEF SeatTaken, OneRoomStep
<1>4. CASE HandshakeNoMemory(i)
  <2>1. PICK r \in Rooms, s \in Seats :
          \E taken : Taken(r, s, taken) /\ rooms' = [rooms EXCEPT ![r] = RoomLeave(taken, s)]
    BY <1>1, <1>4 DEF HandshakeNoMemory, Taken
  <2> QED
    BY <2>1 DEF SeatTaken, OneRoomStep
<1> QED
  BY <1>2, <1>3, <1>4

LEMMA CleanupConnectionSteps ==
  ASSUME IInv, NEW i \in Conns, NEW box, CleanupConnection(i, box)
  PROVE  RoomsStep
<1>1. CASE user_data[i] = NoInfo
  BY <1>1 DEF CleanupConnection, FlagsStep, RoomsStep
<1>2. CASE user_data[i] # NoInfo
  <2> DEFINE r == user_data[i].room_index
             s == user_data[i].seat
  <2>1. r \in Rooms /\ s \in Seats /\ Serves(rooms[r], s, i)
    BY <1>2 DEF IInv, InfosOK, InfoNamesItsSeat, ConnSlotInfo
  <2>2. rooms' = [rooms EXCEPT ![r] = RoomLeave(rooms[r], s)]
    BY <1>2 DEF CleanupConnection
  <2>3. SeatLeft(r, RoomLeave(rooms[r], s))
    BY <2>1 DEF SeatLeft
  <2> QED
    BY <2>1, <2>2, <2>3 DEF OneRoomStep, RoomsStep
<1> QED
  BY <1>1, <1>2

LEMMA RequestSteps ==
  ASSUME IInv, NEW i \in Conns, AddAI(i) \/ RemoveAI(i) \/ StartGame(i)
  PROVE  OneRoomStep
<1>1. CASE AddAI(i) \/ RemoveAI(i)
  <2>1. PICK r \in Rooms : \E next : BotMoved(r, next) /\ rooms' = [rooms EXCEPT ![r] = next]
    BY <1>1 DEF AddAI, RemoveAI, BotMoved
  <2> QED
    BY <2>1 DEF OneRoomStep
<1>2. CASE StartGame(i)
  BY <1>2 DEF StartGame, Started, OneRoomStep
<1> QED
  BY <1>1, <1>2

LEMMA LobbySteps ==
  ASSUME IInv, NEW r \in Rooms,
         LobbyEloResult(r) \/ \E code \in Codes : LobbyCreateRoom(r, code)
  PROVE  RoomsStep
<1>1. CASE LobbyEloResult(r)
  BY <1>1 DEF FlagsStep, RoomsStep
<1>2. CASE \E code \in Codes : LobbyCreateRoom(r, code)
  <2>1. PICK code \in Codes : LobbyCreateRoom(r, code)
    BY <1>2
  <2>2. Opened(r, WaitingRoom(code)) /\ rooms' = [rooms EXCEPT ![r] = WaitingRoom(code)]
    BY <2>1 DEF LobbyCreateRoom, Opened, FreeRoom, IsFirst
  <2> QED
    BY <2>2 DEF OneRoomStep, RoomsStep
<1> QED
  BY <1>1, <1>2

LEMMA EveryStep ==
  ASSUME IInv, [Next]_vars
  PROVE  RoomsStep
<1>1. CASE UNCHANGED vars
  BY <1>1 DEF vars, FlagsStep, RoomsStep
<1>2. CASE Environment
  BY <1>2, LobbySteps
  DEF Environment, ClientConnect, ClientSend, ClientQuit, ClientDrop, FlagsStep, RoomsStep
<1>3. ASSUME NEW i \in Conns, Handle(i) \/ DetectDrop(i)
      PROVE  RoomsStep
  <2>1. CASE HandshakeReject(i) \/ Ignored(i)
    BY <2>1 DEF HandshakeReject, Ignored, FlagsStep, RoomsStep
  <2>2. CASE Disconnect(i) \/ DetectDrop(i)
    BY <2>2, CleanupConnectionSteps DEF Disconnect, DetectDrop
  <2> QED
    BY <1>3, <2>1, <2>2, HandshakeSteps, RequestSteps DEF Handle, RoomsStep
<1>4. CASE Broadcast
  BY <1>4 DEF FlagsStep, RoomsStep
<1>5. CASE Poll \/ AcceptRefused \/ AcceptDone \/ RecvDone \/ DetectDone \/ \E i \in Conns : Accept(i)
  BY <1>5 DEF Poll, AcceptRefused, AcceptDone, RecvDone, DetectDone, Accept, FlagsStep, RoomsStep
<1> QED
  BY <1>1, <1>2, <1>3, <1>4, <1>5 DEF Next, Server, RoomsStep

\* A handshake that takes a seat.
LEMMA TakenGood ==
  ASSUME IInv, NEW r \in Rooms, NEW s \in Seats, NEW taken, Taken(r, s, taken)
  PROVE  /\ rooms[r].status \in {"WAITING", "PLAYING"} /\ taken.status = rooms[r].status
         /\ GoodRoom(taken) /\ taken.code = rooms[r].code
         /\ taken.slots[s].status = "CONNECTED"
<1>1. PICK i \in Conns :
        /\ HandshakeOn(i)
        /\ \/ CanJoin(rooms[r], s) /\ taken = RoomJoin(rooms[r], s, i, Msg(i).token, sessions + 1)
           \/ CanReconnect(rooms[r], s, Msg(i).token) /\ taken = RoomReconnect(rooms[r], s, i)
  BY DEF Taken, Joins, Returns
<1>2. /\ GoodRoom(rooms[r]) /\ rooms[r] \in RoomRecord
      /\ Msg(i).token \in Tokens /\ sessions + 1 \in Tokens
  BY <1>1, ConsumedOK DEF IInv, RoomsOK, RestOK, HandshakeOn, Message, Tokens
<1>3. CASE CanJoin(rooms[r], s) /\ taken = RoomJoin(rooms[r], s, i, Msg(i).token, sessions + 1)
  BY <1>2, <1>3, RoomJoinGood, RoomJoinSeats DEF CanJoin, Serves
<1>4. CASE CanReconnect(rooms[r], s, Msg(i).token) /\ taken = RoomReconnect(rooms[r], s, i)
  <2>1. /\ GoodRoom(taken) /\ taken.code = rooms[r].code /\ Serves(taken, s, i)
        /\ taken.status = rooms[r].status
    BY <1>2, <1>4, RoomReconnectGood, RoomReconnectSeats
  <2> QED
    BY <1>4, <2>1 DEF CanReconnect, Serves
<1> QED
  BY <1>1, <1>3, <1>4

\* A tick of a game that goes on: the AI takes over what was left too long.
LEMMA TickSeats ==
  ASSUME NEW room, GoodRoom(room), room.status = "PLAYING", NEW moved, NEW over
  PROVE  LET next == Played(UpdateTimers(room), moved, over)
         IN  /\ next.status \in {"PLAYING", "FINISHED"} /\ next.code = room.code
             /\ Statuses(next) = [s \in Seats |-> IF GraceOver(room.slots[s]) THEN "AI"
                                                  ELSE room.slots[s].status]
<1> DEFINE ticked == UpdateTimers(room)
           next == Played(ticked, moved, over)
<1>1. /\ ticked \in RoomRecord /\ ticked.status = "PLAYING"
      /\ \A s \in Seats : ticked.slots[s] = TickedSlot(room.slots[s])
  BY UpdateTimersGood DEF GoodRoom
<1>2. ticked.code = room.code
  BY DEF UpdateTimers, GoodRoom, RoomRecord
<1> HIDE DEF ticked
<1>3. /\ next.slots = ticked.slots /\ next.code = ticked.code
      /\ next.status \in {"PLAYING", "FINISHED"}
  BY <1>1 DEF Played, RoomRecord
<1>4. \A s \in Seats : TickedSlot(room.slots[s]).status =
                         IF GraceOver(room.slots[s]) THEN "AI" ELSE room.slots[s].status
  BY TickedSlotGood DEF GoodRoom, RoomRecord
<1> HIDE DEF next
<1> QED
  BY <1>1, <1>2, <1>3, <1>4 DEF Statuses, next, ticked

-----------------------------------------------------------------------------
(* Every room lives the life of SeatLifecycle.                               *)

\* The actions of SeatLifecycle in terms of the room before and after a step.
Had(r, status) == {s \in Seats : Statuses(rooms[r])[s] = status}

LEMMA LifeIsSeen ==
  ASSUME NEW r \in Rooms
  PROVE  LET phase == rooms[r].status
             next == rooms'[r].status
             old == Statuses(rooms[r])
             new == Statuses(rooms'[r])
             empty == [s \in Seats |-> "EMPTY"]
         IN  /\ /\ phase = "INACTIVE" /\ next = "WAITING"
                /\ new = empty \/ \E s \in Seats : new = [empty EXCEPT ![s] = "CONNECTED"]
                => Lifecycle(r)!Open
             /\ /\ phase = "WAITING" /\ next = phase
                /\ \E s \in Had(r, "EMPTY"), who \in {"CONNECTED", "AI"} : new = [old EXCEPT ![s] = who]
                => Lifecycle(r)!Fill
             /\ /\ phase = "WAITING" /\ next = phase
                /\ \E s \in Had(r, "CONNECTED") \cup Had(r, "AI") : new = [old EXCEPT ![s] = "EMPTY"]
                => Lifecycle(r)!Free
             /\ /\ phase = "WAITING" /\ next = "INACTIVE" /\ new = empty
                /\ \A s, t \in Had(r, "CONNECTED") : s = t
                => Lifecycle(r)!Desert
             /\ /\ phase = "WAITING" /\ next = "PLAYING" /\ Had(r, "EMPTY") = {} /\ new = old
                => Lifecycle(r)!Start
             /\ /\ phase \in {"PLAYING", "FINISHED"} /\ next = phase
                /\ \E s \in Had(r, "CONNECTED") : new = [old EXCEPT ![s] = "DISCONNECTED"]
                => Lifecycle(r)!Drop
             /\ /\ phase = "PLAYING" /\ next = phase
                /\ \E s \in Had(r, "DISCONNECTED") \cup Had(r, "AI"), who \in {"CONNECTED", "DISCONNECTED"} :
                     new = [old EXCEPT ![s] = who]
                => Lifecycle(r)!Return
             /\ /\ phase = "PLAYING" /\ next \in {"PLAYING", "FINISHED"}
                /\ \E S \in SUBSET Had(r, "DISCONNECTED") :
                     new = [s \in Seats |-> IF s \in S THEN "AI" ELSE old[s]]
                => Lifecycle(r)!PlayOn
             /\ phase = "PLAYING" /\ next = "INACTIVE" /\ Had(r, "CONNECTED") = {} /\ new = empty
                => Lifecycle(r)!Abandon
             /\ phase = "FINISHED" /\ next = "INACTIVE" /\ new = empty
                => Lifecycle(r)!Close
             /\ next = phase /\ new = old => UNCHANGED Lifecycle(r)!lifeVars
BY Zenon DEF Statuses, Had, Lifecycle!With, Lifecycle!AllEmpty, Lifecycle!lifeVars, Lifecycle!Open,
  Lifecycle!Fill, Lifecycle!Free, Lifecycle!Desert, Lifecycle!Start, Lifecycle!Drop,
  Lifecycle!Return, Lifecycle!PlayOn, Lifecycle!Abandon, Lifecycle!Close

LEMMA OpenedLives ==
  ASSUME IInv, NEW r \in Rooms, Opened(r, rooms'[r])
  PROVE  Lifecycle(r)!Next
<1>1. PICK code \in FreshCodes :
        /\ rooms[r].status = "INACTIVE"
        /\ \/ rooms'[r] = WaitingRoom(code)
           \/ \E i \in Conns, token \in Tokens, n \in Nat :
                rooms'[r] = RoomJoin(WaitingRoom(code), 0, i, token, n)
  BY DEF Opened, Active
<1>2. /\ WaitingRoom(code).status = "WAITING" /\ WaitingRoom(code) \in RoomRecord
      /\ Statuses(WaitingRoom(code)) = [s \in Seats |-> "EMPTY"]
  BY NewRoomSeats, NewRoomGood DEF WaitingRoom, GoodRoom, FreshCodes
<1>3. 0 \in Seats
  BY NumSeatsAssumption DEF Seats
<1>4. /\ rooms'[r].status = "WAITING"
      /\ \/ Statuses(rooms'[r]) = [s \in Seats |-> "EMPTY"]
         \/ Statuses(rooms'[r]) = [[s \in Seats |-> "EMPTY"] EXCEPT ![0] = "CONNECTED"]
  BY <1>1, <1>2, <1>3, RoomJoinSeats
<1>5. Lifecycle(r)!Open
  BY <1>1, <1>3, <1>4, LifeIsSeen DEF Had
<1> QED
  BY <1>5 DEF Lifecycle!Next

\* A seat of a waiting room is taken; it may be left in the same step.
LEMMA SeatTakenLives ==
  ASSUME IInv, NEW r \in Rooms, SeatTaken(r, rooms'[r])
  PROVE  [Lifecycle(r)!Next]_(Lifecycle(r)!lifeVars)
<1> DEFINE room == rooms[r]
           next == rooms'[r]
           old == Statuses(room)
<1>0. PICK s \in Seats : \E taken :
        Taken(r, s, taken) /\ (next = taken \/ next = RoomLeave(taken, s))
  BY DEF SeatTaken
<1>1. PICK taken : Taken(r, s, taken) /\ (next = taken \/ next = RoomLeave(taken, s))
  BY <1>0
<1>2. PICK i \in Conns :
        /\ Handling(i) /\ Msg(i).type = "HANDSHAKE"
        /\ \/ CanJoin(room, s) /\ taken = RoomJoin(room, s, i, Msg(i).token, sessions + 1)
           \/ CanReconnect(room, s, Msg(i).token) /\ taken = RoomReconnect(room, s, i)
  BY <1>1 DEF Taken, HandshakeOn, Joins, Returns
<1>3. /\ Msg(i).token \in Tokens /\ sessions + 1 \in Tokens
      /\ GoodRoom(room) /\ room \in RoomRecord
  BY <1>2, ConsumedOK DEF IInv, RestOK, RoomsOK, GoodRoom, Message, Tokens
<1>4. /\ GoodRoom(taken) /\ taken.status = room.status /\ Serves(taken, s, i)
      /\ Statuses(taken) = [old EXCEPT ![s] = "CONNECTED"]
  BY <1>2, <1>3, RoomJoinGood, RoomJoinSeats, RoomReconnectGood, RoomReconnectSeats
<1>5. /\ old \in [Seats -> SlotStatus]
      /\ \/ room.status = "WAITING" /\ old[s] = "EMPTY"
         \/ room.status = "PLAYING" /\ old[s] \in {"DISCONNECTED", "AI"}
  BY <1>2, <1>3 DEF CanJoin, CanReconnect, IsFirst, SeatsWith, Statuses, RoomRecord, PlayerSlot
<1>6. \/ /\ room.status = "WAITING" /\ next = InactiveRoom
         /\ \A t \in Seats : taken.slots[t].status = "CONNECTED" => t = s
      \/ /\ next.status = room.status
         /\ \/ Statuses(next) = [old EXCEPT ![s] = "CONNECTED"]
            \/ /\ room.status = "WAITING"
               /\ Statuses(next) = [old EXCEPT ![s] = "EMPTY"]
            \/ /\ room.status = "PLAYING"
               /\ Statuses(next) = [old EXCEPT ![s] = "DISCONNECTED"]
  <2>1. CASE next = taken
    BY <1>4, <2>1
  <2>2. CASE next = RoomLeave(taken, s)
    <3>1. taken.status # "INACTIVE" /\ taken.slots[s].status = "CONNECTED"
      BY <1>4 DEF Serves
    <3>2. \A x : [[old EXCEPT ![s] = "CONNECTED"] EXCEPT ![s] = x] = [old EXCEPT ![s] = x]
      BY <1>5
    <3> QED
      BY <1>4, <1>5, <2>2, <3>1, <3>2, RoomLeaveSeats
  <2> QED
    BY <1>1, <2>1, <2>2
<1>7. CASE /\ room.status = "WAITING" /\ next = InactiveRoom
           /\ \A t \in Seats : taken.slots[t].status = "CONNECTED" => t = s
  <2>1. \A t \in Seats : old[t] # "CONNECTED"
    BY <1>4, <1>5, <1>7 DEF Statuses
  <2>2. next.status = "INACTIVE" /\ Statuses(next) = [t \in Seats |-> "EMPTY"]
    BY <1>7, NewRoomSeats DEF InactiveRoom
  <2>3. Lifecycle(r)!Desert
    BY <1>7, <2>1, <2>2, LifeIsSeen DEF Had
  <2> QED
    BY <2>3 DEF Lifecycle!Next
<1>8. CASE next.status = room.status /\ room.status = "WAITING" /\ Statuses(next) = [old EXCEPT ![s] = "CONNECTED"]
  <2>1. Lifecycle(r)!Fill
    BY <1>5, <1>8, LifeIsSeen DEF Had
  <2> QED
    BY <2>1 DEF Lifecycle!Next
<1>9. CASE next.status = room.status /\ room.status = "WAITING" /\ Statuses(next) = [old EXCEPT ![s] = "EMPTY"]
  <2>1. Statuses(next) = old
    BY <1>5, <1>9
  <2> QED
    BY <1>9, <2>1, LifeIsSeen
<1>10. CASE /\ next.status = room.status /\ room.status = "PLAYING"
            /\ \/ Statuses(next) = [old EXCEPT ![s] = "CONNECTED"]
               \/ Statuses(next) = [old EXCEPT ![s] = "DISCONNECTED"]
  <2>1. Lifecycle(r)!Return
    BY <1>5, <1>10, LifeIsSeen DEF Had
  <2> QED
    BY <2>1 DEF Lifecycle!Next
<1> QED
  BY <1>5, <1>6, <1>7, <1>8, <1>9, <1>10

LEMMA SeatLeftLives ==
  ASSUME IInv, NEW r \in Rooms, SeatLeft(r, rooms'[r])
  PROVE  Lifecycle(r)!Next
<1> DEFINE room == rooms[r]
           next == rooms'[r]
           old == Statuses(room)
<1>1. PICK s \in Seats, i \in Conns : Serves(room, s, i) /\ next = RoomLeave(room, s)
  BY DEF SeatLeft
<1>2. GoodRoom(room) /\ room.status \in RoomStatus \ {"INACTIVE"} /\ old[s] = "CONNECTED"
  BY <1>1 DEF IInv, RoomsOK, GoodRoom, RoomRecord, Serves, Statuses
<1>3. CASE /\ room.status = "WAITING" /\ next = InactiveRoom
           /\ \A t \in Seats : room.slots[t].status = "CONNECTED" => t = s
  <2>1. next.status = "INACTIVE" /\ Statuses(next) = [t \in Seats |-> "EMPTY"]
    BY <1>3, NewRoomSeats DEF InactiveRoom
  <2>2. \A t \in Seats : old[t] = "CONNECTED" => t = s
    BY <1>3 DEF Statuses
  <2>3. Lifecycle(r)!Desert
    BY <1>3, <2>1, <2>2, LifeIsSeen DEF Had
  <2> QED
    BY <2>3 DEF Lifecycle!Next
<1>4. CASE next.status = "WAITING" /\ room.status = "WAITING" /\ Statuses(next) = [old EXCEPT ![s] = "EMPTY"]
  <2>1. Lifecycle(r)!Free
    BY <1>2, <1>4, LifeIsSeen DEF Had
  <2> QED
    BY <2>1 DEF Lifecycle!Next
<1>5. CASE /\ next.status = room.status /\ room.status # "WAITING"
           /\ Statuses(next) = [old EXCEPT ![s] = "DISCONNECTED"]
  <2>1. Lifecycle(r)!Drop
    BY <1>2, <1>5, LifeIsSeen DEF Had, RoomStatus
  <2> QED
    BY <2>1 DEF Lifecycle!Next
<1> QED
  BY <1>1, <1>2, <1>3, <1>4, <1>5, RoomLeaveSeats DEF Serves

LEMMA BotMovedLives ==
  ASSUME IInv, NEW r \in Rooms, BotMoved(r, rooms'[r])
  PROVE  Lifecycle(r)!Next
<1> DEFINE room == rooms[r]
           next == rooms'[r]
           old == Statuses(room)
<1>1. PICK s \in Seats : \/ CanAddAI(room, s) /\ next = RoomAddAI(room, s)
                         \/ CanRemoveAI(room, s) /\ next = RoomRemoveAI(room, s)
  BY DEF BotMoved
<1>2. room \in RoomRecord /\ room.status = "WAITING"
  BY <1>1 DEF IInv, RoomsOK, CanAddAI, CanRemoveAI
<1>3. next.status = "WAITING"
  BY <1>1, <1>2, BotSeats
<1>4. \/ old[s] = "EMPTY" /\ Statuses(next) = [old EXCEPT ![s] = "AI"]
      \/ old[s] = "AI" /\ Statuses(next) = [old EXCEPT ![s] = "EMPTY"]
  <2>1. CASE CanAddAI(room, s) /\ next = RoomAddAI(room, s)
    <3>1. old[s] = "EMPTY"
      BY <2>1 DEF CanAddAI, IsFirst, SeatsWith, Statuses
    <3> QED
      BY <1>2, <2>1, <3>1, BotSeats
  <2>2. CASE CanRemoveAI(room, s) /\ next = RoomRemoveAI(room, s)
    <3>1. old[s] = "AI"
      BY <2>2 DEF CanRemoveAI, IsLast, SeatsWith, Statuses
    <3> QED
      BY <1>2, <2>2, <3>1, BotSeats
  <2> QED
    BY <1>1, <2>1, <2>2
<1>5. CASE old[s] = "EMPTY" /\ Statuses(next) = [old EXCEPT ![s] = "AI"]
  <2>1. Lifecycle(r)!Fill
    BY <1>2, <1>3, <1>5, LifeIsSeen DEF Had
  <2> QED
    BY <2>1 DEF Lifecycle!Next
<1>6. CASE old[s] = "AI" /\ Statuses(next) = [old EXCEPT ![s] = "EMPTY"]
  <2>1. Lifecycle(r)!Free
    BY <1>2, <1>3, <1>6, LifeIsSeen DEF Had
  <2> QED
    BY <2>1 DEF Lifecycle!Next
<1> QED
  BY <1>4, <1>5, <1>6

LEMMA StartedLives ==
  ASSUME IInv, NEW r \in Rooms, Started(r, rooms'[r])
  PROVE  Lifecycle(r)!Next
<1>1. /\ rooms[r] \in RoomRecord /\ rooms[r].status = "WAITING"
      /\ \A s \in Seats : Statuses(rooms[r])[s] # "EMPTY"
      /\ rooms'[r] = RoomStart(rooms[r])
  BY DEF IInv, RoomsOK, Started, CanStart, SeatsWith, Statuses
<1>2. rooms'[r].status = "PLAYING" /\ Statuses(rooms'[r]) = Statuses(rooms[r])
  BY <1>1, RoomStartSeats
<1>3. Lifecycle(r)!Start
  BY <1>1, <1>2, LifeIsSeen DEF Had
<1> QED
  BY <1>3 DEF Lifecycle!Next

\* Tick plays on in every game but those it destroys, where nobody is CONNECTED.
LEMMA TickLives ==
  ASSUME IInv, Tick, NEW r \in Rooms
  PROVE  [Lifecycle(r)!Next]_(Lifecycle(r)!lifeVars)
<1> DEFINE room == rooms[r]
           next == rooms'[r]
           old == Statuses(room)
<1>1. /\ GoodRoom(room)
      /\ \/ /\ room.status = "PLAYING" /\ Abandoned(UpdateTimers(room)) /\ next = InactiveRoom
         \/ /\ room.status = "PLAYING" /\ \E moved, over : next = Played(UpdateTimers(room), moved, over)
         \/ next = room
  BY DEF IInv, RoomsOK, Tick
<1>2. CASE room.status = "PLAYING" /\ Abandoned(UpdateTimers(room)) /\ next = InactiveRoom
  <2>1. UpdateTimers(room).connected_count = room.connected_count
    BY <1>1 DEF UpdateTimers, GoodRoom, RoomRecord
  <2>2. \A s \in Seats : old[s] # "CONNECTED"
    <3>1. SeatsWith(room, "CONNECTED") = {}
      BY <1>1, <1>2, <2>1, SeatsFinite DEF GoodRoom, CountExact, Abandoned
    <3> QED
      BY <3>1 DEF SeatsWith, Statuses
  <2>3. next.status = "INACTIVE" /\ Statuses(next) = [s \in Seats |-> "EMPTY"]
    BY <1>2, NewRoomSeats DEF InactiveRoom
  <2>4. Lifecycle(r)!Abandon
    BY <1>2, <2>2, <2>3, LifeIsSeen DEF Had
  <2> QED
    BY <2>4 DEF Lifecycle!Next
<1>3. CASE room.status = "PLAYING" /\ \E moved, over : next = Played(UpdateTimers(room), moved, over)
  <2> DEFINE S == {s \in Seats : GraceOver(room.slots[s])}
  <2>1. /\ next.status \in {"PLAYING", "FINISHED"}
        /\ Statuses(next) = [s \in Seats |-> IF GraceOver(room.slots[s]) THEN "AI"
                                             ELSE room.slots[s].status]
    BY <1>1, <1>3, TickSeats
  <2>2. Statuses(next) = [s \in Seats |-> IF s \in S THEN "AI" ELSE old[s]]
    BY <2>1 DEF Statuses
  <2>3. S \in SUBSET Had(r, "DISCONNECTED")
    BY DEF GraceOver, Had, Statuses
  <2> HIDE DEF S
  <2>4. Lifecycle(r)!PlayOn
    BY <1>3, <2>1, <2>2, <2>3, LifeIsSeen
  <2> QED
    BY <2>4 DEF Lifecycle!Next
<1>4. CASE next = room
  BY <1>4, LifeIsSeen
<1> QED
  BY <1>1, <1>2, <1>3, <1>4

LEMMA CleanupLives ==
  ASSUME IInv, Cleanup, NEW r \in Rooms
  PROVE  [Lifecycle(r)!Next]_(Lifecycle(r)!lifeVars)
<1>1. rooms[r] \in RoomRecord
  BY DEF IInv, RoomsOK
<1>2. \/ rooms[r].status = "FINISHED" /\ rooms'[r] = InactiveRoom
      \/ \E n : rooms'[r] = [rooms[r] EXCEPT !.elo_wait_timer = n]
  BY Zenon DEF Cleanup
<1>3. CASE rooms[r].status = "FINISHED" /\ rooms'[r] = InactiveRoom
  <2>1. rooms'[r].status = "INACTIVE" /\ Statuses(rooms'[r]) = [s \in Seats |-> "EMPTY"]
    BY <1>3, NewRoomSeats DEF InactiveRoom
  <2>2. Lifecycle(r)!Close
    BY <1>3, <2>1, LifeIsSeen
  <2> QED
    BY <2>2 DEF Lifecycle!Next
<1>4. CASE \E n : rooms'[r] = [rooms[r] EXCEPT !.elo_wait_timer = n]
  <2>1. rooms'[r].status = rooms[r].status /\ rooms'[r].slots = rooms[r].slots
    BY <1>1, <1>4 DEF RoomRecord
  <2> QED
    BY <2>1, LifeIsSeen DEF Statuses
<1> QED
  BY <1>2, <1>3, <1>4

LEMMA StepLives ==
  ASSUME IInv, [Next]_vars, NEW r \in Rooms
  PROVE  [Lifecycle(r)!Next]_(Lifecycle(r)!lifeVars)
<1>1. ASSUME SameSeats(rooms[r], rooms'[r])
      PROVE  UNCHANGED Lifecycle(r)!lifeVars
  BY <1>1, LifeIsSeen DEF SameSeats, Statuses
<1>2. CASE OneRoomStep
  <2>0. PICK q \in Rooms : \E next :
          /\ Opened(q, next) \/ SeatTaken(q, next) \/ SeatLeft(q, next) \/ BotMoved(q, next)
               \/ Started(q, next)
          /\ rooms' = [rooms EXCEPT ![q] = next]
    BY <1>2 DEF OneRoomStep
  <2>1. PICK next :
          /\ Opened(q, next) \/ SeatTaken(q, next) \/ SeatLeft(q, next) \/ BotMoved(q, next)
               \/ Started(q, next)
          /\ rooms' = [rooms EXCEPT ![q] = next]
    BY <2>0
  <2>2. rooms'[r] = IF q = r THEN next ELSE rooms[r]
    BY <2>1 DEF IInv, RoomsOK
  <2>3. CASE q = r
    BY <2>1, <2>2, <2>3, OpenedLives, SeatTakenLives, SeatLeftLives, BotMovedLives, StartedLives
  <2>4. CASE q # r
    BY <1>1, <2>2, <2>4 DEF SameSeats
  <2> QED
    BY <2>3, <2>4
<1> QED
  BY <1>1, <1>2, EveryStep, FlagsStepSeats, TickLives, CleanupLives DEF RoomsStep

LEMMA InitLives == Init => \A r \in Rooms : Lifecycle(r)!Init
BY DEF Init, Lifecycle!Init, Lifecycle!AllEmpty, InactiveRoom, NewRoom, EmptySlot

\* ServerNet implements SeatLifecycle for every room: whatever clients, network
\* and lobby do between the stages of an update, a seat and its room only go
\* through the states that server/room.h and the operations of room.c promise.
THEOREM RoomsLiveAsPromised == Spec => RoomsLiveTheirLife
<1>1. IInv /\ [Next]_vars => [\A r \in Rooms : [Lifecycle(r)!Next]_(Lifecycle(r)!lifeVars)]_rooms
  BY StepLives
<1> QED
  BY <1>1, InitLives, Invariance, PTL DEF Spec, RoomsLiveTheirLife

-----------------------------------------------------------------------------
(* The grace period.                                                         *)

\* The second half of GraceIsHonoured for room r: only a seat whose time is up
\* goes to the AI.
TakenOverInTime(r) ==
  \A s \in Seats :
    /\ rooms[r].slots[s].status = "DISCONNECTED"
    /\ rooms'[r].status = "PLAYING" /\ rooms'[r].slots[s].status = "AI"
    => rooms[r].slots[s].disconnect_timer = GraceTicks - 1

Deserted(r) ==
  \A s \in Seats : rooms[r].slots[s].status = "AI" \/ GraceOver(rooms[r].slots[s])

LEMMA TickGrace ==
  ASSUME IInv, Tick, NEW r \in Rooms, rooms[r].status = "PLAYING"
  PROVE  /\ rooms'[r].status = "INACTIVE" => Deserted(r)
         /\ TakenOverInTime(r)
<1> DEFINE room == rooms[r]
           next == rooms'[r]
           ticked == UpdateTimers(room)
<1>1. /\ GoodRoom(room) /\ \A s \in Seats : room.slots[s] \in PlayerSlot
      /\ \/ Abandoned(ticked) /\ next = InactiveRoom
         \/ \E moved, over : next = Played(ticked, moved, over)
  BY DEF IInv, RoomsOK, Tick, GoodRoom, RoomRecord
<1>2. /\ GoodRoom(ticked)
      /\ \A s \in Seats : ticked.slots[s].status =
                            IF GraceOver(room.slots[s]) THEN "AI" ELSE room.slots[s].status
  BY <1>1, UpdateTimersGood, TickedSlotGood
<1> HIDE DEF ticked
<1>3. CASE Abandoned(ticked) /\ next = InactiveRoom
  <2>1. next.status = "INACTIVE"
    BY <1>3, NewRoomSeats DEF InactiveRoom
  <2>2. SeatsWith(ticked, "CONNECTED") = {} /\ SeatsWith(ticked, "DISCONNECTED") = {}
    BY <1>2, <1>3, SeatsFinite DEF GoodRoom, CountExact, Abandoned
  <2>3. ASSUME NEW s \in Seats
        PROVE  room.slots[s].status = "AI" \/ GraceOver(room.slots[s])
    <3>1. ticked.slots[s].status \notin {"CONNECTED", "DISCONNECTED"}
      BY <2>2 DEF SeatsWith
    <3>2. room.slots[s].status \in SlotStatus \ {"EMPTY"}
      BY <1>1 DEF GoodRoom, FitsThePhase, PlayerSlot
    <3> QED
      BY <1>2, <3>1, <3>2 DEF SlotStatus
  <2> QED
    BY <2>1, <2>3 DEF Deserted, TakenOverInTime
<1>4. CASE \E moved, over : next = Played(ticked, moved, over)
  <2>1. next.status \in {"PLAYING", "FINISHED"} /\ next.slots = ticked.slots
    <3>1. ticked \in RoomRecord /\ ticked.status = "PLAYING"
      BY <1>1, UpdateTimersGood DEF GoodRoom, ticked
    <3> QED
      BY <1>4, <3>1 DEF Played, RoomRecord
  <2>2. ASSUME NEW s \in Seats, GraceOver(room.slots[s])
        PROVE  room.slots[s].disconnect_timer = GraceTicks - 1
    BY <1>1, <2>2, GraceAssumption DEF GraceOver, PlayerSlot
  <2> QED
    BY <1>2, <2>1, <2>2 DEF Deserted, TakenOverInTime
<1> QED
  BY <1>1, <1>3, <1>4

\* No other step ends a game in progress or gives a seat to the AI.
LEMMA OneRoomGrace ==
  ASSUME IInv, OneRoomStep, NEW r \in Rooms, rooms[r].status = "PLAYING"
  PROVE  /\ rooms'[r].status # "INACTIVE"
         /\ TakenOverInTime(r)
<1> DEFINE room == rooms[r]
           old == Statuses(room)
<1>0. PICK q \in Rooms : \E next :
        /\ Opened(q, next) \/ SeatTaken(q, next) \/ SeatLeft(q, next) \/ BotMoved(q, next)
             \/ Started(q, next)
        /\ rooms' = [rooms EXCEPT ![q] = next]
  BY DEF OneRoomStep
<1>1. PICK next :
        /\ Opened(q, next) \/ SeatTaken(q, next) \/ SeatLeft(q, next) \/ BotMoved(q, next)
             \/ Started(q, next)
        /\ rooms' = [rooms EXCEPT ![q] = next]
  BY <1>0
<1>2. GoodRoom(room) /\ room \in RoomRecord /\ old \in [Seats -> SlotStatus]
      /\ rooms'[r] = IF q = r THEN next ELSE room
  BY <1>1 DEF IInv, RoomsOK, GoodRoom, RoomRecord, PlayerSlot, Statuses
<1>3. CASE q # r
  BY <1>2, <1>3 DEF TakenOverInTime
<1>4. CASE q = r
  <2>1. SeatTaken(r, next) \/ SeatLeft(r, next)
    BY <1>1, <1>4 DEF Opened, Active, BotMoved, CanAddAI, CanRemoveAI, Started, CanStart
  <2>2. /\ next.status = "PLAYING"
        /\ \E s \in Seats : \/ Statuses(next) = [old EXCEPT ![s] = "CONNECTED"]
                            \/ Statuses(next) = [old EXCEPT ![s] = "DISCONNECTED"]
    <3>1. CASE SeatTaken(r, next)
      <4>0. PICK s \in Seats : \E taken :
              Taken(r, s, taken) /\ (next = taken \/ next = RoomLeave(taken, s))
        BY <3>1 DEF SeatTaken
      <4>1. PICK taken : Taken(r, s, taken) /\ (next = taken \/ next = RoomLeave(taken, s))
        BY <4>0
      <4>2. PICK i \in Conns : CanReconnect(room, s, Msg(i).token) /\ taken = RoomReconnect(room, s, i)
        BY <4>1 DEF Taken, Joins, Returns, CanJoin
      <4>3. GoodRoom(taken) /\ taken.status = "PLAYING" /\ Serves(taken, s, i)
            /\ Statuses(taken) = [old EXCEPT ![s] = "CONNECTED"]
        BY <1>2, <4>2, RoomReconnectGood, RoomReconnectSeats
      <4>4. [[old EXCEPT ![s] = "CONNECTED"] EXCEPT ![s] = "DISCONNECTED"]
              = [old EXCEPT ![s] = "DISCONNECTED"]
        BY <1>2
      <4> QED
        BY <4>1, <4>3, <4>4, RoomLeaveSeats DEF Serves
    <3>2. CASE SeatLeft(r, next)
      <4>1. PICK s \in Seats, i \in Conns : Serves(room, s, i) /\ next = RoomLeave(room, s)
        BY <3>2 DEF SeatLeft
      <4>2. room.status = "PLAYING" /\ room.slots[s].status = "CONNECTED"
        BY <4>1 DEF Serves
      <4> QED
        BY <1>2, <4>1, <4>2, RoomLeaveSeats
    <3> QED
      BY <2>1, <3>1, <3>2
  <2> QED
    BY <1>2, <1>4, <2>2 DEF TakenOverInTime, Statuses
<1> QED
  BY <1>3, <1>4

\* A game keeps the seats of the players who dropped for the whole grace period,
\* and is destroyed under its players only when no seat is theirs any more.
THEOREM GraceIsKept == Spec => GraceIsHonoured
<1> DEFINE Kept(r) == /\ rooms'[r].status = "INACTIVE" => Deserted(r)
                      /\ TakenOverInTime(r)
<1>1. ASSUME IInv, [Next]_vars, NEW r \in Rooms, rooms[r].status = "PLAYING"
      PROVE  Kept(r)
  <2>1. CASE SameSeats(rooms[r], rooms'[r])
    BY <1>1, <2>1 DEF SameSeats, TakenOverInTime
  <2>2. CASE Cleanup
    <3>1. \E n : rooms'[r] = [rooms[r] EXCEPT !.elo_wait_timer = n]
      BY Zenon, <1>1, <2>2 DEF Cleanup
    <3>2. SameSeats(rooms[r], rooms'[r])
      BY <3>1 DEF IInv, RoomsOK, RoomRecord, SameSeats
    <3> QED
      BY <1>1, <3>2 DEF SameSeats, TakenOverInTime
  <2> QED
    BY <1>1, <2>1, <2>2, EveryStep, FlagsStepSeats, TickGrace, OneRoomGrace DEF RoomsStep
<1>2. IInv /\ [Next]_vars =>
        [\A r \in Rooms : rooms[r].status = "PLAYING" =>
           /\ rooms'[r].status = "INACTIVE" =>
                \A s \in Seats : \/ rooms[r].slots[s].status = "AI"
                                 \/ GraceOver(rooms[r].slots[s])
           /\ \A s \in Seats :
                /\ rooms[r].slots[s].status = "DISCONNECTED"
                /\ rooms'[r].status = "PLAYING" /\ rooms'[r].slots[s].status = "AI"
                => rooms[r].slots[s].disconnect_timer = GraceTicks - 1]_rooms
  BY <1>1 DEF Deserted, TakenOverInTime
<1> QED
  BY <1>2, Invariance, PTL DEF Spec, GraceIsHonoured

-----------------------------------------------------------------------------
(* The codes.                                                                *)

LEMMA CodesKept ==
  ASSUME IInv, [Next]_vars, CodesAreUnique
  PROVE  CodesAreUnique'
<1>1. \/ \E r \in Rooms : \E code \in FreshCodes : \E next :
            rooms' = [rooms EXCEPT ![r] = next] /\ next.code = code
      \/ \A r \in Rooms : rooms'[r].status # "INACTIVE" => Active(r) /\ rooms'[r].code = rooms[r].code
  <2>1. CASE FlagsStep
    BY <2>1, FlagsStepSeats DEF SameSeats, Active
  <2>2. CASE Tick
    <3>1. ASSUME NEW r \in Rooms, rooms'[r].status # "INACTIVE"
          PROVE  Active(r) /\ rooms'[r].code = rooms[r].code
      <4>1. /\ GoodRoom(rooms[r]) /\ InactiveRoom.status = "INACTIVE"
            /\ \/ rooms'[r] = InactiveRoom \/ rooms'[r] = rooms[r]
               \/ /\ rooms[r].status = "PLAYING"
                  /\ \E moved, over : rooms'[r] = Played(UpdateTimers(rooms[r]), moved, over)
        BY <2>2, NewRoomSeats DEF IInv, RoomsOK, Tick, InactiveRoom
      <4> QED
        BY <3>1, <4>1, TickSeats DEF Active
    <3> QED
      BY <3>1
  <2>3. CASE Cleanup
    <3>1. ASSUME NEW r \in Rooms, rooms'[r].status # "INACTIVE"
          PROVE  Active(r) /\ rooms'[r].code = rooms[r].code
      <4>1. InactiveRoom.status = "INACTIVE" /\ rooms[r] \in RoomRecord
        BY NewRoomSeats DEF IInv, RoomsOK, InactiveRoom
      <4>2. rooms'[r] = InactiveRoom \/ \E n : rooms'[r] = [rooms[r] EXCEPT !.elo_wait_timer = n]
        BY Zenon, <2>3 DEF Cleanup
      <4> QED
        BY <3>1, <4>1, <4>2 DEF RoomRecord, Active
    <3> QED
      BY <3>1
  <2>4. CASE OneRoomStep
    <3>0. PICK q \in Rooms : \E next :
            /\ Opened(q, next) \/ SeatTaken(q, next) \/ SeatLeft(q, next) \/ BotMoved(q, next)
                 \/ Started(q, next)
            /\ rooms' = [rooms EXCEPT ![q] = next]
      BY <2>4 DEF OneRoomStep
    <3>1. PICK next :
            /\ Opened(q, next) \/ SeatTaken(q, next) \/ SeatLeft(q, next) \/ BotMoved(q, next)
                 \/ Started(q, next)
            /\ rooms' = [rooms EXCEPT ![q] = next]
      BY <3>0
    <3> DEFINE room == rooms[q]
    <3>2. GoodRoom(room) /\ room \in RoomRecord /\ InactiveRoom.status = "INACTIVE"
      BY NewRoomSeats DEF IInv, RoomsOK, InactiveRoom
    <3>3. CASE Opened(q, next)
      <4>1. PICK code \in FreshCodes :
              \/ next = WaitingRoom(code)
              \/ \E i \in Conns, token \in Tokens, n \in Nat :
                   next = RoomJoin(WaitingRoom(code), 0, i, token, n)
        BY <3>3 DEF Opened
      <4>2. WaitingRoom(code) \in RoomRecord /\ WaitingRoom(code).code = code /\ 0 \in Seats
        BY NewRoomGood, NewRoomSeats, NumSeatsAssumption DEF GoodRoom, WaitingRoom, FreshCodes, Seats
      <4>3. next.code = code
        BY <4>1, <4>2, RoomJoinSeats
      <4> QED
        BY <3>1, <4>3
    <3>4. CASE ~Opened(q, next)
      <4>1. next.status # "INACTIVE" => Active(q) /\ next.code = room.code
        <5>1. CASE SeatTaken(q, next)
          <6>0. PICK s \in Seats : \E taken :
                  Taken(q, s, taken) /\ (next = taken \/ next = RoomLeave(taken, s))
            BY <5>1 DEF SeatTaken
          <6>1. PICK taken : Taken(q, s, taken) /\ (next = taken \/ next = RoomLeave(taken, s))
            BY <6>0
          <6> QED
            BY <3>2, <6>1, TakenGood, RoomLeaveSeats DEF Active
        <5>2. CASE SeatLeft(q, next)
          BY <3>2, <5>2, RoomLeaveSeats DEF SeatLeft, Serves, Active
        <5>3. CASE BotMoved(q, next)
          BY <3>2, <5>3, BotSeats DEF BotMoved, CanAddAI, CanRemoveAI, Active
        <5>4. CASE Started(q, next)
          BY <3>2, <5>4, RoomStartSeats DEF Started, CanStart, Active
        <5> QED
          BY <3>1, <3>4, <5>1, <5>2, <5>3, <5>4
      <4> QED
        BY <3>1, <4>1 DEF IInv, RoomsOK, Active
    <3> QED
      BY <3>3, <3>4
  <2> QED
    BY <2>1, <2>2, <2>3, <2>4, EveryStep DEF RoomsStep
<1>2. CASE \E r \in Rooms : \E code \in FreshCodes : \E next :
            rooms' = [rooms EXCEPT ![r] = next] /\ next.code = code
  BY <1>2 DEF CodesAreUnique, FreshCodes, RoomWithCode, Active, IInv, RoomsOK
<1>3. CASE \A r \in Rooms : rooms'[r].status # "INACTIVE" => Active(r) /\ rooms'[r].code = rooms[r].code
  BY <1>3 DEF CodesAreUnique, Active
<1> QED
  BY <1>1, <1>2, <1>3

\* A code leads to one room, however rooms are opened - by players or by the
\* lobby - and destroyed.
THEOREM CodesStayUnique == Spec => []CodesAreUnique
<1>1. Init => CodesAreUnique
  BY NewRoomSeats DEF Init, CodesAreUnique, Active, InactiveRoom
<1> QED
  BY <1>1, CodesKept, Invariance, PTL DEF Spec

-----------------------------------------------------------------------------
(* The connections, from one step to the next.                               *)

\* A connection is closed, or it keeps its peer and handles its frames in order.
Hung(j) == conn_state'[j] = "DISCONNECTED" /\ peer'[j] = NoClient /\ inbox'[j] = <<>>

Held(j) ==
  /\ conn_state'[j] = "DISCONNECTED" <=> conn_state[j] = "DISCONNECTED"
  /\ peer'[j] = peer[j] /\ gone'[j] = gone[j] /\ told[j] \subseteq told'[j]
  /\ inbox'[j] = inbox[j] \/ (inbox[j] # <<>> /\ inbox'[j] = Tail(inbox[j]))

LEMMA CloseAllConns ==
  ASSUME NEW S \in SUBSET Conns, NEW out, NEW box, CloseAll(S, out, box), NEW j \in Conns,
         out[j] => conn_state[j] # "DISCONNECTED",
         box[j] = inbox[j] \/ (inbox[j] # <<>> /\ box[j] = Tail(inbox[j]))
  PROVE  /\ Hung(j) \/ Held(j)
         /\ box[j] = <<>> => inbox'[j] = <<>>
BY DEF CloseAll, Closed, Hung, Held

LEMMA ConsumedConns ==
  ASSUME IInv, NEW i \in Conns, Handling(i), NEW j \in Conns
  PROVE  Consumed(i)[j] = inbox[j] \/ (inbox[j] # <<>> /\ Consumed(i)[j] = Tail(inbox[j]))
BY DEF IInv, ConnsOK, Handling, IsFirst, Consumed

LEMMA AnswerConns ==
  ASSUME IInv, NEW i \in Conns, Handling(i), NEW S, Answer(i, S), NEW j \in Conns
  PROVE  Held(j)
BY ConsumedConns DEF Answer, Held

LEMMA HandleConns ==
  ASSUME IInv, NEW i \in Conns, Handle(i), NEW j \in Conns
  PROVE  Hung(j) \/ Held(j)
<1>1. Handling(i)
  BY DEF Handle, HandshakeReject, HandshakeCreate, HandshakeJoin, HandshakeReconnect,
         HandshakeNoMemory, HandshakeOn, AddAI, RemoveAI, StartGame, Ignored, Disconnect
<1>2. CASE HandshakeReject(i) \/ HandshakeNoMemory(i) \/ Disconnect(i)
  <2>1. \E out : CloseAll({i}, out, Consumed(i)) /\ (out[j] => conn_state[j] # "DISCONNECTED")
    <3>1. unsent[j] => conn_state[j] # "DISCONNECTED"
      BY DEF IInv, ConnsOK
    <3>2. \A S : Queued(S)[j] => conn_state[j] # "DISCONNECTED"
      BY QueuedOK DEF IInv
    <3> QED
      BY <1>2, <3>1, <3>2 DEF HandshakeReject, HandshakeNoMemory, Disconnect, CleanupConnection
  <2> QED
    BY <1>1, <2>1, CloseAllConns, ConsumedConns
<1>3. CASE ~(HandshakeReject(i) \/ HandshakeNoMemory(i) \/ Disconnect(i))
  <2>1. \E S : Answer(i, S)
    BY <1>3 DEF Handle, HandshakeCreate, HandshakeJoin, HandshakeReconnect, Seated,
                AddAI, RemoveAI, StartGame, Ignored
  <2> QED
    BY <1>1, <2>1, AnswerConns
<1> QED
  BY <1>2, <1>3

LEMMA ServerConns ==
  ASSUME IInv, Server, NEW j \in Conns, ~Accept(j)
  PROVE  Hung(j) \/ Held(j)
<1>1. CASE Poll
  <2>1. PICK ended \in SUBSET Conns :
          /\ conn_state' = Closed(conn_state, ended, "DISCONNECTED")
          /\ inbox' = Closed(inbox, ended, <<>>)
          /\ peer' = Closed(peer, ended, NoClient)
          /\ gone' = Closed(gone, ended, FALSE)
          /\ told' = Closed(told, ended, {})
    BY <1>1 DEF Poll
  <2> QED
    BY <2>1 DEF Closed, Hung, Held
<1>2. ASSUME NEW i \in Conns, Accept(i)
      PROVE  Held(j)
  BY <1>2 DEF Accept, Held, IInv, ConnsOK
<1>3. ASSUME NEW i \in Conns, DetectDrop(i)
      PROVE  Hung(j) \/ Held(j)
  BY <1>3, CloseAllConns, QueuedOK DEF DetectDrop, CleanupConnection, IInv
<1>4. CASE Broadcast
  BY <1>4 DEF Broadcast, Held
<1>5. CASE Cleanup
  <2>1. PICK stale \in SUBSET Conns : CloseAll(stale, unsent, inbox)
    BY <1>5 DEF Cleanup
  <2> QED
    BY <2>1, CloseAllConns DEF IInv, ConnsOK
<1>6. CASE AcceptRefused \/ AcceptDone \/ RecvDone \/ Tick \/ DetectDone
  BY <1>6 DEF AcceptRefused, AcceptDone, RecvDone, Tick, DetectDone, connVars, Held
<1> QED
  BY <1>1, <1>2, <1>3, <1>4, <1>5, <1>6, HandleConns DEF Server

\* The clients do not close the server's end, the lobby does not reach it.
LEMMA EnvironmentConns ==
  ASSUME IInv, Environment \/ UNCHANGED vars
  PROVE  /\ UNCHANGED <<stage, conn_state, user_data, peer, told, ticket>>
         /\ Environment => stage \in {"poll", "accept"}
         /\ stage = "accept" => inbox' = inbox /\ gone' = gone
BY DEF Environment, ClientConnect, ClientSend, ClientQuit, ClientDrop, LobbyEloResult,
       LobbyCreateRoom, connVars, vars

\* The stages of an update.
LEMMA StageStep ==
  ASSUME IInv, Server
  PROVE  \/ stage' = stage /\ stage \in {"accept", "recv", "detect"}
         \/ stage = "poll" /\ stage' = "accept"
         \/ stage = "accept" /\ stage' = "recv"
         \/ stage = "recv" /\ stage' = "tick" /\ \A i \in Conns : inbox[i] = <<>>
         \/ stage = "tick" /\ stage' = "broadcast"
         \/ stage = "broadcast" /\ stage' = "cleanup" /\ Broadcast
         \/ stage = "cleanup" /\ stage' = "detect" /\ Cleanup
         \/ stage = "detect" /\ stage' = "poll"
<1>1. ASSUME NEW i \in Conns, Accept(i) \/ DetectDrop(i)
      PROVE  stage' = stage /\ stage \in {"accept", "detect"}
  BY <1>1 DEF Accept, DetectDrop, CleanupConnection
<1>2. ASSUME NEW i \in Conns, Handle(i)
      PROVE  stage' = stage /\ stage = "recv"
  BY <1>2 DEF Handle, HandshakeReject, HandshakeCreate, HandshakeJoin, HandshakeReconnect, Seated,
         HandshakeNoMemory, HandshakeOn, AddAI, RemoveAI, StartGame, Ignored, Disconnect,
         CleanupConnection, Handling
<1>3. CASE Poll \/ AcceptRefused \/ AcceptDone
  BY <1>3 DEF Poll, AcceptRefused, AcceptDone
<1>4. CASE RecvDone \/ Tick
  BY <1>4 DEF RecvDone, Tick
<1>5. CASE Broadcast \/ Cleanup \/ DetectDone
  BY <1>5 DEF Broadcast, Cleanup, DetectDone
<1> QED
  BY <1>1, <1>2, <1>3, <1>4, <1>5 DEF Server

-----------------------------------------------------------------------------
(* The result of a game.                                                     *)

\* A connection of a finished room was told the result, with the ratings once the
\* lobby has sent them, or the room is marked for a broadcast; which is before the
\* rooms are cleaned up.
ResultsOK ==
  \A i \in Conns :
    user_data[i] # NoInfo /\ conn_state[i] # "DISCONNECTED" =>
      LET r == user_data[i].room_index
      IN  rooms[r].status = "FINISHED" =>
            /\ rooms[r].changed \/ <<r, rooms[r].elo_received>> \in told[i]
            /\ stage = "cleanup" => <<r, rooms[r].elo_received>> \in told[i]

\* A connection keeps its seat, or is given one in a room that is not finished.
LEMMA InfoStep ==
  ASSUME IInv, [Next]_vars, NEW j \in Conns, user_data'[j] # NoInfo
  PROVE  \/ user_data'[j] = user_data[j]
         \/ rooms'[user_data'[j].room_index].status \in {"WAITING", "PLAYING"}
<1>0. user_data \in [Conns -> ConnSlotInfo \cup {NoInfo}]
  BY DEF IInv, InfosOK
<1>1. ASSUME NEW i \in Conns, HandshakeCreate(i) \/ HandshakeJoin(i) \/ HandshakeReconnect(i)
      PROVE  \/ user_data'[j] = user_data[j]
             \/ rooms'[user_data'[j].room_index].status \in {"WAITING", "PLAYING"}
  <2>1. PICK r, s, room :
          r \in Rooms /\ s \in Seats /\ Seated(i, r, s, room) /\ room.status \in {"WAITING", "PLAYING"}
    <3>1. Msg(i).token \in Tokens
      BY <1>1, ConsumedOK DEF IInv, HandshakeCreate, HandshakeJoin, HandshakeReconnect,
                              HandshakeOn, Message
    <3>2. CASE HandshakeCreate(i)
      <4>1. PICK r \in Rooms, code \in Codes :
              Seated(i, r, 0, RoomJoin(WaitingRoom(code), 0, i, Msg(i).token, sessions + 1))
        BY <3>2 DEF HandshakeCreate
      <4>2. 0 \in Seats /\ WaitingRoom(code) \in RoomRecord /\ WaitingRoom(code).status = "WAITING"
        BY NewRoomGood, NewRoomSeats, NumSeatsAssumption DEF GoodRoom, WaitingRoom, Seats
      <4> QED
        BY <4>1, <4>2, RoomJoinSeats
    <3>3. CASE HandshakeJoin(i)
      <4>1. PICK r \in Rooms, s \in Seats :
              /\ CanJoin(rooms[r], s)
              /\ Seated(i, r, s, RoomJoin(rooms[r], s, i, Msg(i).token, sessions + 1))
        BY <3>3 DEF HandshakeJoin, Joins
      <4>2. rooms[r] \in RoomRecord /\ rooms[r].status = "WAITING"
        BY <4>1 DEF CanJoin, IInv, RoomsOK
      <4> QED
        BY <4>1, <4>2, RoomJoinSeats
    <3>4. CASE HandshakeReconnect(i)
      <4>1. PICK r \in Rooms, s \in Seats :
              /\ CanReconnect(rooms[r], s, Msg(i).token)
              /\ Seated(i, r, s, RoomReconnect(rooms[r], s, i))
        BY <3>4 DEF HandshakeReconnect, Returns
      <4>2. rooms[r] \in RoomRecord /\ rooms[r].status = "PLAYING"
        BY <4>1 DEF CanReconnect, IInv, RoomsOK
      <4> QED
        BY <4>1, <4>2, RoomReconnectSeats
    <3> QED
      BY <1>1, <3>2, <3>3, <3>4
  <2>2. rooms'[r] = room /\ user_data' = [user_data EXCEPT ![i] = [room_index |-> r, seat |-> s]]
    BY <2>1 DEF Seated, IInv, RoomsOK
  <2> QED
    BY <1>0, <2>1, <2>2
<1>2. ASSUME NEW i \in Conns, Handle(i)
      PROVE  \/ user_data'[j] = user_data[j]
             \/ rooms'[user_data'[j].room_index].status \in {"WAITING", "PLAYING"}
  <2>1. CASE Disconnect(i)
    BY <1>0, <2>1 DEF Disconnect, CleanupConnection
  <2>2. CASE \/ HandshakeReject(i) \/ HandshakeNoMemory(i) \/ AddAI(i) \/ RemoveAI(i)
             \/ StartGame(i) \/ Ignored(i)
    BY <2>2 DEF HandshakeReject, HandshakeNoMemory, AddAI, RemoveAI, StartGame, Ignored
  <2> QED
    BY <1>1, <1>2, <2>1, <2>2 DEF Handle
<1>3. ASSUME NEW i \in Conns, Accept(i) \/ DetectDrop(i)
      PROVE  user_data'[j] = user_data[j]
  BY <1>0, <1>3 DEF Accept, DetectDrop, CleanupConnection
<1>4. CASE Cleanup
  BY <1>4 DEF Cleanup, Closed
<1>5. CASE Environment \/ UNCHANGED vars
  BY <1>5 DEF Environment, ClientConnect, ClientSend, ClientQuit, ClientDrop, LobbyEloResult,
              LobbyCreateRoom, connVars, vars
<1>6. CASE Poll \/ AcceptRefused \/ AcceptDone \/ RecvDone \/ Tick \/ Broadcast \/ DetectDone
  BY <1>6 DEF Poll, AcceptRefused, AcceptDone, RecvDone, Tick, Broadcast, DetectDone, connVars
<1> QED
  BY <1>2, <1>3, <1>4, <1>5, <1>6 DEF Next, Server

\* A room that is finished after a step is marked for a broadcast, or it was
\* finished already and nothing about its result has changed.
LEMMA FinishedStep ==
  ASSUME IInv, [Next]_vars, ~Broadcast, NEW r \in Rooms, rooms'[r].status = "FINISHED"
  PROVE  \/ rooms'[r].changed
         \/ /\ rooms[r].status = "FINISHED" /\ rooms[r].changed = rooms'[r].changed
            /\ rooms[r].elo_received = rooms'[r].elo_received
<1>0. rooms[r] \in RoomRecord /\ GoodRoom(rooms[r])
  BY DEF IInv, RoomsOK
<1>1. CASE FlagsStep
  <2>1. CASE rooms' = rooms
    BY <2>1
  <2>2. CASE \E q \in Rooms : LobbyEloResult(q)
    <3>1. PICK q \in Rooms : rooms' = [rooms EXCEPT ![q].elo_received = TRUE, ![q].changed = TRUE]
      BY <2>2 DEF LobbyEloResult
    <3> QED
      BY <1>0, <3>1 DEF IInv, RoomsOK, RoomRecord
  <2> QED
    BY <1>1, <2>1, <2>2 DEF FlagsStep
<1>2. CASE Tick
  <2>1. PICK moved \in SUBSET Rooms : \E over \in SUBSET moved :
          \/ rooms'[r] = InactiveRoom \/ rooms'[r] = rooms[r]
          \/ rooms'[r] = Played(UpdateTimers(rooms[r]), r \in moved, r \in over) /\ rooms[r].status = "PLAYING"
    BY <1>2 DEF Tick
  <2>2. InactiveRoom.status = "INACTIVE"
    BY NewRoomSeats DEF InactiveRoom
  <2>3. CASE rooms[r].status = "PLAYING" /\ \E over \in SUBSET moved :
               rooms'[r] = Played(UpdateTimers(rooms[r]), r \in moved, r \in over)
    <3>1. UpdateTimers(rooms[r]) \in RoomRecord /\ UpdateTimers(rooms[r]).status = "PLAYING"
      BY <1>0, <2>3, UpdateTimersGood DEF GoodRoom
    <3> QED
      BY <2>3, <3>1 DEF Played, RoomRecord
  <2> QED
    BY <2>1, <2>2, <2>3
<1>3. CASE Cleanup
  <2>1. rooms'[r] = InactiveRoom \/ \E n : rooms'[r] = [rooms[r] EXCEPT !.elo_wait_timer = n]
    BY Zenon, <1>3 DEF Cleanup
  <2>2. InactiveRoom.status = "INACTIVE"
    BY NewRoomSeats DEF InactiveRoom
  <2> QED
    BY <1>0, <2>1, <2>2 DEF RoomRecord
<1>4. CASE OneRoomStep
  <2>0. PICK q \in Rooms : \E next :
          /\ Opened(q, next) \/ SeatTaken(q, next) \/ SeatLeft(q, next) \/ BotMoved(q, next)
               \/ Started(q, next)
          /\ rooms' = [rooms EXCEPT ![q] = next]
    BY <1>4 DEF OneRoomStep
  <2>1. PICK next :
          /\ Opened(q, next) \/ SeatTaken(q, next) \/ SeatLeft(q, next) \/ BotMoved(q, next)
               \/ Started(q, next)
          /\ rooms' = [rooms EXCEPT ![q] = next]
    BY <2>0
  <2>2. CASE q # r
    <3>1. rooms'[r] = rooms[r]
      BY <2>1, <2>2 DEF IInv, RoomsOK
    <3> QED
      BY <3>1
  <2>3. CASE q = r
    <3>1. next.status = "FINISHED" /\ rooms'[r] = next /\ InactiveRoom.status = "INACTIVE"
      BY <2>1, <2>3, NewRoomSeats DEF IInv, RoomsOK, InactiveRoom
    <3>2. ~Opened(r, next)
      <4>1. ASSUME NEW code \in FreshCodes
            PROVE  WaitingRoom(code) \in RoomRecord /\ WaitingRoom(code).status = "WAITING" /\ 0 \in Seats
        BY NewRoomGood, NewRoomSeats, NumSeatsAssumption DEF GoodRoom, WaitingRoom, FreshCodes, Seats
      <4> QED
        BY <3>1, <4>1, RoomJoinSeats DEF Opened
    <3>3. ~SeatTaken(r, next)
      <4>1. ASSUME NEW s \in Seats, NEW taken, Taken(r, s, taken)
            PROVE  next # taken /\ next # RoomLeave(taken, s)
        BY <3>1, <4>1, TakenGood, RoomLeaveSeats
      <4> QED
        BY <4>1 DEF SeatTaken
    <3>4. ~BotMoved(r, next) /\ ~Started(r, next)
      BY <1>0, <3>1, BotSeats, RoomStartSeats DEF BotMoved, Started, CanAddAI, CanRemoveAI
    <3>5. PICK s \in Seats : rooms[r].status = "FINISHED" /\ next = RoomLeave(rooms[r], s)
      BY <1>0, <2>1, <2>3, <3>1, <3>2, <3>3, <3>4, RoomLeaveSeats DEF SeatLeft, Serves
    <3>6. next.changed = rooms[r].changed /\ next.elo_received = rooms[r].elo_received
      BY <1>0, <3>5 DEF RoomLeave, RoomRecord
    <3> QED
      BY <3>1, <3>5, <3>6
  <2> QED
    BY <2>2, <2>3
<1> QED
  BY <1>1, <1>2, <1>3, <1>4, EveryStep DEF RoomsStep

\* A connection is told what the room is told, and keeps what it was told.
LEMMA ToldStep ==
  ASSUME IInv, [Next]_vars, NEW j \in Conns, conn_state'[j] # "DISCONNECTED", ~Accept(j)
  PROVE  conn_state[j] # "DISCONNECTED" /\ told[j] \subseteq told'[j]
<1>1. CASE Server
  BY <1>1, ServerConns DEF Hung, Held
<1>2. CASE Environment \/ UNCHANGED vars
  BY <1>2, EnvironmentConns
<1> QED
  BY <1>1, <1>2 DEF Next

LEMMA BroadcastTells ==
  ASSUME IInv, ResultsOK, Broadcast, NEW i \in Conns, user_data[i] # NoInfo,
         conn_state[i] # "DISCONNECTED",
         rooms[user_data[i].room_index].status = "FINISHED"
  PROVE  LET r == user_data[i].room_index
         IN  /\ <<r, rooms[r].elo_received>> \in told'[i]
             /\ rooms'[r].elo_received = rooms[r].elo_received
<1> DEFINE r == user_data[i].room_index
           s == user_data[i].seat
           due == {q \in Rooms : /\ rooms[q].status \in {"PLAYING", "FINISHED"}
                                 /\ rooms[q].connected_count # 0 /\ rooms[q].changed}
           over == {q \in due : rooms[q].status = "FINISHED"}
<1>1. r \in Rooms /\ s \in Seats /\ Serves(rooms[r], s, i) /\ GoodRoom(rooms[r])
      /\ rooms[r] \in RoomRecord
  BY DEF IInv, InfosOK, InfoNamesItsSeat, ConnSlotInfo, RoomsOK
<1>2. rooms[r].connected_count # 0 /\ i \in Members(rooms[r])
  <2>1. s \in SeatsWith(rooms[r], "CONNECTED")
    BY <1>1 DEF Serves, SeatsWith
  <2> QED
    BY <1>1, <2>1, SeatsFinite DEF GoodRoom, CountExact, Members, Serves
<1>3. rooms'[r].elo_received = rooms[r].elo_received
  <2>1. \E b : rooms'[r] = [rooms[r] EXCEPT !.changed = b]
    BY <1>1 DEF Broadcast
  <2> QED
    BY <1>1, <2>1 DEF RoomRecord
<1>4. told[i] \subseteq told'[i]
  BY DEF Broadcast
<1>5. CASE ~rooms[r].changed
  BY <1>3, <1>4, <1>5 DEF ResultsOK
<1>6. CASE rooms[r].changed
  <2>1. r \in over
    BY <1>1, <1>2, <1>6
  <2>2. told'[i] = told[i] \cup { <<q, rooms[q].elo_received>> : q \in {q \in over :
                     conn_state[i] # "DISCONNECTED" /\ \E p \in {q} : i \in Members(rooms[p])} }
    BY Zenon DEF Broadcast
  <2> HIDE DEF over, r
  <2>3. r \in {q \in over :
                     conn_state[i] # "DISCONNECTED" /\ \E p \in {q} : i \in Members(rooms[p])}
    BY <1>2, <2>1
  <2> QED
    BY <1>3, <2>2, <2>3 DEF r
<1> QED
  BY <1>5, <1>6

LEMMA ResultsKept ==
  ASSUME IInv, ResultsOK, [Next]_vars
  PROVE  ResultsOK'
<1> SUFFICES ASSUME NEW i \in Conns, user_data'[i] # NoInfo, conn_state'[i] # "DISCONNECTED",
                    rooms'[user_data'[i].room_index].status = "FINISHED"
             PROVE  LET r == user_data'[i].room_index
                    IN  /\ rooms'[r].changed \/ <<r, rooms'[r].elo_received>> \in told'[i]
                        /\ stage' = "cleanup" => <<r, rooms'[r].elo_received>> \in told'[i]
  BY DEF ResultsOK
<1> DEFINE r == user_data[i].room_index
<1>1. user_data'[i] = user_data[i] /\ r \in Rooms
  BY InfoStep DEF IInv, InfosOK, ConnSlotInfo
<1>2. ~Accept(i)
  BY <1>1 DEF Accept, IInv, InfosOK
<1>3. conn_state[i] # "DISCONNECTED" /\ told[i] \subseteq told'[i]
  BY <1>2, ToldStep
<1>4. CASE Broadcast
  <2>1. rooms[r].status = "FINISHED"
    BY <1>1, <1>4, FlagsStepSeats DEF FlagsStep, SameSeats
  <2> QED
    BY <1>1, <1>3, <1>4, <2>1, BroadcastTells
<1>5. CASE ~Broadcast
  <2>1. \/ rooms'[r].changed
        \/ /\ rooms[r].status = "FINISHED" /\ rooms[r].changed = rooms'[r].changed
           /\ rooms[r].elo_received = rooms'[r].elo_received
    BY <1>1, <1>5, FinishedStep
  <2>2. stage' = "cleanup" => UNCHANGED vars
    BY <1>5, StageStep, EnvironmentConns DEF Next
  <2>3. UNCHANGED vars => rooms' = rooms /\ told' = told /\ stage' = stage
    BY DEF vars, connVars
  <2> QED
    BY <1>1, <1>3, <2>1, <2>2, <2>3 DEF ResultsOK
<1> QED
  BY <1>4, <1>5

\* The server closes the connections of a finished room only after their players
\* were told the result, with the ratings if the lobby has sent them.
THEOREM ResultsComeFirst == Spec => ResultBeforeClose
<1>1. Init => ResultsOK
  BY DEF Init, ResultsOK
<1>2. Spec => []ResultsOK
  BY <1>1, ResultsKept, Invariance, PTL DEF Spec
<1>3. ASSUME IInv, ResultsOK, [Next]_vars, NEW i \in Conns,
             stage = "cleanup", user_data[i] # NoInfo, user_data'[i] = NoInfo,
             conn_state[i] # "DISCONNECTED"
      PROVE  LET r == user_data[i].room_index
             IN  <<r, rooms[r].elo_received>> \in told[i]
  <2>1. Cleanup
    BY <1>3, StageStep, EnvironmentConns DEF Next, vars, connVars
  <2>2. rooms[user_data[i].room_index].status = "FINISHED"
    BY <1>3, <2>1 DEF Cleanup, Closed
  <2> QED
    BY <1>3, <2>2 DEF ResultsOK
<1>4. IInv /\ ResultsOK /\ [Next]_vars =>
        [\A i \in Conns :
           stage = "cleanup" /\ user_data[i] # NoInfo /\ user_data'[i] = NoInfo
             /\ conn_state[i] # "DISCONNECTED"
           => LET r == user_data[i].room_index
              IN  <<r, rooms[r].elo_received>> \in told[i]]_vars
  BY <1>3
<1> QED
  BY <1>2, <1>4, Invariance, PTL DEF Spec, ResultBeforeClose

-----------------------------------------------------------------------------
(* The owners of the seats.                                                  *)

TokensOK == \A r \in Rooms : SessionTokens(rooms[r])

\* A frame that comes back with a session token, for a client with this ticket.
Presents(m, t) ==
  m.type = "HANDSHAKE" /\ m.token \notin Clients => t = [code |-> m.code, token |-> m.token]

\* The frames that were not read yet: a handshake on a connection that has no seat
\* presents the ticket its client holds, nothing follows a farewell.
FramesOK(q, info, t, left) ==
  \A k \in 1 .. Len(q) :
    /\ info = NoInfo => Presents(q[k], t)
    /\ q[k].type = "DISCONNECT" => k = Len(q) /\ left

\* The connections of a client: one has an open end, one was written to since the
\* server read them all.
OnlyOneTalks(i, j) ==
  i # j /\ peer[i] = peer[j] /\ peer[i] # NoClient =>
    /\ gone[i] \/ gone[j]
    /\ inbox[i] = <<>> \/ inbox[j] = <<>>
    /\ stage = "poll" /\ inbox[j] # <<>> => gone[i]

BacklogOK ==
  \A k \in 1 .. Len(backlog) :
    /\ \A i \in Conns : peer[i] = backlog[k] => gone[i]
    /\ \A l \in 1 .. Len(backlog) : backlog[k] = backlog[l] => k = l

TalksOK ==
  /\ \A i \in Conns : conn_state[i] = "DISCONNECTED" => inbox[i] = <<>> /\ peer[i] = NoClient
  /\ stage \notin {"poll", "accept", "recv"} => \A i \in Conns : inbox[i] = <<>>
  /\ \A i \in Conns : FramesOK(inbox[i], user_data[i], ticket[peer[i]], gone[i])
  /\ \A i, j \in Conns : OnlyOneTalks(i, j)
  /\ BacklogOK

LEMMA TicksKeepTokens ==
  ASSUME NEW room, GoodRoom(room), room.status = "PLAYING", SessionTokens(room), NEW moved, NEW over
  PROVE  SessionTokens(Played(UpdateTimers(room), moved, over))
<1> DEFINE ticked == UpdateTimers(room)
           next == Played(ticked, moved, over)
<1>1. /\ ticked \in RoomRecord
      /\ \A s \in Seats : ticked.slots[s] = TickedSlot(room.slots[s]) /\ room.slots[s] \in PlayerSlot
  BY UpdateTimersGood DEF GoodRoom, RoomRecord
<1> HIDE DEF ticked
<1>2. next.slots = ticked.slots
  BY <1>1 DEF Played, RoomRecord
<1>3. \A slot \in PlayerSlot : TickedSlot(slot).auth_token = slot.auth_token
  BY DEF TickedSlot, PlayerSlot
<1> QED
  BY <1>1, <1>2, <1>3 DEF SessionTokens, ticked

LEMMA TokensKept ==
  ASSUME IInv, TokensOK, [Next]_vars
  PROVE  TokensOK'
<1> SUFFICES ASSUME NEW r \in Rooms
             PROVE  SessionTokens(rooms'[r])
  BY DEF TokensOK, SessionTokens
<1>0. /\ rooms[r] \in RoomRecord /\ GoodRoom(rooms[r]) /\ SessionTokens(rooms[r])
      /\ SessionTokens(InactiveRoom)
  BY DEF IInv, RoomsOK, TokensOK, SessionTokens, InactiveRoom, NewRoom, EmptySlot
<1>1. CASE FlagsStep
  BY <1>0, <1>1, FlagsStepSeats DEF SameSeats, SessionTokens
<1>2. CASE Tick
  <2>1. \/ rooms'[r] \in {InactiveRoom, rooms[r]}
        \/ /\ rooms[r].status = "PLAYING"
           /\ \E moved, over : rooms'[r] = Played(UpdateTimers(rooms[r]), moved, over)
    BY <1>2 DEF Tick
  <2> QED
    BY <1>0, <2>1, TicksKeepTokens
<1>3. CASE Cleanup
  <2>1. rooms'[r] = InactiveRoom \/ \E n : rooms'[r] = [rooms[r] EXCEPT !.elo_wait_timer = n]
    BY Zenon, <1>3 DEF Cleanup
  <2>2. rooms'[r] = InactiveRoom \/ rooms'[r].slots = rooms[r].slots
    BY <1>0, <2>1 DEF RoomRecord
  <2> QED
    BY <1>0, <2>2 DEF SessionTokens
<1>4. CASE OneRoomStep
  <2>0. PICK q \in Rooms : \E next :
          /\ Opened(q, next) \/ SeatTaken(q, next) \/ SeatLeft(q, next) \/ BotMoved(q, next)
               \/ Started(q, next)
          /\ rooms' = [rooms EXCEPT ![q] = next]
    BY <1>4 DEF OneRoomStep
  <2>1. PICK next :
          /\ Opened(q, next) \/ SeatTaken(q, next) \/ SeatLeft(q, next) \/ BotMoved(q, next)
               \/ Started(q, next)
          /\ rooms' = [rooms EXCEPT ![q] = next]
    BY <2>0
  <2>2. CASE q # r
    <3>1. rooms'[r] = rooms[r]
      BY <2>1, <2>2 DEF IInv, RoomsOK
    <3> QED
      BY <1>0, <3>1
  <2>3. CASE q = r
    <3>1. rooms'[r] = next
      BY <2>1, <2>3 DEF IInv, RoomsOK
    <3>2. CASE Opened(r, next)
      <4>1. ASSUME NEW code \in FreshCodes
            PROVE  WaitingRoom(code) \in RoomRecord /\ SessionTokens(WaitingRoom(code)) /\ 0 \in Seats
        <5>1. WaitingRoom(code) \in RoomRecord
          BY NewRoomGood DEF GoodRoom, WaitingRoom, FreshCodes
        <5> QED
          BY <5>1, NumSeatsAssumption DEF WaitingRoom, NewRoom, SessionTokens, EmptySlot, Seats
      <4>2. PICK code \in FreshCodes :
              \/ next = WaitingRoom(code)
              \/ \E i \in Conns, token \in Tokens, n \in Nat :
                   next = RoomJoin(WaitingRoom(code), 0, i, token, n)
        BY <3>2 DEF Opened
      <4> QED
        BY <3>1, <4>1, <4>2, JoinsKeepTokens
    <3>3. CASE SeatTaken(r, next)
      <4>0. PICK s \in Seats : \E taken :
              Taken(r, s, taken) /\ (next = taken \/ next = RoomLeave(taken, s))
        BY <3>3 DEF SeatTaken
      <4>1. PICK taken : Taken(r, s, taken) /\ (next = taken \/ next = RoomLeave(taken, s))
        BY <4>0
      <4>2. PICK i \in Conns : HandshakeOn(i) /\ taken \in {RoomJoin(rooms[r], s, i, Msg(i).token, sessions + 1),
                                           RoomReconnect(rooms[r], s, i)}
        BY <4>1 DEF Taken
      <4>3. SessionTokens(taken) /\ taken \in RoomRecord
        BY <1>0, <4>1, <4>2, JoinsKeepTokens, ReconnectsKeepTokens, TakenGood DEF GoodRoom, IInv, RestOK
      <4> QED
        BY <3>1, <4>1, <4>3, LeavesKeepTokens
    <3>4. CASE SeatLeft(r, next) \/ BotMoved(r, next) \/ Started(r, next)
      BY <1>0, <3>1, <3>4, LeavesKeepTokens, BotsKeepTokens, StartKeepsTokens
      DEF SeatLeft, BotMoved, Started
    <3> QED
      BY <2>1, <2>3, <3>2, <3>3, <3>4
  <2> QED
    BY <2>2, <2>3
<1> QED
  BY <1>1, <1>2, <1>3, <1>4, EveryStep DEF RoomsStep

-----------------------------------------------------------------------------
(* Who talks to the server.                                                  *)

\* Frames that were all right are so when the first of them was read.
LEMMA FramesRead ==
  ASSUME NEW q \in Seq(Message), q # <<>>, NEW info, NEW t, NEW left,
         FramesOK(q, info, t, left)
  PROVE  /\ FramesOK(Tail(q), info, t, left)
         /\ Head(q).type = "DISCONNECT" => Tail(q) = <<>>
<1> DEFINE rest == Tail(q)
<1>1. /\ Len(q) \in Nat \ {0} /\ Len(rest) = Len(q) - 1 /\ rest \in Seq(Message)
      /\ \A k \in 1 .. Len(rest) : rest[k] = q[k + 1]
  BY HeadTailProperties, EmptySeq
<1>2. Head(q) = q[1]
  OBVIOUS
<1> HIDE DEF rest
<1>3. Len(q) = 1 => rest = <<>>
  <2>1. rest # <<>> => Len(rest) \in Nat \ {0}
    BY <1>1, EmptySeq
  <2> QED
    BY <1>1, <2>1
<1>4. ASSUME NEW k \in 1 .. Len(rest)
      PROVE  /\ info = NoInfo => Presents(rest[k], t)
             /\ rest[k].type = "DISCONNECT" => k = Len(rest) /\ left
  <2>1. k + 1 \in 1 .. Len(q) /\ rest[k] = q[k + 1] /\ (k + 1 = Len(q) => k = Len(rest))
    BY <1>1
  <2>2. /\ info = NoInfo => Presents(q[k + 1], t)
        /\ q[k + 1].type = "DISCONNECT" => k + 1 = Len(q) /\ left
    BY <2>1, Zenon DEF FramesOK
  <2> QED
    BY <2>1, <2>2, Zenon
<1>5. 1 \in 1 .. Len(q)
  BY <1>1
<1> QED
  BY <1>2, <1>3, <1>4, <1>5, Zenon DEF FramesOK, rest

LEMMA NoFrames ==
  ASSUME NEW info, NEW t, NEW left
  PROVE  FramesOK(<<>>, info, t, left)
BY DEF FramesOK

\* A connection loses its seat with its last frame only.
LEMMA SeatLostLast ==
  ASSUME IInv, TalksOK, Server, NEW j \in Conns, ~Accept(j),
         user_data[j] # NoInfo, user_data'[j] = NoInfo
  PROVE  inbox'[j] = <<>>
<1>1. CASE stage \notin {"poll", "accept", "recv"}
  BY <1>1, ServerConns DEF TalksOK, Hung, Held
<1>2. CASE stage \in {"poll", "accept", "recv"}
  <2>1. user_data \in [Conns -> ConnSlotInfo \cup {NoInfo}]
    BY DEF IInv, InfosOK
  <2>2. PICK i \in Conns : Handle(i)
    BY <1>2, <2>1 DEF Server, Poll, Accept, DetectDrop, AcceptRefused, AcceptDone, RecvDone, Tick,
                Broadcast, Cleanup, DetectDone, connVars
  <2>3. CASE Disconnect(i)
    <3>1. i = j /\ Handling(i) /\ Msg(i).type = "DISCONNECT" /\ inbox[i] \in Seq(Message)
      BY <2>1, <2>3 DEF Disconnect, CleanupConnection, IInv, ConnsOK
    <3>2. inbox[i] # <<>> /\ Tail(inbox[i]) = <<>>
      BY <3>1, FramesRead DEF TalksOK, Handling, IsFirst, Msg
    <3>3. Consumed(i)[j] = <<>>
      BY <3>1, <3>2 DEF Consumed, IInv, ConnsOK
    <3>4. inbox'[j] = Consumed(i)[j] \/ inbox'[j] = <<>>
      BY <2>3 DEF Disconnect, CleanupConnection, CloseAll, Closed
    <3> QED
      BY <3>3, <3>4
  <2>4. CASE HandshakeCreate(i) \/ HandshakeJoin(i) \/ HandshakeReconnect(i)
    <3>1. 0 \in Seats
      BY NumSeatsAssumption DEF Seats
    <3>2. PICK r \in Rooms, s \in Seats : user_data' = [user_data EXCEPT ![i] = [room_index |-> r, seat |-> s]]
      BY <2>4, <3>1 DEF HandshakeCreate, HandshakeJoin, HandshakeReconnect, Seated
    <3>3. [room_index |-> r, seat |-> s] # NoInfo
      BY NullsAssumption
    <3> QED
      BY <2>1, <3>2, <3>3
  <2> QED
    BY <2>2, <2>3, <2>4 DEF Handle, HandshakeReject, HandshakeNoMemory, AddAI, RemoveAI, StartGame, Ignored
<1> QED
  BY <1>1, <1>2

\* A client's ticket is replaced by the server's answer to its own handshake.
LEMMA TicketStep ==
  ASSUME IInv, [Next]_vars
  PROVE  \/ ticket' = ticket
         \/ \E i \in Conns : \E t : /\ Handling(i) /\ inbox[i] # <<>> /\ user_data'[i] # NoInfo
                                      /\ ticket' = [ticket EXCEPT ![peer[i]] = t]
<1>1. ASSUME NEW i \in Conns, HandshakeCreate(i) \/ HandshakeJoin(i) \/ HandshakeReconnect(i)
      PROVE  \/ ticket' = ticket
             \/ \E t : /\ Handling(i) /\ inbox[i] # <<>> /\ user_data'[i] # NoInfo
                       /\ ticket' = [ticket EXCEPT ![peer[i]] = t]
  <2>1. 0 \in Seats
    BY NumSeatsAssumption DEF Seats
  <2>2. PICK r \in Rooms, s \in Seats :
          /\ user_data' = [user_data EXCEPT ![i] = [room_index |-> r, seat |-> s]]
          /\ ticket' = ticket \/ \E t : ticket' = [ticket EXCEPT ![peer[i]] = t]
    BY <1>1, <2>1 DEF HandshakeCreate, HandshakeJoin, HandshakeReconnect, Seated
  <2>3. [room_index |-> r, seat |-> s] # NoInfo
    BY NullsAssumption
  <2>4. Handling(i) /\ inbox[i] # <<>>
    BY <1>1 DEF HandshakeCreate, HandshakeJoin, HandshakeReconnect, HandshakeOn, Handling, IsFirst
  <2> QED
    BY <2>2, <2>3, <2>4 DEF IInv, InfosOK
<1>2. ASSUME NEW i \in Conns, Handle(i)
      PROVE  \/ ticket' = ticket
             \/ \E t : /\ Handling(i) /\ inbox[i] # <<>> /\ user_data'[i] # NoInfo
                       /\ ticket' = [ticket EXCEPT ![peer[i]] = t]
  BY <1>1, <1>2 DEF Handle, HandshakeReject, HandshakeNoMemory, AddAI, RemoveAI, StartGame, Ignored,
                    Disconnect, CleanupConnection
<1>3. CASE Environment \/ UNCHANGED vars
  BY <1>3, EnvironmentConns
<1>4. ASSUME NEW i \in Conns, Accept(i) \/ DetectDrop(i)
      PROVE  ticket' = ticket
  BY <1>4 DEF Accept, DetectDrop, CleanupConnection
<1>5. CASE Poll \/ AcceptRefused \/ AcceptDone \/ RecvDone \/ Tick \/ Broadcast \/ Cleanup \/ DetectDone
  BY <1>5 DEF Poll, AcceptRefused, AcceptDone, RecvDone, Tick, Broadcast, Cleanup, DetectDone
<1> QED
  BY <1>2, <1>3, <1>4, <1>5 DEF Next, Server

\* The frames stay right while the connection has no seat and its client's ticket
\* stays, or when it has one.
LEMMA FramesStay ==
  ASSUME NEW q, NEW info, NEW t, NEW left, FramesOK(q, info, t, left),
         NEW infoNow, NEW tNow, NEW leftNow,
         infoNow = NoInfo => info = NoInfo /\ tNow = t, left => leftNow
  PROVE  FramesOK(q, infoNow, tNow, leftNow)
BY Zenon DEF FramesOK

LEMMA FramesSent ==
  ASSUME NEW q \in Seq(Message), NEW m \in Message, NEW info, NEW t, NEW left,
         FramesOK(q, info, t, FALSE),
         info = NoInfo => Presents(m, t), m.type = "DISCONNECT" => left
  PROVE  FramesOK(Append(q, m), info, t, left)
<1> DEFINE p == Append(q, m)
<1>1. /\ Len(q) \in Nat /\ Len(p) = Len(q) + 1 /\ p[Len(q) + 1] = m
      /\ \A k \in 1 .. Len(q) : p[k] = q[k]
  BY AppendProperties, LenProperties
<1> HIDE DEF p
<1>2. ASSUME NEW k \in 1 .. Len(p)
      PROVE  /\ info = NoInfo => Presents(p[k], t)
             /\ p[k].type = "DISCONNECT" => k = Len(p) /\ left
  <2>1. CASE k = Len(p)
    <3>1. p[k] = m
      BY <1>1, <2>1
    <3> QED
      BY <2>1, <3>1, Zenon
  <2>2. CASE k # Len(p)
    <3>1. k \in 1 .. Len(q) /\ p[k] = q[k]
      BY <1>1, <2>2
    <3> QED
      BY <3>1, Zenon DEF FramesOK
  <2> QED
    BY <2>1, <2>2
<1> QED
  BY <1>2, Zenon DEF FramesOK, p

\* Connections that were accepted, or refused, leave the backlog in order.
LEMMA BacklogRead ==
  ASSUME IInv, BacklogOK, backlog # <<>>, NEW k \in 1 .. Len(Tail(backlog))
  PROVE  /\ k + 1 \in 1 .. Len(backlog) /\ k \in Nat \ {0} /\ 1 \in 1 .. Len(backlog)
         /\ Tail(backlog)[k] = backlog[k + 1] /\ Tail(backlog)[k] \in Clients
         /\ Head(backlog) = backlog[1] /\ Tail(backlog)[k] # Head(backlog)
<1> DEFINE rest == Tail(backlog)
<1>1. /\ Len(backlog) \in Nat \ {0} /\ Len(rest) = Len(backlog) - 1 /\ rest \in Seq(Clients)
      /\ \A l \in 1 .. Len(rest) : rest[l] = backlog[l + 1]
  BY HeadTailProperties, EmptySeq DEF IInv, RestOK
<1>2. Head(backlog) = backlog[1]
  BY DEF IInv, RestOK
<1>3. k \in 1 .. Len(rest)
  OBVIOUS
<1> HIDE DEF rest
<1>4. /\ k + 1 \in 1 .. Len(backlog) /\ k \in Nat \ {0} /\ 1 \in 1 .. Len(backlog) /\ k + 1 # 1
      /\ rest[k] = backlog[k + 1] /\ rest[k] \in Clients
  BY <1>1, <1>3
<1>5. rest[k] # Head(backlog)
  BY <1>2, <1>4 DEF BacklogOK
<1> QED
  BY <1>2, <1>4, <1>5 DEF rest

LEMMA ServerTalks ==
  ASSUME IInv, IInv', TalksOK, Server, \A i \in Conns : ~Accept(i)
  PROVE  TalksOK'
<1>1. ASSUME NEW j \in Conns
      PROVE  /\ Hung(j) \/ Held(j)
             /\ inbox[j] = <<>> => inbox'[j] = <<>>
             /\ peer'[j] # NoClient => Held(j)
             /\ inbox'[j] # <<>> => Held(j) /\ peer[j] \in Clients
             /\ conn_state'[j] = "DISCONNECTED" => inbox'[j] = <<>> /\ peer'[j] = NoClient
  <2>1. Hung(j) \/ Held(j)
    BY ServerConns
  <2>2. inbox[j] # <<>> => peer[j] \in Clients
    BY DEF TalksOK, IInv, ConnsOK
  <2> QED
    BY <2>1, <2>2 DEF Hung, Held, TalksOK
<1>2. stage' \notin {"poll", "accept", "recv"} => \A i \in Conns : inbox'[i] = <<>>
  BY <1>1, StageStep DEF TalksOK
<1>3. stage' = "poll" => \A i \in Conns : inbox'[i] = <<>>
  BY <1>1, StageStep DEF TalksOK
<1>4. ASSUME NEW j \in Conns
      PROVE  FramesOK(inbox'[j], user_data'[j], ticket'[peer'[j]], gone'[j])
  <2>1. CASE inbox'[j] = <<>>
    BY <2>1, NoFrames
  <2>2. CASE inbox'[j] # <<>>
    <3>1. Held(j) /\ peer[j] \in Clients /\ inbox[j] # <<>> /\ inbox[j] \in Seq(Message)
      BY <1>1, <2>2 DEF IInv, ConnsOK
    <3>2. user_data'[j] = NoInfo => user_data[j] = NoInfo
      BY <2>2, SeatLostLast
    <3>3. user_data'[j] = NoInfo => ticket'[peer[j]] = ticket[peer[j]]
      <4>1. SUFFICES ASSUME user_data'[j] = NoInfo, ticket' # ticket
                     PROVE  ticket'[peer[j]] = ticket[peer[j]]
        OBVIOUS
      <4>2. PICK i, t : /\ i \in Conns /\ Handling(i) /\ inbox[i] # <<>> /\ user_data'[i] # NoInfo
                        /\ ticket' = [ticket EXCEPT ![peer[i]] = t]
        BY <4>1, TicketStep DEF Next
      <4>3. i # j
        BY <4>1, <4>2
      <4>4. peer[i] # peer[j]
        BY <3>1, <4>2, <4>3, NullsAssumption DEF TalksOK, OnlyOneTalks
      <4> QED
        BY <3>1, <4>2, <4>4 DEF IInv, RestOK
    <3>4. FramesOK(inbox'[j], user_data[j], ticket[peer[j]], gone[j])
      BY <3>1, FramesRead DEF TalksOK, Held
    <3>5. peer'[j] = peer[j] /\ gone'[j] = gone[j]
      BY <3>1 DEF Held
    <3>6. FramesOK(inbox'[j], user_data'[j], ticket'[peer[j]], gone[j])
      BY <3>2, <3>3, <3>4, FramesStay
    <3> QED
      BY <3>5, <3>6
  <2> QED
    BY <2>1, <2>2
<1>5. ASSUME NEW i \in Conns, NEW j \in Conns
      PROVE  OnlyOneTalks(i, j)'
  BY <1>1, <1>3 DEF OnlyOneTalks, TalksOK, Held
<1>6. BacklogOK'
  <2>1. backlog' = backlog \/ (backlog # <<>> /\ backlog' = Tail(backlog))
    <3>1. ASSUME NEW i \in Conns, Handle(i) \/ DetectDrop(i)
          PROVE  backlog' = backlog
      BY <3>1 DEF Handle, HandshakeReject, HandshakeCreate, HandshakeJoin, HandshakeReconnect, Seated,
            HandshakeNoMemory, AddAI, RemoveAI, StartGame, Ignored, Disconnect, DetectDrop,
            CleanupConnection
    <3> QED
      BY <3>1 DEF Server, Poll, AcceptRefused, AcceptDone, RecvDone, Tick, Broadcast, Cleanup, DetectDone
  <2>2. ASSUME NEW i \in Conns, NEW c \in Clients, peer'[i] = c
        PROVE  peer[i] = c /\ gone'[i] = gone[i]
    BY <1>1, <2>2, NullsAssumption DEF Held
  <2>3. CASE backlog' = backlog
    BY <2>2, <2>3 DEF TalksOK, BacklogOK, IInv, RestOK
  <2>4. CASE backlog # <<>> /\ backlog' = Tail(backlog)
    BY <2>2, <2>4, BacklogRead DEF TalksOK, BacklogOK
  <2> QED
    BY <2>1, <2>3, <2>4
<1> QED
  BY <1>1, <1>2, <1>4, <1>5, <1>6 DEF TalksOK

LEMMA AcceptTalks ==
  ASSUME IInv, TalksOK, NEW i \in Conns, Accept(i)
  PROVE  TalksOK'
<1>1. /\ stage = "accept" /\ stage' = stage /\ inbox' = inbox /\ gone' = gone /\ ticket' = ticket
      /\ backlog # <<>> /\ backlog' = Tail(backlog)
      /\ \A j \in Conns \ {i} : /\ conn_state'[j] = conn_state[j] /\ peer'[j] = peer[j]
                                /\ user_data'[j] = user_data[j]
      /\ conn_state'[i] = "CONNECTED" /\ peer'[i] = Head(backlog)
      /\ inbox[i] = <<>>
  BY DEF Accept, IInv, ConnsOK, InfosOK, TalksOK, FreeConn, IsFirst
<1>2. Head(backlog) = backlog[1] /\ 1 \in 1 .. Len(backlog)
  BY <1>1, EmptySeq DEF IInv, RestOK
<1>3. ASSUME NEW j \in Conns
      PROVE  FramesOK(inbox'[j], user_data'[j], ticket'[peer'[j]], gone'[j])
  BY <1>1, NoFrames DEF TalksOK
<1>4. ASSUME NEW j \in Conns, peer[j] = Head(backlog)
      PROVE  gone[j]
  BY <1>2, <1>4 DEF TalksOK, BacklogOK
<1>5. ASSUME NEW a \in Conns, NEW b \in Conns
      PROVE  OnlyOneTalks(a, b)'
  <2>1. CASE a = i \/ b = i
    BY <1>1, <1>4, <2>1 DEF OnlyOneTalks
  <2>2. CASE a # i /\ b # i
    BY <1>1, <2>2 DEF OnlyOneTalks, TalksOK
  <2> QED
    BY <2>1, <2>2
<1>6. BacklogOK'
  <2>1. ASSUME NEW k \in 1 .. Len(Tail(backlog)), NEW j \in Conns, peer'[j] = Tail(backlog)[k]
        PROVE  gone'[j]
    <3>1. j # i /\ peer[j] = backlog[k + 1] /\ k + 1 \in 1 .. Len(backlog)
      BY <1>1, <2>1, BacklogRead DEF TalksOK
    <3> QED
      BY <1>1, <3>1 DEF TalksOK, BacklogOK
  <2>2. ASSUME NEW k \in 1 .. Len(Tail(backlog)), NEW l \in 1 .. Len(Tail(backlog)),
               Tail(backlog)[k] = Tail(backlog)[l]
        PROVE  k = l
    <3>1. /\ k + 1 \in 1 .. Len(backlog) /\ l + 1 \in 1 .. Len(backlog) /\ k \in Nat /\ l \in Nat
          /\ backlog[k + 1] = backlog[l + 1]
      BY <1>1, <2>2, BacklogRead DEF TalksOK
    <3>2. k + 1 = l + 1
      BY <3>1 DEF TalksOK, BacklogOK
    <3> QED
      BY <3>1, <3>2
  <2> QED
    BY <1>1, <2>1, <2>2 DEF BacklogOK
<1> QED
  BY <1>1, <1>3, <1>5, <1>6 DEF TalksOK

LEMMA EnvironmentTalks ==
  ASSUME IInv, IInv', TalksOK, Environment \/ UNCHANGED vars
  PROVE  TalksOK'
<1>1. ASSUME NEW c \in Clients, ClientConnect(c)
      PROVE  TalksOK'
  <2>1. BacklogOK'
    <3>1. /\ Len(backlog) \in Nat /\ Len(backlog') = Len(backlog) + 1 /\ backlog'[Len(backlog) + 1] = c
          /\ \A k \in 1 .. Len(backlog) : backlog'[k] = backlog[k] /\ backlog[k] # c
      BY <1>1, AppendProperties, LenProperties DEF ClientConnect, IInv, RestOK
    <3>2. \A i \in Conns : peer[i] = c => gone[i]
      BY <1>1 DEF ClientConnect
    <3>3. \A k \in 1 .. Len(backlog') : k \in 1 .. Len(backlog) \/ k = Len(backlog) + 1
      BY <3>1
    <3>4. peer' = peer /\ gone' = gone
      BY <1>1 DEF ClientConnect, connVars
    <3> QED
      BY <3>1, <3>2, <3>3, <3>4 DEF BacklogOK, TalksOK
  <2> QED
    BY <1>1, <2>1 DEF TalksOK, OnlyOneTalks, ClientConnect, connVars
<1>2. ASSUME NEW i \in Conns, NEW m \in Message, ClientSend(i) \/ ClientQuit(i),
             inbox' = [inbox EXCEPT ![i] = Append(@, m)],
             user_data[i] = NoInfo => Presents(m, ticket[peer[i]]),
             m.type = "DISCONNECT" => gone'[i]
      PROVE  TalksOK'
  <2>1. /\ stage = "poll" /\ conn_state[i] = "CONNECTED" /\ ~gone[i]
        /\ UNCHANGED <<stage, conn_state, user_data, peer, backlog, ticket>>
        /\ \A j \in Conns : gone[j] => gone'[j]
        /\ \A j \in Conns \ {i} : gone'[j] = gone[j] /\ inbox'[j] = inbox[j]
        /\ inbox'[i] = Append(inbox[i], m) /\ inbox[i] \in Seq(Message)
        /\ gone[i] = FALSE /\ peer[i] \in Clients
    BY <1>2 DEF ClientSend, ClientQuit, IInv, ConnsOK
  <2>2. inbox'[i] # <<>>
    BY <2>1, AppendProperties
  <2>3. FramesOK(inbox'[i], user_data[i], ticket[peer[i]], gone'[i])
    <3>1. FramesOK(inbox[i], user_data[i], ticket[peer[i]], FALSE)
      BY <2>1 DEF TalksOK
    <3>2. user_data[i] = NoInfo => Presents(m, ticket[peer[i]])
      BY <1>2
    <3>3. FramesOK(Append(inbox[i], m), user_data[i], ticket[peer[i]], gone'[i])
      BY Zenon, <1>2, <2>1, <3>1, <3>2, FramesSent
    <3> QED
      BY <2>1, <3>3
  <2>4. ASSUME NEW a \in Conns, NEW b \in Conns
        PROVE  OnlyOneTalks(a, b)'
    <3>1. OnlyOneTalks(a, b) /\ OnlyOneTalks(b, a)
      BY DEF TalksOK
    <3>2. CASE a # i /\ b # i
      BY <2>1, <3>1, <3>2 DEF OnlyOneTalks
    <3>3. CASE a = i /\ b # i
      BY <2>1, <3>1, <3>3 DEF OnlyOneTalks
    <3>4. CASE b = i /\ a # i
      BY <2>1, <3>1, <3>4 DEF OnlyOneTalks
    <3> QED
      BY <3>2, <3>3, <3>4 DEF OnlyOneTalks
  <2>5. BacklogOK'
    BY <2>1 DEF TalksOK, BacklogOK
  <2>6. \A j \in Conns : FramesOK(inbox'[j], user_data'[j], ticket'[peer'[j]], gone'[j])
    BY <2>1, <2>3 DEF TalksOK
  <2> QED
    BY <2>1, <2>4, <2>5, <2>6 DEF TalksOK
<1>3. ASSUME NEW i \in Conns, ClientSend(i)
      PROVE  TalksOK'
  <2>1. PICK m \in SayableMessages(peer[i], i) : inbox' = [inbox EXCEPT ![i] = Append(@, m)]
    BY <1>3 DEF ClientSend
  <2>2. peer[i] \in Clients
    BY <1>3 DEF ClientSend, IInv, ConnsOK
  <2>3. m \in Message /\ m.type # "DISCONNECT"
    BY <2>2, SaysMessages DEF IInv, SayableMessages, Entries, Comebacks, Handshake, Request, Requests
  <2>4. user_data[i] = NoInfo => Presents(m, ticket[peer[i]])
    <3>1. SUFFICES ASSUME user_data[i] = NoInfo
                   PROVE  Presents(m, ticket[peer[i]])
      OBVIOUS
    <3>2. CASE m \in Entries(peer[i])
      BY <2>2, <3>2 DEF Entries, Presents, Handshake, Request
    <3>3. CASE m \in Comebacks(peer[i])
      <4>1. ticket[peer[i]] # NoTicket /\ m = Handshake(ticket[peer[i]].code, ticket[peer[i]].token)
        BY <3>3 DEF Comebacks
      <4>2. ticket[peer[i]] \in [code : Codes, token : Tokens]
        BY <2>2, <4>1 DEF IInv, RestOK
      <4> QED
        BY <4>1, <4>2 DEF Presents, Handshake
    <3> QED
      BY <3>1, <3>2, <3>3 DEF SayableMessages
  <2> QED
    BY <1>2, <1>3, <2>1, <2>3, <2>4
<1>4. ASSUME NEW i \in Conns, ClientQuit(i)
      PROVE  TalksOK'
  <2> DEFINE m == Request("DISCONNECT")
  <2>1. m \in Message /\ Presents(m, ticket[peer[i]])
    BY DEF Request, Message, Presents
  <2>2. inbox' = [inbox EXCEPT ![i] = Append(@, m)] /\ gone'[i]
    BY <1>4 DEF ClientQuit, IInv, ConnsOK
  <2> HIDE DEF m
  <2> QED
    BY <1>2, <1>4, <2>1, <2>2
<1>5. ASSUME NEW i \in Conns, ClientDrop(i)
      PROVE  TalksOK'
  <2>1. /\ UNCHANGED <<stage, conn_state, user_data, inbox, peer, backlog, ticket>>
        /\ \A j \in Conns : gone[j] => gone'[j]
    BY <1>5 DEF ClientDrop, IInv, ConnsOK
  <2>2. ASSUME NEW j \in Conns
        PROVE  FramesOK(inbox[j], user_data[j], ticket[peer[j]], gone'[j])
    <3>1. FramesOK(inbox[j], user_data[j], ticket[peer[j]], gone[j])
      BY DEF TalksOK
    <3> QED
      BY <2>1, <3>1, FramesStay
  <2> QED
    BY <2>1, <2>2 DEF TalksOK, OnlyOneTalks, BacklogOK
<1>6. CASE UNCHANGED vars \/ \E r \in Rooms : LobbyEloResult(r) \/ \E code \in Codes : LobbyCreateRoom(r, code)
  <2>1. UNCHANGED <<stage, conn_state, user_data, inbox, peer, gone, backlog, ticket>>
    BY <1>6 DEF vars, connVars, LobbyEloResult, LobbyCreateRoom
  <2> QED
    BY <2>1 DEF TalksOK, OnlyOneTalks, BacklogOK
<1> QED
  BY <1>1, <1>3, <1>4, <1>5, <1>6 DEF Environment

LEMMA TalksKept ==
  ASSUME IInv, IInv', TalksOK, [Next]_vars
  PROVE  TalksOK'
BY ServerTalks, AcceptTalks, EnvironmentTalks DEF Next

LEMMA InitTalks == Init => TokensOK /\ TalksOK
<1>1. Init => TokensOK
  BY DEF Init, TokensOK, SessionTokens, InactiveRoom, NewRoom, EmptySlot
<1>2. Init => TalksOK
  <2> SUFFICES ASSUME Init
               PROVE  TalksOK
    OBVIOUS
  <2>1. /\ backlog = <<>> /\ \A i \in Conns : inbox[i] = <<>> /\ peer[i] = NoClient
    BY DEF Init
  <2>2. \A i \in Conns : FramesOK(inbox[i], user_data[i], ticket[peer[i]], gone[i])
    BY <2>1, NoFrames
  <2> QED
    BY <2>1, <2>2 DEF TalksOK, OnlyOneTalks, BacklogOK
<1> QED
  BY <1>1, <1>2

\* A seat that was left, or that the AI had taken over, goes back only to the client
\* that was given its token for this very room, whatever the other clients send.
THEOREM SeatsReturnToOwners == Spec => SeatReturnsToItsOwner
<1>1. Spec => []TokensOK
  BY InitTalks, TokensKept, Invariance, PTL DEF Spec
<1>2. Spec => []TalksOK
  BY InitTalks, TalksKept, Invariance, PTL DEF Spec
<1>3. ASSUME IInv, TokensOK, TalksOK, [Next]_vars, NEW r \in Rooms, NEW s \in Seats,
             rooms[r].status = "PLAYING",
             rooms[r].slots[s].status \in {"DISCONNECTED", "AI"},
             rooms'[r].slots[s].status = "CONNECTED"
      PROVE  ticket[peer[rooms'[r].slots[s].conn_id]] =
               [code |-> rooms[r].code, token |-> rooms[r].slots[s].auth_token]
  <2> DEFINE room == rooms[r]
             old == Statuses(room)
             next == rooms'[r]
  <2>1. /\ GoodRoom(room) /\ room \in RoomRecord /\ old \in [Seats -> SlotStatus]
        /\ \A t \in Seats : room.slots[t] \in PlayerSlot
    BY <1>3 DEF IInv, RoomsOK, GoodRoom, RoomRecord, PlayerSlot, Statuses
  <2>2. PICK t \in Seats, i \in Conns :
          /\ HandshakeOn(i) /\ Returns(Msg(i), r, t)
          /\ next = RoomReconnect(room, t, i)
    <3>1. ~FlagsStep /\ ~Tick /\ ~Cleanup
      <4>0. InactiveRoom.slots[s].status = "EMPTY"
        BY DEF InactiveRoom, NewRoom, EmptySlot
      <4>1. ~FlagsStep
        BY <1>3, FlagsStepSeats DEF SameSeats
      <4>2. ASSUME Tick
            PROVE  FALSE
        <5>1. \/ next = InactiveRoom
              \/ \E moved, over : next = Played(UpdateTimers(room), moved, over)
          BY <1>3, <4>2 DEF Tick
        <5>2. PICK moved, over : next = Played(UpdateTimers(room), moved, over)
          BY <1>3, <4>0, <5>1
        <5>3. Statuses(next) = [t \in Seats |-> IF GraceOver(room.slots[t]) THEN "AI"
                                                  ELSE room.slots[t].status]
          BY <1>3, <2>1, <5>2, TickSeats
        <5> QED
          BY <1>3, <5>3 DEF Statuses
      <4>3. ASSUME Cleanup
            PROVE  FALSE
        <5>1. next = InactiveRoom \/ \E n : next = [room EXCEPT !.elo_wait_timer = n]
          BY Zenon, <4>3 DEF Cleanup
        <5>2. next = InactiveRoom \/ next.slots = room.slots
          BY <2>1, <5>1 DEF RoomRecord
        <5> QED
          BY <1>3, <4>0, <5>2
      <4> QED
        BY <4>1, <4>2, <4>3
    <3>0. PICK q \in Rooms : \E new :
            /\ Opened(q, new) \/ SeatTaken(q, new) \/ SeatLeft(q, new) \/ BotMoved(q, new)
                 \/ Started(q, new)
            /\ rooms' = [rooms EXCEPT ![q] = new]
      BY <1>3, <3>1, EveryStep DEF RoomsStep, OneRoomStep
    <3>2. PICK new :
            /\ Opened(q, new) \/ SeatTaken(q, new) \/ SeatLeft(q, new) \/ BotMoved(q, new)
                 \/ Started(q, new)
            /\ rooms' = [rooms EXCEPT ![q] = new]
      BY <3>0
    <3>3. q = r /\ next = new
      BY <1>3, <3>2 DEF IInv, RoomsOK
    <3>4. SeatTaken(r, next)
      <4>1. ~Opened(r, next) /\ ~BotMoved(r, next) /\ ~Started(r, next)
        BY <1>3 DEF Opened, Active, BotMoved, CanAddAI, CanRemoveAI, Started, CanStart
      <4>2. ASSUME SeatLeft(r, next)
            PROVE  FALSE
        <5>0. PICK t \in Seats, i \in Conns : Serves(rooms[r], t, i) /\ next = RoomLeave(rooms[r], t)
          BY <4>2 DEF SeatLeft
        <5>1. Statuses(next) = [old EXCEPT ![t] = "DISCONNECTED"]
          BY <1>3, <2>1, <5>0, RoomLeaveSeats DEF Serves
        <5> QED
          BY <1>3, <2>1, <5>1 DEF Statuses
      <4> QED
        BY <3>2, <3>3, <4>1, <4>2
    <3>5. PICK t \in Seats : \E taken :
            Taken(r, t, taken) /\ (next = taken \/ next = RoomLeave(taken, t))
      BY <3>4 DEF SeatTaken
    <3>6. PICK taken : Taken(r, t, taken) /\ (next = taken \/ next = RoomLeave(taken, t))
      BY <3>5
    <3>7. PICK i \in Conns :
            /\ HandshakeOn(i) /\ Returns(Msg(i), r, t)
            /\ taken = RoomReconnect(room, t, i)
      BY <1>3, <3>6 DEF Taken, Joins, CanJoin
    <3>8. ASSUME next = RoomLeave(taken, t)
          PROVE  FALSE
      <4>1. GoodRoom(taken) /\ taken.status = "PLAYING" /\ taken.slots[t].status = "CONNECTED"
            /\ Statuses(taken) = [old EXCEPT ![t] = "CONNECTED"]
        BY <1>3, <2>1, <3>6, <3>7, TakenGood, RoomReconnectSeats
      <4>2. /\ Statuses(next)[t] = "DISCONNECTED"
            /\ \A u \in Seats \ {t} : Statuses(next)[u] = Statuses(taken)[u]
        <5>1. taken.status # "WAITING" /\ taken.status # "INACTIVE"
          BY <4>1
        <5>2. Statuses(taken) \in [Seats -> SlotStatus]
          BY <2>1, <4>1 DEF SlotStatus
        <5>3. Statuses(RoomLeave(taken, t)) = [Statuses(taken) EXCEPT
                ![t] = IF taken.status = "WAITING" THEN "EMPTY" ELSE "DISCONNECTED"]
          BY Zenon, <4>1, <5>1, RoomLeaveSeats
        <5> QED
          BY <3>8, <5>1, <5>2, <5>3
      <4> QED
        BY <1>3, <2>1, <4>1, <4>2 DEF Statuses
    <3> QED
      BY <3>6, <3>7, <3>8
  <2>3. s = t /\ next.slots[s].conn_id = i
    <3>1. Statuses(next) = [old EXCEPT ![t] = "CONNECTED"] /\ Serves(next, t, i)
      BY <2>1, <2>2, RoomReconnectSeats, RoomReconnectGood DEF Returns
    <3>2. s = t
      BY <1>3, <2>1, <3>1 DEF Statuses
    <3> QED
      BY <3>1, <3>2 DEF Serves
  <2>4. /\ user_data[i] = NoInfo /\ inbox[i] \in Seq(Message) /\ inbox[i] # <<>>
        /\ Msg(i).type = "HANDSHAKE" /\ Msg(i).token \in Tokens
        /\ Msg(i).code = room.code /\ Msg(i).token = room.slots[s].auth_token
    BY <1>3, <2>2, <2>3, ConsumedOK
    DEF HandshakeOn, Handling, IsFirst, IInv, ConnsOK, Message, Returns, RoomWithCode, CanReconnect
  <2>5. Msg(i).token \notin Clients
    BY <1>3, <2>4, TokensAssumption, NullAssumption DEF TokensOK, SessionTokens, Tokens
  <2>6. Presents(Msg(i), ticket[peer[i]])
    <3>1. 1 \in 1 .. Len(inbox[i]) /\ Msg(i) = inbox[i][1]
      BY <2>4, EmptySeq DEF Msg
    <3> QED
      BY <1>3, <2>4, <3>1 DEF TalksOK, FramesOK
  <2> QED
    BY <2>3, <2>4, <2>5, <2>6 DEF Presents
<1>4. IInv /\ TokensOK /\ TalksOK /\ [Next]_vars =>
        [\A r \in Rooms, s \in Seats :
           /\ rooms[r].status = "PLAYING"
           /\ rooms[r].slots[s].status \in {"DISCONNECTED", "AI"}
           /\ rooms'[r].slots[s].status = "CONNECTED"
           => ticket[peer[rooms'[r].slots[s].conn_id]] =
                [code |-> rooms[r].code, token |-> rooms[r].slots[s].auth_token]]_rooms
  BY <1>3
<1> QED
  BY <1>1, <1>2, <1>4, Invariance, PTL DEF Spec, SeatReturnsToItsOwner

=============================================================================
