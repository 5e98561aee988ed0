----------------------------- MODULE SeatLifecycle -----------------------------
(*****************************************************************************)
(* What hh-server promises of one room, whatever happens to its connections: *)
(* the life of the room and of its seats, without tokens, timers, sockets or *)
(* stages (the enumerations of server/room.h and the protocol described in   *)
(* its operations' comments).  ServerNet implements it for every room.       *)
(*****************************************************************************)
CONSTANT Seats

VARIABLES
  phase,    \* Room.status
  seat      \* Room.slots[].status

lifeVars == <<phase, seat>>

AllEmpty == [s \in Seats |-> "EMPTY"]
With(status) == {s \in Seats : seat[s] = status}

Init == phase = "INACTIVE" /\ seat = AllEmpty

\* A room is opened by the lobby, or by a player who takes its first seat.
Open ==
  /\ phase = "INACTIVE" /\ phase' = "WAITING"
  /\ \/ seat' = AllEmpty
     \/ \E s \in Seats : seat' = [AllEmpty EXCEPT ![s] = "CONNECTED"]

\* Seats of a waiting room are taken and freed one at a time, by players and bots.
Fill ==
  /\ phase = "WAITING" /\ UNCHANGED phase
  /\ \E s \in With("EMPTY"), who \in {"CONNECTED", "AI"} : seat' = [seat EXCEPT ![s] = who]

Free ==
  /\ phase = "WAITING" /\ UNCHANGED phase
  /\ \E s \in With("CONNECTED") \cup With("AI") : seat' = [seat EXCEPT ![s] = "EMPTY"]

\* A waiting room ends with its last player, bots do not keep it.
Desert ==
  /\ phase = "WAITING" /\ phase' = "INACTIVE"
  /\ \A s, t \in With("CONNECTED") : s = t
  /\ seat' = AllEmpty

Start ==
  /\ phase = "WAITING" /\ phase' = "PLAYING"
  /\ With("EMPTY") = {}
  /\ UNCHANGED seat

\* A player of a game or of its result drops; the seat stays the player's.
Drop ==
  /\ phase \in {"PLAYING", "FINISHED"} /\ UNCHANGED phase
  /\ \E s \in With("CONNECTED") : seat' = [seat EXCEPT ![s] = "DISCONNECTED"]

\* A player comes back; one the server has no memory for has the grace period anew.
Return ==
  /\ phase = "PLAYING" /\ UNCHANGED phase
  /\ \E s \in With("DISCONNECTED") \cup With("AI"), status \in {"CONNECTED", "DISCONNECTED"} :
       seat' = [seat EXCEPT ![s] = status]

\* A tick of the game: the AI takes over some of the seats left, the game ends or not.
PlayOn ==
  /\ phase = "PLAYING" /\ phase' \in {"PLAYING", "FINISHED"}
  /\ \E S \in SUBSET With("DISCONNECTED") :
       seat' = [s \in Seats |-> IF s \in S THEN "AI" ELSE seat[s]]

\* A game nobody will come back to is destroyed, and so is a finished one.
Abandon ==
  /\ phase = "PLAYING" /\ phase' = "INACTIVE"
  /\ With("CONNECTED") = {} /\ seat' = AllEmpty

Close ==
  /\ phase = "FINISHED" /\ phase' = "INACTIVE"
  /\ seat' = AllEmpty

Next == Open \/ Fill \/ Free \/ Desert \/ Start \/ Drop \/ Return \/ PlayOn \/ Abandon \/ Close
Spec == Init /\ [][Next]_lifeVars

=============================================================================
