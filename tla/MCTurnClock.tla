----------------------------- MODULE MCTurnClock ------------------------------
(*****************************************************************************)
(* The clock of a turn: MCServerGame with the one thing the property needs   *)
(* that the server does not keep, how many ticks the turn has lasted.        *)
(*****************************************************************************)
EXTENDS MCServerGame

VARIABLE waited  \* ticks since the turn began

CardsOnTable == <<gs.round_number, gs.tricks_played, Len(gs.trick), gs.phase>>

ClockInit == Init /\ waited = 0
ClockNext ==
  /\ Next
  /\ waited' = IF CardsOnTable' # CardsOnTable THEN 0
               ELSE IF stage = "tick" /\ sg.play_substate = "WAIT_TURN" THEN waited + 1 ELSE waited
ClockSpec == ClockInit /\ [][ClockNext]_<<vars, waited>>

\* The server plays for a human player only when the turn has lasted the whole of its
\* time, however the turns before it ended. That is so as long as a tick of every round
\* sees a turn begin, such as one of an AI seat: the clock tells turns apart by their place
\* in the round, and takes one over from the round before when there was none.
NobodyIsCutShort ==
  [][stage = "tick" /\ Len(gs'.trick) = Len(gs.trick) + 1 /\ is_human[game_state_current_player(gs)]
       => waited + 1 >= TurnTicks]_<<vars, waited>>

=============================================================================
