------------------------------ MODULE ServerGame ------------------------------
(*****************************************************************************)
(* One playing room of the game server in the vanilla game mode: the        *)
(* sub-state machines of server/server_game.c that drive the rules of        *)
(* GameState from players' commands, the AI and timeouts, and the part of    *)
(* the server's loop around them that decides what the clients get to see.   *)
(*                                                                           *)
(* One turn of the loop is the stages "net" (commands, seats dropped and     *)
(* taken back), "grace" (seats whose grace period ends become AI seats),     *)
(* "tick" (server_game_tick) and "send" (sv_broadcast_state). Time is        *)
(* counted in ticks; a count stops where only a comparison is left of it.    *)
(* The grace period may end at any tick: ServerNet counts it.                *)
(*****************************************************************************)
EXTENDS GameState, FiniteSetsExt

CONSTANTS Owners,        \* the seats of human players
          Competitive,   \* ai_difficulty = 1
          Deals,         \* the dealings a shuffle may give
          PassTicks,     \* SV_PASS_TIMEOUT
          TurnTicks,     \* sv_full_turn_time
          ScoringTicks,  \* SV_SCORING_TIMEOUT
          AiPassTicks,   \* the longest ai_pass_delay
          AiPlayTicks,   \* the longest ai_play_delay
          NotSeen        \* what a client knows before the first state update

ASSUME SeatAssumption == Owners \subseteq Players /\ Owners # {} /\ Competitive \in BOOLEAN
ASSUME DealAssumption == Deals # {} /\ Deals \subseteq Dealings
ASSUME TimeAssumption ==
  /\ TurnTicks \in Nat \ {0} /\ ScoringTicks \in Nat \ {0}
  /\ PassTicks \in Nat /\ AiPassTicks \in 0 .. PassTicks /\ AiPlayTicks \in Nat

VARIABLES gs,              \* GameState
          sg,              \* the rest of ServerGame
          slots,           \* status of the seats
          is_human,        \* gs.players[].is_human
          force_broadcast,
          last_broadcast,  \* the fields of the room's change detector
          seen,            \* the last state update each client got
          stage

vars == <<gs, sg, slots, is_human, force_broadcast, last_broadcast, seen, stage>>
roomVars == <<slots, is_human, force_broadcast>>
netVars == <<force_broadcast, last_broadcast, seen>>

PassSubstates == {"IDLE", "CARD_SELECT", "EXECUTE", "TRANSMUTE"}
PlaySubstates == {"IDLE", "WAIT_TURN", "TRICK_BROADCAST", "TRICK_DONE"}
SlotStatus == {"CONNECTED", "DISCONNECTED", "AI"}
NoSeq == <<>>

Connected == {p \in Players : slots[p] = "CONNECTED"}

-----------------------------------------------------------------------------
\* The points of the whole deck: 26 in the code.
AllPoints == MapThenSumSet(card_points, Deck)

Detected == [phase |-> gs.phase, num_played |-> Len(gs.trick),
             tricks_played |-> gs.tricks_played, round_number |-> gs.round_number,
             hand_counts |-> [p \in Players |-> Cardinality(gs.hand[p])]]

\* server_game_init, server_game_start and the seats room_start fills.
Init ==
  \E hands \in Deals :
    /\ gs = NewGame(hands)
    /\ sg = [pass_substate |-> "IDLE", play_substate |-> "IDLE", pass_phase_timer |-> 0,
             ai_pass_delay |-> [p \in Players |-> 0], ai_play_left |-> 0,
             turn_timer |-> 0, turn_timer_seq |-> NoSeq,
             scoring_evaluated |-> FALSE, scoring_ready |-> [p \in Players |-> FALSE],
             scoring_wait_timer |-> 0, game_active |-> TRUE, state_dirty |-> FALSE,
             last_trick_winner |-> NoPlayer, comp_seat |-> [p \in Players |-> 0]]
    /\ slots = [p \in Players |-> IF p \in Owners THEN "CONNECTED" ELSE "AI"]
    /\ is_human = [p \in Players |-> p \in Owners]
    /\ force_broadcast = FALSE
    /\ last_broadcast = [phase |-> "NONE", num_played |-> 0, tricks_played |-> 0,
                         round_number |-> 0, hand_counts |-> [p \in Players |-> 0]]
    /\ seen = [p \in Players |-> NotSeen]
    /\ stage = "tick"

-----------------------------------------------------------------------------
(* Commands of connected players: server_game_apply_cmd. A rejected command  *)
(* changes nothing.                                                          *)

Commands(p) == stage = "net" /\ p \in Connected /\ UNCHANGED <<roomVars, last_broadcast, seen, stage>>

\* INPUT_CMD_SELECT_CARD selects a card to pass, or takes the selection back.
SelectCard(p, card) ==
  /\ Commands(p)
  /\ sg.pass_substate = "CARD_SELECT" /\ ~gs.pass_ready[p]
  /\ card \in gs.hand[p]
  /\ LET selected == gs.pass_selections[p]
     IN  \/ /\ card \in selected
            /\ gs' = [gs EXCEPT !.pass_selections[p] = selected \ {card}]
         \/ /\ card \notin selected /\ Cardinality(selected) < gs.pass_card_count
            /\ gs' = [gs EXCEPT !.pass_selections[p] = selected \cup {card}]
  /\ UNCHANGED sg

\* INPUT_CMD_CONFIRM while cards are selected submits them ...
ConfirmPass(p) ==
  /\ Commands(p)
  /\ sg.pass_substate = "CARD_SELECT" /\ ~gs.pass_ready[p]
  /\ Cardinality(gs.pass_selections[p]) = gs.pass_card_count
  /\ CanSelectPass(gs, p, gs.pass_selections[p])
  /\ gs' = game_state_select_pass(gs, p, gs.pass_selections[p])
  /\ UNCHANGED sg

\* ... and while the scores are shown it says that the player has seen them.
ConfirmScores(p) ==
  /\ Commands(p)
  /\ gs.phase = "SCORING" /\ sg.scoring_evaluated
  /\ sg' = [sg EXCEPT !.scoring_ready[p] = TRUE, !.state_dirty = TRUE]
  /\ UNCHANGED gs

\* Slip: a full trick is resolved at once, without the tick that shows it.
AfterPlayUnseen(trick) == IF trick_is_complete(trick) THEN "TRICK_DONE" ELSE "WAIT_TURN"

AfterPlay(trick) == IF trick_is_complete(trick) THEN "TRICK_BROADCAST" ELSE "WAIT_TURN"

\* INPUT_CMD_PLAY_CARD
PlayCard(p, card) ==
  /\ Commands(p)
  /\ sg.play_substate = "WAIT_TURN"
  /\ game_state_is_valid_play(gs, p, card)
  /\ gs' = game_state_play_card(gs, p, card)
  /\ sg' = [sg EXCEPT !.play_substate = AfterPlay(gs'.trick)]

-----------------------------------------------------------------------------
(* Seats: room_leave, room_reconnect and room_update_timers in a playing room *)

Leave(p) ==
  /\ stage = "net" /\ p \in Connected
  /\ slots' = [slots EXCEPT ![p] = "DISCONNECTED"]
  /\ seen' = [seen EXCEPT ![p] = NotSeen]
  /\ UNCHANGED <<gs, sg, is_human, force_broadcast, last_broadcast, stage>>

\* Slip: the player is back but gets no state update before the next change.
ForcedNever == FALSE

Forced == TRUE

Return(p) ==
  /\ stage = "net" /\ p \in Owners \ Connected
  /\ slots' = [slots EXCEPT ![p] = "CONNECTED"]
  /\ is_human' = [is_human EXCEPT ![p] = TRUE]
  /\ force_broadcast' = Forced
  /\ UNCHANGED <<gs, sg, last_broadcast, seen, stage>>

NetDone == stage = "net" /\ stage' = "grace"
           /\ UNCHANGED <<gs, sg, roomVars, last_broadcast, seen>>

\* Some grace periods end. A room with neither a player nor one to wait for is destroyed.
Grace ==
  /\ stage = "grace"
  /\ \E expired \in SUBSET {p \in Players : slots[p] = "DISCONNECTED"} :
       /\ slots' = [p \in Players |-> IF p \in expired THEN "AI" ELSE slots[p]]
       /\ is_human' = [p \in Players |-> is_human[p] /\ p \notin expired]
  /\ stage' = IF \A p \in Players : slots'[p] = "AI" THEN "closed" ELSE "tick"
  /\ UNCHANGED <<gs, sg, netVars>>

-----------------------------------------------------------------------------
(* Automatic choices *)

\* sv_ai_select_pass: the cards worth most to give away.
AiPasses(p) ==
  {cards \in kSubset(gs.pass_card_count, gs.hand[p]) :
     \A a \in cards, b \in gs.hand[p] \ cards : Worse(a, b)}

\* comp_ai_select_pass: its evaluation may choose any cards, of the hand of its my_seat.
CompPasses(p) == kSubset(gs.pass_card_count, gs.hand[sg.comp_seat[p]])

Legal(p) == {c \in gs.hand[p] : game_state_is_valid_play(gs, p, c)}

\* sv_ai_play_card: the first card that may be played; if none may, the first card.
AutoCards(p) == FirstCard(IF Legal(p) # {} THEN Legal(p) ELSE gs.hand[p])

\* comp_ai_play_card scores the legal cards of the player; any of them may come out.
AiCards(p) == IF Competitive /\ Legal(p) # {} THEN Legal(p) ELSE AutoCards(p)

-----------------------------------------------------------------------------
(* server_game_tick *)

Ticks == stage = "tick" /\ stage' = "send" /\ UNCHANGED <<roomVars, last_broadcast, seen>>

VanillaRotation == <<"LEFT", "RIGHT", "ACROSS", "NONE">>
Direction == VanillaRotation[((gs.round_number - 1) % 4) + 1]

\* comp_ai_init_hand, for the seats the AI plays when the hand begins.
CompSeats == [p \in Players |-> IF Competitive /\ ~is_human[p] THEN p ELSE sg.comp_seat[p]]

\* The deal of a round without a pass goes straight to the first turn.
DealNoPass ==
  /\ Ticks /\ gs.phase = "DEALING" /\ Direction = "NONE"
  /\ gs' = [gs EXCEPT !.pass_direction = "NONE", !.pass_card_count = 0, !.trick = <<>>,
                      !.lead_player = game_state_find_two_of_clubs(gs.hand),
                      !.phase = "PLAYING"]
  /\ sg' = [sg EXCEPT !.comp_seat = CompSeats, !.pass_substate = "IDLE",
                      !.play_substate = "WAIT_TURN", !.pass_phase_timer = 0,
                      !.state_dirty = TRUE]

\* Any other deal opens the selection of the cards to pass.
DealPass ==
  /\ Ticks /\ gs.phase = "DEALING" /\ Direction # "NONE"
  /\ gs' = [gs EXCEPT !.pass_direction = Direction, !.pass_card_count = PassCardCount,
                      !.phase = "PASSING"]
  /\ \E delay \in [Players -> 0 .. AiPassTicks] :
       /\ \A p \in Players : is_human[p] => delay[p] = 0
       /\ sg' = [sg EXCEPT !.comp_seat = CompSeats, !.pass_substate = "CARD_SELECT",
                           !.pass_phase_timer = 0, !.ai_pass_delay = delay]

\* Slip: the timeout replaces also what a player has confirmed.
MustPassAll(p, timer) ==
  \/ ~is_human[p] /\ ~gs.pass_ready[p] /\ timer >= sg.ai_pass_delay[p]
  \/ is_human[p] /\ timer > PassTicks

\* The AI passes after its delay, for a player who has not confirmed after the timeout.
MustPass(p, timer) ==
  /\ ~gs.pass_ready[p]
  /\ IF is_human[p] THEN timer > PassTicks ELSE timer >= sg.ai_pass_delay[p]

\* SV_PASS_CARD_SELECT. A choice game_state_select_pass refuses leaves the seat as it was.
TickSelect ==
  /\ Ticks /\ gs.phase = "PASSING" /\ sg.pass_substate = "CARD_SELECT"
  /\ LET timer == IF sg.pass_phase_timer > PassTicks THEN sg.pass_phase_timer
                                                     ELSE sg.pass_phase_timer + 1
         choices(p) == IF ~MustPass(p, timer) THEN {{}}
                       ELSE IF Competitive /\ ~is_human[p] THEN CompPasses(p) ELSE AiPasses(p)
     IN  \E c0 \in choices(0), c1 \in choices(1), c2 \in choices(2), c3 \in choices(3) :
           LET choice == [p \in Players |-> <<c0, c1, c2, c3>>[p + 1]]
               passes(p) == MustPass(p, timer) /\ CanSelectPass(gs, p, choice[p])
           IN  /\ gs' = [gs EXCEPT !.pass_selections =
                                     [p \in Players |-> IF passes(p) THEN choice[p] ELSE @[p]],
                                   !.pass_ready = [p \in Players |-> @[p] \/ passes(p)]]
               /\ sg' = [sg EXCEPT !.pass_phase_timer = timer,
                                   !.pass_substate =
                                     IF game_state_all_passes_ready(gs') THEN "EXECUTE" ELSE @]

\* SV_PASS_EXECUTE
TickExecute ==
  /\ Ticks /\ gs.phase = "PASSING" /\ sg.pass_substate = "EXECUTE"
  /\ gs' = game_state_execute_pass(gs)
  /\ sg' = [sg EXCEPT !.pass_substate = "TRANSMUTE"]

\* SV_PASS_TRANSMUTE: nothing to transmute, the play begins.
TickTransmute ==
  /\ Ticks /\ gs.phase = "PASSING" /\ sg.pass_substate = "TRANSMUTE"
  /\ gs' = [gs EXCEPT !.phase = "PLAYING"]
  /\ sg' = [sg EXCEPT !.pass_substate = "IDLE", !.play_substate = "WAIT_TURN"]

\* Slip: turns are told apart by the player only.
TurnSeqByPlayer == <<game_state_current_player(gs)>>

TurnSeq == <<gs.tricks_played, Len(gs.trick), game_state_current_player(gs)>>

WinnerShown == IF gs.trick = <<>> THEN NoPlayer ELSE sg.last_trick_winner

\* SV_PLAY_WAIT_TURN: whose turn it is, with a full clock when the turn is new.
OnTheClock ==
  IF TurnSeq = sg.turn_timer_seq
  THEN [sg EXCEPT !.last_trick_winner = WinnerShown]
  ELSE [sg EXCEPT !.last_trick_winner = WinnerShown, !.turn_timer = TurnTicks,
                  !.turn_timer_seq = TurnSeq, !.state_dirty = TRUE]

WaitTurn == Ticks /\ gs.phase = "PLAYING" /\ sg.play_substate = "WAIT_TURN"

\* The clock of a human player runs, whether the player is connected or not.
TickHuman ==
  LET current == game_state_current_player(gs)
      clock == OnTheClock.turn_timer - 1
  IN  /\ WaitTurn /\ is_human[current]
      /\ \/ /\ clock > 0
            /\ sg' = [OnTheClock EXCEPT !.turn_timer = clock]
            /\ UNCHANGED gs
         \/ /\ clock <= 0
            /\ \E card \in AutoCards(current) : gs' = game_state_play_card(gs, current, card)
            /\ sg' = [OnTheClock EXCEPT !.turn_timer = 0, !.state_dirty = TRUE,
                                        !.play_substate = AfterPlay(gs'.trick)]

\* The AI thinks for some ticks and plays.
TickAI ==
  LET current == game_state_current_player(gs)
  IN  /\ WaitTurn /\ ~is_human[current]
      /\ \E left \in IF sg.ai_play_left = -1 THEN 0 .. AiPlayTicks ELSE {sg.ai_play_left} :
           \/ /\ left > 0
              /\ sg' = [OnTheClock EXCEPT !.ai_play_left = left - 1]
              /\ UNCHANGED gs
           \/ /\ left = 0
              /\ \E card \in AiCards(current) : gs' = game_state_play_card(gs, current, card)
              /\ sg' = [OnTheClock EXCEPT !.ai_play_left = -1,
                                          !.play_substate = AfterPlay(gs'.trick)]

\* SV_PLAY_TRICK_BROADCAST: one tick, so that the whole trick is sent.
TickBroadcast ==
  /\ Ticks /\ gs.phase = "PLAYING" /\ sg.play_substate = "TRICK_BROADCAST"
  /\ sg' = [sg EXCEPT !.play_substate = "TRICK_DONE"]
  /\ UNCHANGED gs

\* SV_PLAY_TRICK_DONE: sv_resolve_trick and sv_check_post_trick_effects.
TickTrickDone ==
  /\ Ticks /\ gs.phase = "PLAYING" /\ sg.play_substate = "TRICK_DONE"
  /\ gs' = game_state_complete_trick(gs)
  /\ sg' = [sg EXCEPT !.last_trick_winner = trick_get_winner(gs.trick), !.state_dirty = TRUE,
                      !.play_substate = IF gs'.phase = "PLAYING" THEN "WAIT_TURN" ELSE "IDLE"]

\* sv_do_scoring, first tick: the scores are final and are sent.
TickEvaluate ==
  /\ Ticks /\ gs.phase = "SCORING" /\ ~sg.scoring_evaluated
  /\ sg' = [sg EXCEPT !.scoring_evaluated = TRUE, !.scoring_wait_timer = 0,
                      !.scoring_ready = [p \in Players |-> FALSE], !.state_dirty = TRUE]
  /\ UNCHANGED gs

\* Slip: there is no timeout.
ScoresDoneByAll == \A p \in Players : sg.scoring_ready[p]

ScoresDone ==
  \/ \A p \in Players : sg.scoring_ready[p]
  \/ sg.scoring_wait_timer + 1 >= ScoringTicks

\* The ticks after it wait for every seat to confirm or for the timeout.
TickScoresWait ==
  /\ Ticks /\ gs.phase = "SCORING" /\ sg.scoring_evaluated /\ ~ScoresDone
  /\ sg' = [sg EXCEPT !.scoring_wait_timer = IF @ < ScoringTicks THEN @ + 1 ELSE @]
  /\ UNCHANGED gs

TickAdvance ==
  /\ Ticks /\ gs.phase = "SCORING" /\ sg.scoring_evaluated /\ ScoresDone
  /\ \E hands \in Deals : gs' = game_state_advance_scoring(gs, hands)
  /\ sg' = [sg EXCEPT !.pass_substate = "IDLE", !.play_substate = "IDLE",
                      !.scoring_evaluated = FALSE, !.game_active = gs'.phase # "GAME_OVER"]

Tick ==
  \/ DealNoPass \/ DealPass \/ TickSelect \/ TickExecute \/ TickTransmute
  \/ TickHuman \/ TickAI \/ TickBroadcast \/ TickTrickDone
  \/ TickEvaluate \/ TickScoresWait \/ TickAdvance

-----------------------------------------------------------------------------
(* sv_broadcast_state *)

\* net_build_player_view: what a state update shows, but for what is told in messages of
\* its own (pass_ready), known to the player (the own selection) or running (turn_timer).
View(p) ==
  [phase |-> gs.phase, selecting |-> sg.pass_substate = "CARD_SELECT",
   round_number |-> gs.round_number, pass_direction |-> gs.pass_direction,
   pass_card_count |-> gs.pass_card_count, lead_player |-> gs.lead_player,
   hearts_broken |-> gs.hearts_broken, tricks_played |-> gs.tricks_played,
   hand |-> gs.hand[p], hand_counts |-> Detected.hand_counts,
   round_points |-> gs.round_points, total_score |-> gs.total_score, trick |-> gs.trick,
   current_player |-> game_state_current_player(gs), trick_winner |-> sg.last_trick_winner]

Changed == force_broadcast \/ sg.state_dirty \/ Detected # last_broadcast

Send ==
  /\ stage = "send"
  /\ IF Connected # {} /\ Changed
     THEN /\ last_broadcast' = Detected
          /\ force_broadcast' = FALSE
          /\ sg' = [sg EXCEPT !.state_dirty = FALSE]
          /\ seen' = [p \in Players |-> IF p \in Connected THEN View(p) ELSE seen[p]]
     ELSE UNCHANGED <<last_broadcast, force_broadcast, sg, seen>>
  /\ stage' = IF sg.game_active THEN "net" ELSE "over"
  /\ UNCHANGED <<gs, slots, is_human>>

\* The game is over, and ServerNet closes the room; or the room was destroyed.
Ended == stage \in {"over", "closed"} /\ UNCHANGED vars

-----------------------------------------------------------------------------
Commanded == \E p \in Players :
  \/ \E card \in gs.hand[p] : SelectCard(p, card) \/ PlayCard(p, card)
  \/ ConfirmPass(p) \/ ConfirmScores(p)

Seating == \E p \in Players : Leave(p) \/ Return(p)

Loop == NetDone \/ Grace \/ Tick \/ Send

Next == Commanded \/ Seating \/ Loop \/ Ended

Spec == Init /\ [][Next]_vars

\* The main loop goes on whatever the players do.
FairSpec == Spec /\ WF_vars(Loop)

-----------------------------------------------------------------------------
(* Properties *)

ServerGames ==
  [pass_substate : PassSubstates, play_substate : PlaySubstates,
   pass_phase_timer : Nat, ai_pass_delay : [Players -> Nat], ai_play_left : Int,
   turn_timer : Nat, turn_timer_seq : Seq(Int),
   scoring_evaluated : BOOLEAN, scoring_ready : [Players -> BOOLEAN], scoring_wait_timer : Nat,
   game_active : BOOLEAN, state_dirty : BOOLEAN, last_trick_winner : Players \cup {NoPlayer},
   comp_seat : [Players -> Players]]

\* Every variable has its type.
TypeOK ==
  /\ gs \in GameStates /\ Len(gs.trick) <= CardsPerTrick
  /\ sg \in ServerGames
  /\ slots \in [Players -> SlotStatus]
  /\ is_human \in [Players -> BOOLEAN] /\ force_broadcast \in BOOLEAN
  /\ DOMAIN seen = Players
  /\ stage \in {"net", "grace", "tick", "send", "over", "closed"}

InTrick(p) == gs.phase = "PLAYING" /\ \E i \in DOMAIN gs.trick : gs.trick[i].player = p

\* Through passes, timeouts, AI takeovers and plays no card is lost or doubled: hands
\* and trick are disjoint, and every hand is as short as the tricks played make it.
EveryCardOnce ==
  /\ \A p, q \in Players : p # q => gs.hand[p] \cap gs.hand[q] = {}
  /\ \A p \in Players, i \in DOMAIN gs.trick : gs.trick[i].card \notin gs.hand[p]
  /\ \A i, j \in DOMAIN gs.trick : i # j => gs.trick[i].card # gs.trick[j].card
  /\ \A p \in Players : Cardinality(gs.hand[p]) =
       TricksPerRound - gs.tricks_played - (IF InTrick(p) THEN 1 ELSE 0)

Sum(f) == f[0] + f[1] + f[2] + f[3]

\* The points of the deck are all somewhere: taken, in the trick or in the hands; and a
\* finished round gives out either each of them once or, for a moon, each three times.
PointsAddUp ==
  IF gs.phase \in {"SCORING", "GAME_OVER"}
  THEN IF gs.moon_shooter = NoPlayer THEN Sum(gs.round_points) = AllPoints
       ELSE /\ Sum(gs.round_points) = 3 * AllPoints
            /\ gs.round_points[gs.moon_shooter] = 0
  ELSE Sum(gs.round_points) + trick_count_points(gs.trick)
       + MapThenSumSet(card_points, UNION {gs.hand[p] : p \in Players}) = AllPoints

\* What a player has confirmed for the pass stays as it is until the cards move, also
\* when the player drops and the AI or the timeout passes for the others.
ConfirmedPassIsKept ==
  [][\A p \in Players :
       gs.pass_ready[p] /\ gs'.pass_ready[p] => gs'.pass_selections[p] = gs.pass_selections[p]]_gs

\* A trick is resolved only when every client that was connected at the last state
\* update has been shown its four cards.
TricksAreSeenWhole ==
  [][gs'.tricks_played = gs.tricks_played + 1 =>
       \A p \in Connected : seen[p] # NotSeen => seen[p].trick = gs.trick /\ Len(gs.trick) = 4]_gs

\* The change detector misses nothing: when the updates have gone out, what a connected
\* client has is the state of the game. Between the exchange of the cards and the start
\* of the play the new hand is one tick late; and the winner of the last trick may still be
\* told before the first card of the next: where the turn has the number of the last one a
\* tick has seen, in the round before, it is cleared without a word.
ShowsAll(update, view) ==
  \E winner \in Players \cup {NoPlayer} :
    /\ update = [view EXCEPT !.trick_winner = winner]
    /\ view.trick # <<>> => winner = view.trick_winner
ClientsUpToDate ==
  [][stage = "send" /\ sg.pass_substate \notin {"EXECUTE", "TRANSMUTE"} =>
       \A p \in Connected : ShowsAll(seen'[p], View(p)')]_stage

\* The table, who leads and the stage of the round, as the players know them.
Playing == gs.phase = "PLAYING" \/ sg.pass_substate = "TRANSMUTE"
Laid(trick) == [p \in {trick[i].player : i \in DOMAIN trick} |->
                  trick[CHOOSE i \in DOMAIN trick : trick[i].player = p].card]
Table == IF gs.phase = "PLAYING" THEN Laid(gs.trick) ELSE [p \in {} |-> 0]
Leader == IF Playing THEN gs.lead_player ELSE NoPlayer
RoundStage == CASE Playing -> "play"
                [] gs.phase = "SCORING" -> "score"
                [] gs.phase = "GAME_OVER" -> "over"
                [] OTHER -> "pass"

Rules == INSTANCE HeartsTable WITH
  hands <- gs.hand, table <- Table, leader <- Leader, broken <- gs.hearts_broken,
  taken <- gs.round_points, total <- gs.total_score, stage <- RoundStage
\* The rules of Hearts are kept by every step of the server: HeartsTable.
RulesKept == Rules!Spec

\* The game comes to its end: nobody can hold it up for ever.
GameEnds == <>(stage \in {"over", "closed"})

=============================================================================
