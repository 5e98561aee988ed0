------------------------------ MODULE TurnFlow ------------------------------
(***************************************************************************)
(* What a client shows of a game, and when.  The server's updates wait in a *)
(* queue while cards fly, are thrown to other players or are piled up       *)
(* (main.c); the pass (game/pass_phase.c) and the tricks (game/turn_flow.c) *)
(* are shown step by step from those that are let through.  The server is   *)
(* its updates and their order, with every timeout at any time.  Not here   *)
(* are the looks of it all, the draft, and the duel, which the draft never  *)
(* deals (phase2/contract_logic.c).                                         *)
(***************************************************************************)
EXTENDS Integers, Sequences

CONSTANTS
  MySeat,           \* the client's seat at the server
  Winners,          \* the seats that lead and win
  Passers,          \* the seats whose passes are told apart
  TricksPerRound,
  MaxRounds,        \* bound: rounds of a game
  MaxRogues,        \* bound: rogues of a round
  MaxRepeats,       \* bound: updates that repeat the one before
  STATE_QUEUE_CAP,
  Reconnecting      \* the client comes from the menu into a round that is being played

ASSUME FlowAssumption ==
  /\ MySeat \in 0 .. 3 /\ Winners \subseteq 0 .. 3
  /\ TricksPerRound \in Nat \ {0} /\ STATE_QUEUE_CAP \in Nat \ {0}

VARIABLES
  srv,      \* the game at the server, and who has confirmed the pass
  repeats,  \* how many updates have repeated another
  asked,    \* the player's choice of a suit is on its way
  lost,     \* an update has been dropped from the full queue
  cl        \* the client: GameState, Phase2State, TurnFlow, PassPhaseState, RenderState

vars == <<srv, repeats, asked, lost, cl>>

NoSeat == -1
NoReveal == 0
NoTrick == [round |-> 0, tricks_played |-> 0, num_played |-> 0]
CARDS_PER_TRICK == 4
Piled == CARDS_PER_TRICK + 1

InGame == {"DEALING", "PASSING", "PLAYING", "SCORING"}
TossSteps == {"TOSS_ANIM", "TOSS_WAIT", "REVEAL", "RECEIVE"}

-----------------------------------------------------------------------------
(* The server's updates *)

ServerStart(phase) ==
  [phase |-> phase, sub |-> "DEALER", round |-> 1, passing |-> FALSE, tricks_played |-> 0,
   num_played |-> 0, lead |-> MySeat, pending |-> NoSeat, revealed |-> NoReveal,
   ready |-> {}, rogues |-> 0]

View(s) == [f \in DOMAIN s \ {"ready", "rogues"} |-> s[f]]

\* Slip: a full queue keeps its oldest update.
EnqueueUnlessFull(views, v) == IF Len(views) < STATE_QUEUE_CAP THEN Append(views, v) ELSE views

\* client_net: a full queue loses its oldest update.
Enqueue(views, v) ==
  IF Len(views) < STATE_QUEUE_CAP THEN Append(views, v) ELSE Append(Tail(views), v)

Broadcast(s) ==
  /\ srv' = s
  /\ cl' = [cl EXCEPT !.views = Enqueue(@, View(s))]
  /\ lost' = (lost \/ Len(cl.views) = STATE_QUEUE_CAP)

ServerDeals ==
  /\ srv.phase = "DEALING"
  /\ \/ Broadcast([srv EXCEPT !.phase = "PASSING", !.sub = "CARD_PASS", !.passing = TRUE])
     \/ \E p \in Winners : Broadcast([srv EXCEPT !.phase = "PLAYING", !.passing = FALSE, !.lead = p])
  /\ UNCHANGED <<repeats, asked>>

\* A player, an AI or the timeout confirms a pass. The message has a queue of its own, of
\* one place for every seat.
ServerConfirms(p) ==
  /\ srv.sub = "CARD_PASS" /\ p \notin srv.ready
  /\ srv' = [srv EXCEPT !.ready = @ \cup {p}]
  /\ cl' = [cl EXCEPT !.confirmed = @ \cup {p}]
  /\ UNCHANGED <<repeats, asked, lost>>

\* The exchange of the cards is not told by itself.
ServerExecutes ==
  /\ srv.sub = "CARD_PASS" /\ srv.ready = Passers
  /\ srv' = [srv EXCEPT !.sub = "DEALER"]
  /\ UNCHANGED <<repeats, asked, lost, cl>>

ServerStartsPlay ==
  /\ srv.phase = "PASSING" /\ srv.sub = "DEALER"
  /\ \E p \in Winners : Broadcast([srv EXCEPT !.phase = "PLAYING", !.lead = p])
  /\ UNCHANGED <<repeats, asked>>

ServerPlays ==
  /\ srv.phase = "PLAYING" /\ srv.pending = NoSeat /\ srv.num_played < CARDS_PER_TRICK
  /\ Broadcast([srv EXCEPT !.num_played = @ + 1])
  /\ UNCHANGED <<repeats, asked>>

\* A rogue in the trick that is not the last makes the server wait for its owner, unless
\* that is an AI, whose choice is made in the same tick.
ServerResolves ==
  /\ srv.phase = "PLAYING" /\ srv.num_played = CARDS_PER_TRICK
  /\ \E p \in Winners :
       LET next == [srv EXCEPT !.num_played = 0, !.tricks_played = @ + 1, !.lead = p]
       IN  \/ Broadcast([next EXCEPT !.phase = IF next.tricks_played = TricksPerRound THEN "SCORING" ELSE @])
           \/ /\ next.tricks_played < TricksPerRound /\ srv.rogues < MaxRogues
              /\ \/ Broadcast([next EXCEPT !.pending = p, !.rogues = @ + 1])
                 \/ p # MySeat /\ Broadcast([next EXCEPT !.rogues = @ + 1, !.revealed = srv.rogues + 1])
  /\ UNCHANGED <<repeats, asked>>

ServerReveals ==
  /\ srv.pending # NoSeat
  /\ srv.pending = MySeat => asked
  /\ asked' = FALSE
  /\ Broadcast([srv EXCEPT !.pending = NoSeat, !.revealed = srv.rogues])
  /\ UNCHANGED repeats

ServerScores ==
  /\ srv.phase = "SCORING"
  /\ Broadcast(IF srv.round = MaxRounds THEN [srv EXCEPT !.phase = "GAME_OVER"]
               ELSE [ServerStart("DEALING") EXCEPT !.round = srv.round + 1])
  /\ UNCHANGED <<repeats, asked>>

\* A turn's clock, the result of the contracts, a player's drop or return.
ServerRepeats ==
  /\ repeats < MaxRepeats
  /\ repeats' = repeats + 1
  /\ Broadcast(srv)
  /\ UNCHANGED asked

Server ==
  \/ ServerDeals \/ (\E p \in Passers : ServerConfirms(p)) \/ ServerExecutes \/ ServerStartsPlay
  \/ ServerPlays \/ ServerResolves \/ ServerReveals \/ ServerScores \/ ServerRepeats

-----------------------------------------------------------------------------
(* The pass *)

\* pass_start_single_toss, for each of some seats: the cards of a seat are thrown once, and
\* the card selection ends when those of the player itself are.
Toss(c, seats) ==
  [c EXCEPT !.toss_started = @ \cup seats, !.async_toss = TRUE,
            !.sub = IF @ = "CARD_PASS" /\ 0 \in c.toss_started \cup seats THEN "TOSS_ANIM" ELSE @]

Selecting(c) == c.phase = "PASSING" /\ c.passing /\ c.sub \in {"CARD_PASS", "TOSS_ANIM"}

\* Confirmations are taken in every frame, with the seats as the server numbers them.
TakeConfirmed(c) ==
  IF Selecting(c) /\ ~c.settings /\ c.confirmed # {}
  THEN [Toss(c, c.confirmed) EXCEPT !.confirmed = {}]
  ELSE c

\* The first update of the play starts the throws that are still missing, or all of them at
\* once, and is itself left in the queue.
StartPassAnim(c) ==
  IF c.async_toss THEN [Toss(c, Passers) EXCEPT !.pass_anim = TRUE]
  ELSE [c EXCEPT !.pass_anim = TRUE, !.sub = "TOSS_ANIM"]

\* pass_subphase_update, when the throws and waits of the step are over.
PassUpdate(c, elapsed) ==
  IF c.phase # "PASSING" \/ c.settings \/ ~(c.pass_anim \/ c.async_toss) \/ ~elapsed THEN c
  ELSE CASE c.sub = "TOSS_ANIM" /\ (c.async_toss => c.toss_started = Passers) -> [c EXCEPT !.sub = "TOSS_WAIT"]
         [] c.sub = "TOSS_WAIT" -> [c EXCEPT !.sub = "REVEAL"]
         [] c.sub = "REVEAL" -> [c EXCEPT !.sub = "RECEIVE"]
         [] c.sub = "RECEIVE" -> [c EXCEPT !.pass_anim = FALSE, !.async_toss = FALSE]
         [] OTHER -> c

-----------------------------------------------------------------------------
(* The updates *)

\* Slip: the cards in flight are forgotten.
WouldDeferButFlight(c) == c.step \notin {"IDLE", "CARD_ANIMATING", "WAITING_FOR_HUMAN", "ROGUE_WAITING"}

WouldDefer(c) == c.step \notin {"IDLE", "WAITING_FOR_HUMAN", "ROGUE_WAITING"}

\* An update is not taken while something moves, nor into the settings, nor over the scores,
\* nor when it would change the trick of which cards are still to be shown.
Deferred(c, v) ==
  \/ WouldDefer(c) \/ c.settings \/ c.deal_anim \/ c.pass_anim
  \/ c.phase = "SCORING" /\ ~c.scoring_done /\ v.phase # "SCORING"
  \/ /\ c.saved # NoTrick /\ c.prev_trick_count < c.saved.num_played
     /\ v.phase # c.phase \/ v.tricks_played # c.tricks_played

\* state_recv_apply and what main.c does after it: a new round is dealt first.
ApplyUpdate(c, v) ==
  LET new == v.round # c.round /\ c.phase \in InGame \cup {"ONLINE_MENU"}
      async == ~new /\ c.async_toss
      seen == [f \in DOMAIN c |-> IF f \in DOMAIN v THEN v[f] ELSE c[f]]
  IN  [seen EXCEPT
         !.phase = IF new THEN "DEALING" ELSE @,
         !.deal_anim = (@ \/ new),
         !.confirmed = IF new THEN {} ELSE @,
         !.toss_started = IF new THEN {} ELSE @,
         !.mine = (@ /\ ~new),
         !.async_toss = async,
         !.sub = IF async /\ c.sub \in TossSteps THEN c.sub ELSE @,
         !.views = Tail(@)]

TakeUpdate(c) ==
  IF c.views = << >> THEN c
  ELSE LET v == Head(c.views)
       IN  IF Deferred(c, v) THEN c
           ELSE IF Selecting(c) /\ v.phase = "PLAYING" THEN StartPassAnim(c)
           ELSE ApplyUpdate(c, v)

-----------------------------------------------------------------------------
(* The tricks: flow_update *)

FlowInit(c) == [c EXCEPT !.step = "IDLE", !.prev_trick_count = 0, !.saved = NoTrick]

\* The next card of the trick flies to the table.
ShowCard(c) ==
  [c EXCEPT !.saved = [round |-> c.round, tricks_played |-> c.tricks_played, num_played |-> c.num_played],
            !.prev_trick_count = @ + 1, !.step = "CARD_ANIMATING",
            !.shown = <<c.round, c.tricks_played, c.prev_trick_count + 1>>]

\* trick_to_pile_transition.
ShowPile(c) == [c EXCEPT !.step = "TRICK_PILE_ANIM", !.shown = <<c.saved.round, c.saved.tricks_played, Piled>>]

\* try_start_rogue: the owner chooses, the others wait.
RogueStarts(c) == c.pending # NoSeat /\ ~c.rogue_effect_handled
StartRogue(c) ==
  [c EXCEPT !.pending = NoSeat, !.rogue_effect_handled = TRUE,
            !.step = IF c.pending = MySeat THEN "ROGUE_CHOOSING" ELSE "ROGUE_WAITING"]

CurrentPlayer(c) ==
  IF c.num_played = CARDS_PER_TRICK THEN NoSeat ELSE (c.lead + c.num_played) % 4

Idle(c) ==
  LET now == [c EXCEPT !.pending = NoSeat,
                       !.prev_trick_count = IF c.num_played < @ THEN 0 ELSE @,
                       !.saved = IF c.num_played < c.prev_trick_count THEN NoTrick ELSE @]
  IN  IF RogueStarts(c) THEN StartRogue(c)
      ELSE IF now.num_played > now.prev_trick_count THEN ShowCard(now)
      ELSE IF CurrentPlayer(now) = MySeat
      THEN [now EXCEPT !.step = "WAITING_FOR_HUMAN", !.prev_trick_count = now.num_played]
      ELSE now

\* A timed step that is over. A trick with a fogged card is uncovered before it is piled up.
TimedStep(c, alt) ==
  CASE c.step = "CARD_ANIMATING" ->
         [c EXCEPT !.step = IF c.prev_trick_count < c.saved.num_played \/ c.saved.num_played < CARDS_PER_TRICK
                            THEN "IDLE" ELSE "TRICK_DISPLAY"]
    [] c.step = "TRICK_DISPLAY" -> IF alt THEN [c EXCEPT !.step = "FOG_REVEAL"] ELSE ShowPile(c)
    [] c.step = "FOG_REVEAL" -> ShowPile(c)
    [] c.step = "TRICK_PILE_ANIM" -> [c EXCEPT !.step = "TRICK_COLLECTING"]
    [] c.step = "TRICK_COLLECTING" ->
         IF RogueStarts(c) THEN StartRogue(c) ELSE [c EXCEPT !.step = "BETWEEN_TRICKS", !.pending = NoSeat]
    [] c.step = "ROGUE_ANIM_TO_CENTER" -> [c EXCEPT !.step = "ROGUE_REVEAL"]
    [] c.step = "ROGUE_REVEAL" -> [c EXCEPT !.step = "ROGUE_ANIM_BACK"]
    [] c.step = "ROGUE_ANIM_BACK" -> [c EXCEPT !.step = "BETWEEN_TRICKS"]
    [] c.step = "BETWEEN_TRICKS" ->
         [c EXCEPT !.step = "IDLE", !.saved = NoTrick, !.prev_trick_count = c.num_played,
                   !.rogue_effect_handled = FALSE]
    [] OTHER -> c

FlowUpdate(c, elapsed, alt) ==
  CASE c.settings -> c
    [] ~c.settings /\ c.phase # "PLAYING" -> [c EXCEPT !.saved = NoTrick, !.step = "IDLE"]
    [] ~c.settings /\ c.phase = "PLAYING" ->
         CASE c.step = "IDLE" -> Idle(c)
           [] c.step = "WAITING_FOR_HUMAN" -> IF c.num_played > c.prev_trick_count THEN ShowCard(c) ELSE c
           [] c.step = "ROGUE_WAITING" ->
                IF c.revealed = NoReveal THEN c
                ELSE [c EXCEPT !.revealed = NoReveal, !.step = IF alt THEN "ROGUE_REVEAL" ELSE "ROGUE_ANIM_TO_CENTER"]
           [] OTHER -> IF elapsed THEN TimedStep(c, alt) ELSE c

-----------------------------------------------------------------------------
(* The frames and the player *)

\* game_update: the scores are shown until their own clock or the player ends them.
GameUpdate(c, elapsed) ==
  [c EXCEPT !.scoring_done = @ \/ (elapsed /\ c.phase = "SCORING" /\ ~c.settings)]

\* phase_transition_update.
PhaseTransition(c, elapsed) ==
  LET scored == IF c.phase = "SCORING" /\ c.prev_phase # "SCORING" THEN [c EXCEPT !.scoring_done = FALSE] ELSE c
      dealt == IF c.deal_anim /\ c.phase = "DEALING" /\ elapsed
               THEN [scored EXCEPT !.phase = "PASSING", !.deal_anim = FALSE] ELSE scored
      begun == IF dealt.phase = "PLAYING" /\ c.prev_phase # "PLAYING" THEN FlowInit(dealt) ELSE dealt
  IN  IF c.settings THEN c ELSE [begun EXCEPT !.prev_phase = begun.phase]

\* One round of the main loop. elapsed says whether what moves or waits has come to its end.
Frame(elapsed, alt) ==
  /\ \E tossed \in {TakeConfirmed(cl)} :
     \E taken \in {TakeUpdate(tossed)} :
     \E scored \in {GameUpdate(taken, elapsed)} :
     \E begun \in {PhaseTransition(scored, elapsed)} :
     \E passed \in {PassUpdate(begun, elapsed)} :
       cl' = FlowUpdate(passed, elapsed, alt)
  /\ UNCHANGED <<srv, repeats, asked, lost>>

\* The player confirms the selected cards, which fly at once. That the server hears of it is
\* ServerConfirms, as is its timeout.
ConfirmPass ==
  /\ Selecting(cl) /\ cl.sub = "CARD_PASS" /\ 0 \notin cl.toss_started /\ ~cl.settings
  /\ cl' = [Toss(cl, {0}) EXCEPT !.mine = TRUE]
  /\ UNCHANGED <<srv, repeats, asked, lost>>

PickOpponent ==
  /\ cl.step = "ROGUE_CHOOSING" /\ ~cl.settings
  /\ cl' = [cl EXCEPT !.step = "ROGUE_SUIT_CHOOSING"]
  /\ UNCHANGED <<srv, repeats, asked, lost>>

PickSuit ==
  /\ cl.step = "ROGUE_SUIT_CHOOSING" /\ ~cl.settings
  /\ cl' = [cl EXCEPT !.step = "ROGUE_WAITING"]
  /\ asked' = (srv.pending = MySeat)
  /\ UNCHANGED <<srv, repeats, lost>>

ToggleSettings ==
  /\ cl.settings \/ cl.phase \in InGame
  /\ cl' = [cl EXCEPT !.settings = ~@]
  /\ UNCHANGED <<srv, repeats, asked, lost>>

\* The game is over and has been shown.
Ended == cl.phase = "GAME_OVER" /\ cl.views = << >> /\ UNCHANGED vars

Init ==
  /\ repeats = 0 /\ asked = FALSE /\ lost = FALSE
  /\ srv = ServerStart(IF Reconnecting THEN "PLAYING" ELSE "DEALING")
  /\ cl = [phase |-> "ONLINE_MENU", sub |-> "DEALER", round |-> 0, passing |-> FALSE, tricks_played |-> 0,
            num_played |-> 0, lead |-> MySeat, pending |-> NoSeat, revealed |-> NoReveal,
            views |-> <<View(srv)>>, confirmed |-> {}, settings |-> FALSE,
            toss_started |-> {}, async_toss |-> FALSE, pass_anim |-> FALSE, mine |-> FALSE,
            deal_anim |-> FALSE, scoring_done |-> FALSE, prev_phase |-> "ONLINE_MENU",
            step |-> "IDLE", prev_trick_count |-> 0, saved |-> NoTrick,
            rogue_effect_handled |-> FALSE, shown |-> <<0, TricksPerRound - 1, Piled>>]

Frames == \E elapsed, alt \in BOOLEAN : Frame(elapsed, alt)
Next == Server \/ Frames \/ ConfirmPass \/ PickOpponent \/ PickSuit \/ ToggleSettings \/ Ended
Spec == Init /\ [][Next]_vars

\* The loop goes on, and what moves comes to its end.
FairSpec == Spec /\ WF_vars(\E alt \in BOOLEAN : Frame(TRUE, alt))

-----------------------------------------------------------------------------
(* Properties *)

Follower(pos) ==
  IF pos[3] < Piled THEN <<pos[1], pos[2], pos[3] + 1>>
  ELSE IF pos[2] + 1 < TricksPerRound THEN <<pos[1], pos[2] + 1, 1>>
  ELSE <<pos[1] + 1, 0, 1>>

\* However the updates come while cards fly, every card of every trick is shown flying once,
\* in the order of play, the trick is piled up when it is whole, and the scores come after
\* the last of them; unless updates were lost.
CardsShownInOrder ==
  /\ [][~lost' => cl'.shown \in {cl.shown, Follower(cl.shown)}]_vars
  /\ [](~lost /\ cl.phase = "SCORING" => cl.shown = <<cl.round, TricksPerRound - 1, Piled>>)

WaitsForMe ==
  \/ srv.phase = "PLAYING" /\ srv.pending = NoSeat /\ CurrentPlayer(srv) = MySeat
  \/ srv.pending = MySeat /\ ~asked

\* When the server waits for the player's card or choice the client comes to ask the player
\* for it, whatever it was showing, also when it has lost updates (input is taken in these
\* steps of the flow only).
TurnIsOffered ==
  WaitsForMe ~>
    \/ ~WaitsForMe \/ cl.settings
    \/ cl.phase = "PLAYING" /\ cl.step \in {"WAITING_FOR_HUMAN", "ROGUE_CHOOSING", "ROGUE_SUIT_CHOOSING"}

\* "AI seats may toss before the human - keep CARD_PASS so the human can still select and
\* confirm their pass cards" (game/pass_phase.c).
PassStaysOpen ==
  srv.sub = "CARD_PASS" /\ MySeat \notin srv.ready /\ Selecting(cl) /\ ~cl.mine => cl.sub = "CARD_PASS"

=============================================================================
