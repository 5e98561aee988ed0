------------------------------- MODULE GameState -------------------------------
(*****************************************************************************)
(* The rules of the card game: core/game_state.c with card.c, hand.c and     *)
(* trick.c under it. A GameState is a record, and every function of the code *)
(* that changes one is an operator that returns the changed record, with the *)
(* early returns that refuse the call in an operator of their own.           *)
(*                                                                           *)
(* A card is <<suit, rank>> with the numbers of card.h. Without              *)
(* transmutations every hand is sorted after the deal and after the pass and *)
(* holds no card twice, so a hand is a set, and "the first card" of the code *)
(* is the one with the lowest index. A trick is the sequence of its plays;   *)
(* its lead player is always the game's, its lead suit that of its first     *)
(* card.                                                                     *)
(*****************************************************************************)
EXTENDS Integers, Sequences, FiniteSets

CONSTANTS Deck,            \* the cards dealt; all 52 in the code
          TricksPerRound,  \* 13 in the code
          PassCardCount,   \* cards passed in a round with a pass; 3 in the code
          ScoreLimit       \* the total that ends the game; 10, 50 or 100 in the code

Clubs == 0
Spades == 2
Hearts == 3
QueenRank == 10
Players == 0 .. 3
CardsPerTrick == 4
NoPlayer == -1
TwoOfClubs == <<Clubs, 0>>

ASSUME DeckAssumption ==
  /\ Deck \subseteq (0 .. 3) \X (0 .. 12)
  /\ TwoOfClubs \in Deck
  /\ TricksPerRound \in Nat \ {0}
  /\ Cardinality(Deck) = 4 * TricksPerRound
ASSUME OptionAssumption ==
  /\ PassCardCount \in 1 .. TricksPerRound
  /\ ScoreLimit \in Nat \ {0}

Phases == {"DEALING", "PASSING", "PLAYING", "SCORING", "GAME_OVER"}
PassDirections == {"LEFT", "RIGHT", "ACROSS", "NONE"}
Play == [player : Players, card : Deck]

GameStates ==
  [phase           : Phases,
   round_number    : Nat,
   hand            : [Players -> SUBSET Deck],
   round_points    : [Players -> Nat],
   total_score     : [Players -> Nat],
   pass_direction  : PassDirections,
   pass_card_count : {0, PassCardCount},
   pass_selections : [Players -> SUBSET Deck],
   pass_ready      : [Players -> BOOLEAN],
   hearts_broken   : BOOLEAN,
   tricks_played   : 0 .. TricksPerRound,
   trick           : Seq(Play),
   lead_player     : Players \cup {NoPlayer},
   moon_shooter    : Players \cup {NoPlayer}]

-----------------------------------------------------------------------------
(* card.c *)

card_points(card) ==
  CASE card[1] = Hearts -> 1
    [] card = <<Spades, QueenRank>> -> 13
    [] OTHER -> 0

card_to_index(card) == 13 * card[1] + card[2]

\* The order in which an automatic choice prefers to give cards away: most points,
\* then highest rank, then first in the sorted hand.
Worse(a, b) ==
  \/ card_points(a) > card_points(b)
  \/ card_points(a) = card_points(b) /\ a[2] > b[2]
  \/ card_points(a) = card_points(b) /\ a[2] = b[2] /\ card_to_index(a) < card_to_index(b)

\* The first card of a sorted hand, as a set that is empty with the hand.
FirstCard(cards) == {c \in cards : \A d \in cards : card_to_index(c) <= card_to_index(d)}

-----------------------------------------------------------------------------
(* trick.c *)

trick_is_complete(trick) == Len(trick) = CardsPerTrick

LeadSuit(trick) == trick[1].card[1]

\* The highest card of the suit led takes a complete trick.
trick_get_winner(trick) ==
  LET inSuit == {i \in DOMAIN trick : trick[i].card[1] = LeadSuit(trick)}
      best == CHOOSE i \in inSuit : \A j \in inSuit : trick[j].card[2] <= trick[i].card[2]
  IN  trick[best].player

PointsAt(trick, i) == IF i \in DOMAIN trick THEN card_points(trick[i].card) ELSE 0

trick_count_points(trick) ==
  PointsAt(trick, 1) + PointsAt(trick, 2) + PointsAt(trick, 3) + PointsAt(trick, 4)

hand_has_suit(hand, suit) == \E c \in hand : c[1] = suit

Follows(trick, hand, card) ==
  hand_has_suit(hand, LeadSuit(trick)) => card[1] = LeadSuit(trick)

\* Slip: with no card of the suit led, the first trick may take points.
ValidWithPoints(trick, hand, card, hearts_broken, first_trick) ==
  /\ card \in hand
  /\ IF trick = <<>>
     THEN IF first_trick THEN card = TwoOfClubs
          ELSE card[1] = Hearts /\ ~hearts_broken => \A c \in hand : c[1] = Hearts
     ELSE Follows(trick, hand, card)

trick_is_valid_play(trick, hand, card, hearts_broken, first_trick) ==
  /\ card \in hand
  /\ IF trick = <<>>
     THEN IF first_trick THEN card = TwoOfClubs
          ELSE card[1] = Hearts /\ ~hearts_broken => \A c \in hand : c[1] = Hearts
     ELSE /\ Follows(trick, hand, card)
          /\ first_trick /\ ~hand_has_suit(hand, LeadSuit(trick)) /\ card_points(card) > 0
               => \A c \in hand : card_points(c) > 0

-----------------------------------------------------------------------------
(* game_state.c: a round *)

\* The hands a shuffled deck gives.
Dealings == {hands \in [Players -> SUBSET Deck] :
               /\ \A p \in Players : Cardinality(hands[p]) = TricksPerRound
               /\ UNION {hands[p] : p \in Players} = Deck}

game_state_find_two_of_clubs(hands) ==
  IF \E p \in Players : TwoOfClubs \in hands[p]
  THEN CHOOSE p \in Players : TwoOfClubs \in hands[p]
  ELSE NoPlayer

game_state_new_round(gs, hands) ==
  [gs EXCEPT !.hand = hands, !.round_points = [p \in Players |-> 0],
             !.pass_direction = "LEFT", !.pass_card_count = PassCardCount,
             !.hearts_broken = FALSE, !.tricks_played = 0, !.moon_shooter = NoPlayer,
             !.trick = <<>>, !.lead_player = NoPlayer,
             !.pass_selections = [p \in Players |-> {}],
             !.pass_ready = [p \in Players |-> FALSE],
             !.phase = "DEALING", !.round_number = @ + 1]

\* game_state_init and game_state_start_game: a game in its first round.
NewGame(hands) ==
  [phase |-> "DEALING", round_number |-> 1, hand |-> hands,
   round_points |-> [p \in Players |-> 0], total_score |-> [p \in Players |-> 0],
   pass_direction |-> "LEFT", pass_card_count |-> PassCardCount,
   pass_selections |-> [p \in Players |-> {}], pass_ready |-> [p \in Players |-> FALSE],
   hearts_broken |-> FALSE, tricks_played |-> 0, trick |-> <<>>,
   lead_player |-> NoPlayer, moon_shooter |-> NoPlayer]

CanSelectPass(gs, p, cards) == gs.phase = "PASSING" /\ cards \subseteq gs.hand[p]

game_state_select_pass(gs, p, cards) ==
  [gs EXCEPT !.pass_selections[p] = cards, !.pass_ready[p] = TRUE]

game_state_all_passes_ready(gs) == \A p \in Players : gs.pass_ready[p]

PassOffset(direction) ==
  CASE direction = "LEFT" -> 1
    [] direction = "RIGHT" -> 3
    [] direction = "ACROSS" -> 2
    [] direction = "NONE" -> 0

\* Slip: the cards are added without being taken from the hand they came from.
ExecutePassKeeping(gs) ==
  LET from(p) == (p + 4 - PassOffset(gs.pass_direction)) % 4
      hands == [p \in Players |-> gs.hand[p] \cup gs.pass_selections[from(p)]]
  IN  [gs EXCEPT !.hand = hands,
                 !.pass_selections = [p \in Players |-> {}],
                 !.pass_ready = [p \in Players |-> FALSE],
                 !.lead_player = game_state_find_two_of_clubs(hands),
                 !.trick = <<>>]

game_state_execute_pass(gs) ==
  LET from(p) == (p + 4 - PassOffset(gs.pass_direction)) % 4
      hands == [p \in Players |->
                  (gs.hand[p] \ gs.pass_selections[p]) \cup gs.pass_selections[from(p)]]
  IN  [gs EXCEPT !.hand = hands,
                 !.pass_selections = [p \in Players |-> {}],
                 !.pass_ready = [p \in Players |-> FALSE],
                 !.lead_player = game_state_find_two_of_clubs(hands),
                 !.trick = <<>>]

-----------------------------------------------------------------------------
(* game_state.c: tricks and scores *)

game_state_current_player(gs) ==
  IF gs.phase # "PLAYING" \/ trick_is_complete(gs.trick)
  THEN NoPlayer
  ELSE (gs.lead_player + Len(gs.trick)) % 4

game_state_is_valid_play(gs, p, card) ==
  /\ gs.phase = "PLAYING"
  /\ game_state_current_player(gs) = p
  /\ trick_is_valid_play(gs.trick, gs.hand[p], card, gs.hearts_broken, gs.tricks_played = 0)

game_state_play_card(gs, p, card) ==
  [gs EXCEPT !.hand[p] = @ \ {card},
             !.trick = Append(@, [player |-> p, card |-> card]),
             !.hearts_broken = @ \/ card[1] = Hearts]

\* Slip: the moon goes to whoever took the last trick.
MoonOfLastWinner(taken, winner) == IF taken[winner] > 0 THEN winner ELSE NoPlayer

\* The only player with points, after the last trick.
MoonShooter(taken, winner) ==
  LET scorers == {p \in Players : taken[p] > 0}
  IN  IF Cardinality(scorers) = 1 THEN CHOOSE p \in scorers : TRUE ELSE NoPlayer

\* Points go to the winner, who leads the next trick; the last trick ends the round,
\* with the points of a player who shot the moon given to each of the others.
game_state_complete_trick_with(gs, winner, points) ==
  LET taken == [gs.round_points EXCEPT ![winner] = @ + points]
      last == gs.tricks_played + 1 >= TricksPerRound
      shooter == MoonShooter(taken, winner)
      final == IF shooter = NoPlayer THEN taken
               ELSE [p \in Players |-> IF p = shooter THEN 0 ELSE taken[shooter]]
  IN  IF last
      THEN [gs EXCEPT !.tricks_played = @ + 1, !.round_points = final,
                      !.total_score = [p \in Players |-> @[p] + final[p]],
                      !.moon_shooter = shooter, !.phase = "SCORING"]
      ELSE [gs EXCEPT !.tricks_played = @ + 1, !.round_points = taken,
                      !.lead_player = winner, !.trick = <<>>]

game_state_complete_trick(gs) ==
  game_state_complete_trick_with(gs, trick_get_winner(gs.trick), trick_count_points(gs.trick))

game_state_is_game_over(gs) == \E p \in Players : gs.total_score[p] >= ScoreLimit

game_state_advance_scoring(gs, hands) ==
  IF game_state_is_game_over(gs)
  THEN [gs EXCEPT !.phase = "GAME_OVER"]
  ELSE game_state_new_round(gs, hands)

=============================================================================
