------------------------------ MODULE Competitive ------------------------------
(*****************************************************************************)
(* The competitive AI: server/ai_competitive.c, with its evaluations.        *)
(*                                                                           *)
(* ai is the CompetitiveAIState of a seat: what it knows of the hand being   *)
(* played. Fields of it that no decision reads are left out. The weights of  *)
(* the evaluations are fractions in the code: here they are multiplied out,  *)
(* by 200 for a card that is played and by 10 elsewhere.                     *)
(*****************************************************************************)
EXTENDS Contracts

CONSTANT MoonScore  \* moon_score_threshold, 14 in the code

Diamonds == 1
Jack == 9
King == 11
Ace == 12
LowHeartMax == 6   \* low_heart_max_rank: a number of Rank, and so the eight

\* A seat the AI has never been set up for: all zeros, which are seat 0 and QS_IN_MY_HAND.
NoKnowledge ==
  [my_seat |-> 0, voids |-> [p \in Players |-> {}], qs_status |-> "IN_MY_HAND",
   qs_related_player |-> 0, hearts_taken |-> [p \in Players |-> 0],
   has_queen |-> [p \in Players |-> FALSE], game_score |-> [p \in Players |-> 0],
   moon_alarm |-> FALSE, moon_suspect |-> 0, attempting_moon |-> FALSE]

comp_ai_init_hand(seat, g) ==
  [NoKnowledge EXCEPT
     !.my_seat = seat, !.moon_suspect = NoPlayer, !.game_score = g.total_score,
     !.qs_status = IF Queen \in Range(g.hand[seat]) THEN "IN_MY_HAND" ELSE "LOCATION_UNKNOWN"]

CountSuit(hand, suit) == Cardinality({i \in DOMAIN hand : hand[i][1] = suit})
CountCards(hand, Test(_)) == Cardinality({i \in DOMAIN hand : Test(hand[i])})
Opponents(ai) == Players \ {ai.my_seat}

find_leader(ai) ==
  CHOOSE p \in Opponents(ai) : \A q \in Opponents(ai) :
    \/ ai.game_score[p] < ai.game_score[q]
    \/ ai.game_score[p] = ai.game_score[q] /\ p <= q

-----------------------------------------------------------------------------
(* What is learnt *)

detect_moon(ai) ==
  LET suspects == {p \in Opponents(ai) : ai.hearts_taken[p] >= IF ai.has_queen[p] THEN 5 ELSE 8}
  IN  [ai EXCEPT !.moon_alarm = suspects # {},
                 !.moon_suspect = IF suspects = {} THEN NoPlayer ELSE Min(suspects)]

\* comp_ai_on_trick_complete; a trick that is not full is ignored.
comp_ai_on_trick_complete(ai, trick, winner) ==
  LET hearts == CardsIn(trick, Hearts)
      queen == \E i \in DOMAIN trick : trick[i].card = Queen
      shown(p) == \E i \in DOMAIN trick : trick[i].player = p /\ trick[i].card[1] # LeadSuit(trick)
      learnt == [ai EXCEPT
                   !.voids = [p \in Players |-> IF shown(p) THEN @[p] \cup {LeadSuit(trick)} ELSE @[p]],
                   !.hearts_taken[winner] = @ + hearts, !.has_queen[winner] = @ \/ queen,
                   !.qs_status = IF queen THEN "PLAYED" ELSE @,
                   !.attempting_moon = @ /\ ~(winner # ai.my_seat /\ hearts > 0)]
  IN  IF Len(trick) < CardsPerTrick THEN ai ELSE detect_moon(learnt)

\* comp_ai_on_pass_execute: where the queen has gone.
comp_ai_on_pass_execute(ai, sent, received, target) ==
  IF Queen \in Range(sent) THEN [ai EXCEPT !.qs_status = "PASSED_TO", !.qs_related_player = target]
  ELSE IF Queen \in Range(received)
  THEN [ai EXCEPT !.qs_status = "RECEIVED_FROM", !.qs_related_player = NoPlayer]
  ELSE ai

-----------------------------------------------------------------------------
(* The dealer and the draft *)

comp_ai_pick_direction(ai) ==
  CASE find_leader(ai) = (ai.my_seat + 3) % 4 -> "RIGHT"
    [] find_leader(ai) = (ai.my_seat + 2) % 4 -> "ACROSS"
    [] OTHER -> "LEFT"

comp_ai_pick_amount(hand) ==
  LET high == CountCards(hand, LAMBDA c : c[2] >= Jack)
  IN  IF high >= 6 THEN 4 ELSE IF high >= 4 THEN 3 ELSE 2

rate_contract(id) ==
  LET def == ContractDefs[id]
      is(conditions) == def.condition \in conditions
      score ==
        CASE is({"TAKE_NO_POINTS"}) -> 9
          [] is({"AVOID_SUIT"}) -> IF def.suit = Hearts THEN 8 ELSE 5
          [] is({"LOWEST_SCORE"}) -> 7
          [] is({"WIN_N_TRICKS"}) -> IF def.count <= 4 THEN 6 ELSE 4
          [] is({"COLLECT_N_OF_SUIT", "AVOID_LAST_N_TRICKS"}) -> 5
          [] is({"BREAK_HEARTS", "WIN_WITH_PASSED_CARD", "HIT_WITH_PASSED_CARD", "HIT_N_WITH_SUIT",
                 "PREVENT_MOON"}) -> 4
          [] is({"WIN_FIRST_N_TRICKS", "SHOOT_THE_MOON", "WIN_FIRST_AND_LAST"}) -> 2
          [] is({"LEAD_QUEEN_SPADES_TRICK"}) -> 1
          [] OTHER -> 3
  IN  score * (10 - 2 * def.tier)

rate_transmutation(id) ==
  LET is(effects) == EffectOf(id) \in effects
  IN  10 * CASE is({"INVERSION", "SHIELD"}) -> 9
             [] is({"GATHERER"}) -> 8
             [] is({"PENDULUM", "JOKER"}) -> 7
             [] is({"FOG", "BOUNTY"}) -> 6
             [] is({"ROGUE", "CROWN"}) -> 5
             [] is({"PARASITE", "MIRROR"}) -> 4
             [] is({"BINDING", "ROULETTE"}) -> 2
             [] is({"MARTYR"}) -> 1
             [] OTHER -> 3

\* The first element that no other exceeds.
Best(S, Score(_)) == CHOOSE i \in S : \A j \in S : Score(i) > Score(j) \/ (Score(i) = Score(j) /\ i <= j)

comp_ai_draft_pick(available) ==
  Best(DOMAIN available,
       LAMBDA i : rate_contract(available[i].contract) + rate_transmutation(available[i].id))

-----------------------------------------------------------------------------
(* The pass: the places of the cards that are given away, in the order of their choice *)

eval_moon_hand(hand) ==
  LET worth(card) ==
        IF card = Queen \/ card = <<Hearts, Ace>> THEN 3
        ELSE IF card[2] = Ace \/ card \in {<<Hearts, King>>, <<Hearts, QueenRank>>} THEN 2
        ELSE IF card[2] = King \/ card = <<Hearts, Jack>> THEN 1 ELSE 0
  IN  MapThenSumSet(LAMBDA i : worth(hand[i]), DOMAIN hand) + CountSuit(hand, Hearts) \div 2

\* The places, as many as are still wanted and not yet chosen ...
TakePlaces(chosen, places, n) ==
  FoldLeft(LAMBDA c, i : IF Len(c) < n /\ i \notin Range(c) THEN Append(c, i) ELSE c, chosen, places)

\* ... and for each of the cards the first place that has it and is not yet chosen.
TakeCards(hand, chosen, cards, n) ==
  LET free(c, card) == {i \in DOMAIN hand : hand[i] = card /\ i \notin Range(c)}
  IN  FoldLeft(LAMBDA c, card : IF Len(c) < n /\ free(c, card) # {} THEN Append(c, Min(free(c, card))) ELSE c,
               chosen, cards)

MoonPass(hand, n) ==
  LET plain == {i \in DOMAIN hand : hand[i][1] # Hearts}
      held == {hand[i][1] : i \in plain}
      weak == Best(held, LAMBDA s : -CountSuit(hand, s))
      ofWeak == SelectSeq([i \in DOMAIN hand |-> i], LAMBDA i : hand[i][1] = weak)
      byRank == SetToSortSeq(plain, LAMBDA i, j : hand[i][2] < hand[j][2] \/ (hand[i][2] = hand[j][2] /\ i < j))
  IN  IF held = {} THEN <<>> ELSE TakePlaces(TakePlaces(<<>>, ofWeak, n), byRank, n)

LowHearts(hand) == CountCards(hand, LAMBDA c : c[1] = Hearts /\ c[2] <= LowHeartMax)

SpadePass(hand, chosen, direction, n) ==
  LET spades == CountSuit(hand, Spades)
      low == CountCards(hand, LAMBDA c : c[1] = Spades /\ c[2] < QueenRank)
      keeps == spades >= 4 \/ (direction = "LEFT" /\ spades >= 3)
  IN  IF Queen \in Range(hand)
      THEN IF keeps THEN chosen ELSE TakeCards(hand, chosen, <<Queen>>, n)
      ELSE IF low < 3 THEN TakeCards(hand, chosen, <<<<Spades, Ace>>, <<Spades, King>>>>, n) ELSE chosen

\* Short suits are given away from the top, one card of each rank.
Downwards(suit) == [k \in 1 .. 13 |-> <<suit, 13 - k>>]
Short(hand, suit) ==
  /\ CountSuit(hand, suit) \in 1 .. 3
  /\ suit = Hearts => LowHearts(hand) = 0
ToGive(hand, suit) == CountSuit(hand, suit) - (IF suit = Clubs THEN 1 ELSE 0)

VoidPass(hand, chosen, suit, n) ==
  IF ~Short(hand, suit) THEN chosen
  ELSE TakeCards(hand, chosen, Downwards(suit), Min({n, Len(chosen) + ToGive(hand, suit)}))

VoidPasses(hand, chosen, n) ==
  LET clubs == VoidPass(hand, chosen, Clubs, n)
      diamonds == VoidPass(hand, clubs, Diamonds, n)
  IN  <<clubs, diamonds, VoidPass(hand, diamonds, Hearts, n)>>

LastPass(hand, chosen, n) ==
  LET aces == SelectSeq(<<<<Clubs, Ace>>, <<Diamonds, Ace>>, <<Hearts, Ace>>>>,
                        LAMBDA c : CountSuit(hand, c[1]) <= 2)
      high == IF LowHearts(hand) < 3 THEN SubSeq(Downwards(Hearts), 1, 4) ELSE <<>>
      worst(i, j) == \/ card_points(hand[i]) > card_points(hand[j])
                     \/ card_points(hand[i]) = card_points(hand[j]) /\ hand[i][2] > hand[j][2]
                     \/ card_points(hand[i]) = card_points(hand[j]) /\ hand[i][2] = hand[j][2] /\ i < j
  IN  TakePlaces(TakeCards(hand, TakeCards(hand, chosen, aces, n), high, n),
                 SetToSortSeq(DOMAIN hand, worst), n)

MoonHand(hand) == eval_moon_hand(hand) >= MoonScore
BeforeVoids(hand, direction, n) ==
  SpadePass(hand, IF MoonHand(hand) THEN MoonPass(hand, n) ELSE <<>>, direction, n)

comp_ai_select_pass(hand, direction, n) ==
  LET chosen == BeforeVoids(hand, direction, n)
  IN  LastPass(hand, VoidPasses(hand, chosen, n)[3], n)

\* The hand is tried for the moon only if the moon pass was enough.
AttemptsMoon(hand, n) == MoonHand(hand) /\ Len(MoonPass(hand, n)) = n

\* The loop over the ranks of a short suit counts down with an unsigned number and ends
\* only when enough cards are chosen: never, if the suit has a card twice or chosen before.
PassLoopEnds(hand, direction, n) ==
  \A start \in {BeforeVoids(hand, direction, n)} : \A after \in {VoidPasses(hand, start, n)} :
    \A k \in 1 .. 3 :
      LET before == <<start, after[1], after[2]>>[k]
          suit == <<Clubs, Diamonds, Hearts>>[k]
      IN  Short(hand, suit) /\ Len(before) < n =>
            Len(after[k]) = Min({n, Len(before) + ToGive(hand, suit)})

-----------------------------------------------------------------------------
(* A card is played *)

CurrentWinner(trick) ==
  IF trick = <<>> THEN NoPlayer
  ELSE trick[Best({i \in DOMAIN trick : trick[i].card[1] = LeadSuit(trick)}, LAMBDA i : trick[i].card[2])].player
WinningRank(trick) ==
  Max({0} \cup {trick[i].card[2] : i \in {j \in DOMAIN trick : trick[j].card[1] = LeadSuit(trick)}})
PointsSoFar(trick) == MapThenSumSet(LAMBDA i : card_points(trick[i].card), DOMAIN trick)
WouldWin(trick, card) ==
  trick = <<>> \/ (card[1] = LeadSuit(trick) /\ \A i \in DOMAIN trick :
                     trick[i].card[1] = LeadSuit(trick) => trick[i].card[2] < card[2])

FollowsSuit(trick, hand) == trick # <<>> /\ CountSuit(hand, LeadSuit(trick)) > 0
Sloughs(trick, hand) == trick # <<>> /\ CountSuit(hand, LeadSuit(trick)) = 0

f_trick_safety(trick, hand, card) ==
  IF trick = <<>>
  THEN IF card[2] <= 3 THEN 100 ELSE IF card[2] <= 6 THEN 40 ELSE IF card[2] <= 8 THEN 0 ELSE -60
  ELSE IF Sloughs(trick, hand) THEN 200
  ELSE IF card[2] < WinningRank(trick) THEN 100 + 5 * card[2]
  ELSE IF Len(trick) = 3 /\ PointsSoFar(trick) = 0 THEN 80
  ELSE Max({-200, -16 * PointsSoFar(trick)})

f_void_progress(hand, card) ==
  LET n == CountSuit(hand, card[1])
  IN  IF n <= 1 THEN 100 ELSE IF n = 2 THEN 60 ELSE IF n = 3 THEN 20 ELSE 0

f_dangerous_card_shed(ai, trick, hand, card) ==
  LET live == ai.qs_status # "PLAYED"
      spade == card[1] = Spades /\ live
      heart == card[1] = Hearts
  IN  IF Sloughs(trick, hand)
      THEN IF card = Queen THEN 160
           ELSE IF spade /\ card[2] >= King THEN 130 + 10 * (card[2] - King)
           ELSE IF heart /\ card[2] >= Jack THEN 70 + 10 * (card[2] - Jack)
           ELSE IF card[2] >= King THEN 40 + 10 * (card[2] - King) ELSE 0
      ELSE IF spade /\ card[2] >= King THEN 60
      ELSE IF card[2] = Ace /\ CountSuit(hand, card[1]) <= 2 THEN 40 ELSE 0

f_queen_safety(ai, trick, hand, card) ==
  LET mine == ai.qs_status = "IN_MY_HAND"
  IN  20 * (IF ai.qs_status = "PLAYED" THEN 0
            ELSE IF FollowsSuit(trick, hand) /\ LeadSuit(trick) = Spades
            THEN IF card = Queen THEN -8
                 ELSE IF mine THEN IF card[2] < QueenRank THEN 3 ELSE -2
                 ELSE IF card[2] >= King THEN -7 ELSE 2
            ELSE IF trick = <<>> /\ card[1] = Spades
            THEN IF mine THEN IF card[2] >= King THEN 4 ELSE -2
                 ELSE IF card[2] <= Jack THEN 3 ELSE -8
            ELSE IF \E i \in DOMAIN trick : trick[i].card = Queen THEN 5 ELSE 0)

f_moon_factor(ai, trick, hand, card) ==
  20 * (IF ai.attempting_moon
        THEN IF card[1] = Hearts /\ WouldWin(trick, card) THEN 5 ELSE IF card[2] >= King THEN 2 ELSE 0
        ELSE IF ~ai.moon_alarm THEN 0
        ELSE IF card = <<Hearts, Ace>> THEN 5
        ELSE IF /\ Sloughs(trick, hand) /\ card[1] = Hearts /\ card[2] <= 2
                /\ CurrentWinner(trick) # ai.moon_suspect
             THEN 4 ELSE 0)

f_opponent_targeting(ai, trick, hand, card) ==
  20 * (IF ~Sloughs(trick, hand) \/ card_points(card) = 0 \/ CurrentWinner(trick) = NoPlayer THEN 0
        ELSE IF CurrentWinner(trick) = find_leader(ai) THEN 3
        ELSE IF CurrentWinner(trick) # ai.my_seat THEN 1 ELSE 0)

f_information_hiding(trick, hand, tricks_played) ==
  IF Sloughs(trick, hand) /\ tricks_played < 2 THEN -40 ELSE 0

f_endgame_safety(hand, card, tricks_played) ==
  LET left == {c[1] : c \in Range(hand) \ {card}}
  IN  IF tricks_played < 10 THEN 0
      ELSE IF Cardinality(left) >= 2 THEN 60 ELSE IF left # {} THEN -60 ELSE -100

\* eval_card, with the weights of the early, the middle and the late tricks.
eval_card(ai, trick, hand, card, tricks_played) ==
  LET phase == IF tricks_played < 4 THEN 1 ELSE IF tricks_played < 9 THEN 2 ELSE 3
      safety == <<5, 7, 10>>[phase] * f_trick_safety(trick, hand, card)
      moon == <<3, 6, 8>>[phase] * f_moon_factor(ai, trick, hand, card)
      target == <<2, 3, 3>>[phase] * f_opponent_targeting(ai, trick, hand, card)
      all == safety + moon + target
             + <<8, 5, 2>>[phase] * f_void_progress(hand, card)
             + <<6, 7, 4>>[phase] * f_dangerous_card_shed(ai, trick, hand, card)
             + 9 * f_queen_safety(ai, trick, hand, card)
             + <<4, 1, 0>>[phase] * f_information_hiding(trick, hand, tricks_played)
             + <<0, 3, 8>>[phase] * f_endgame_safety(hand, card, tricks_played)
      gap == ai.game_score[ai.my_seat] - ai.game_score[find_leader(ai)]
  IN  10 * all + (IF gap > 15 THEN 5 * (moon + target) ELSE IF gap < -20 THEN 3 * safety ELSE 0)

\* comp_ai_play_card: the best of the valid cards, among equals the highest, then that of the
\* longest suit.
BestCard(hand, valid, score) ==
  LET better(i, j) ==
        LET m == CountSuit(hand, hand[i][1])
            n == CountSuit(hand, hand[j][1])
        IN  \/ score[i] > score[j]
            \/ score[i] = score[j] /\ hand[i][2] > hand[j][2]
            \/ score[i] = score[j] /\ hand[i][2] = hand[j][2] /\ (m > n \/ (m = n /\ i <= j))
  IN  hand[CHOOSE i \in valid : \A j \in valid : better(i, j)]

comp_ai_play_card(ai, trick, hand, valid, tricks_played) ==
  IF valid = {} THEN hand[1]
  ELSE BestCard(hand, valid, [i \in valid |-> eval_card(ai, trick, hand, hand[i], tricks_played)])

-----------------------------------------------------------------------------
(* Transmutations *)

\* comp_ai_apply_transmutations outside the pass: the best pair of an own transmutation
\* and a card it fits, the first among equals.
comp_ai_apply_transmutations(hand, slots, inv, p) ==
  LET fits == {s \in DOMAIN inv : ~Defs[inv[s]].negative} \X (DOMAIN hand)
      pairs == {x \in fits : CanTransmute(hand, slots, inv, x[2], inv[x[1]])}
      bonus(id, c) ==
        CASE EffectOf(id) = "INVERSION" /\ c[1] = Hearts -> 50
          [] EffectOf(id) = "SHIELD" -> 30
          [] EffectOf(id) = "PENDULUM" /\ c[1] = Hearts -> 30
          [] EffectOf(id) = "FOG" /\ c[2] >= QueenRank -> 20
          [] EffectOf(id) = "JOKER" /\ c[2] <= 3 -> 30
          [] EffectOf(id) = "BOUNTY" /\ c[1] = Spades -> 20
          [] OTHER -> 0
      score(x) == rate_transmutation(inv[x[1]]) + bonus(inv[x[1]], hand[x[2]])
      best == CHOOSE x \in pairs : \A y \in pairs :
                \/ score(x) > score(y)
                \/ score(x) = score(y) /\ (x[1] < y[1] \/ (x[1] = y[1] /\ x[2] <= y[2]))
  IN  IF pairs = {} THEN [hand |-> hand, slots |-> slots, inv |-> inv]
      ELSE transmute_apply(hand, slots, inv, best[2], inv[best[1]], p)

\* comp_ai_rogue_pick: whom, and which suits it may be.
comp_ai_rogue_pick(ai, hands, winner) ==
  LET most(S) == {p \in S : hands[p] # <<>> /\ \A q \in S : Len(hands[q]) <= Len(hands[p])}
      others == Players \ {winner}
      holders == IF ai.qs_status = "PASSED_TO" THEN {ai.qs_related_player}
                 ELSE most({p \in others : Spades \notin ai.voids[p]})
      queenHunt == ai.qs_status \in {"LOCATION_UNKNOWN", "PASSED_TO"} /\ holders # {}
                   /\ hands[Min(holders)] # <<>>
      target == Min(most(others))
      suits == (0 .. Spades) \ ai.voids[target]
  IN  IF queenHunt THEN [target |-> Min(holders), suits |-> {Spades}]
      ELSE [target |-> target, suits |-> IF suits = {} THEN Suits ELSE {Max(suits)}]

=============================================================================
