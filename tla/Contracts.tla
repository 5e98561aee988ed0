------------------------------- MODULE Contracts -------------------------------
(*****************************************************************************)
(* The contracts of a round: phase2/contract_logic.c.                        *)
(*                                                                           *)
(* At the start of a round the players draft pairs of a contract and a       *)
(* transmutation: each picks one of a hand of pairs, the rest goes round the *)
(* table, and so on. Every trick then is entered in each contract a player   *)
(* holds, and at the end of the round the contracts that are fulfilled give  *)
(* their player the transmutation drafted with them. (The definitions give   *)
(* no other reward: contracts.json lists none.)                              *)
(*****************************************************************************)
EXTENDS Transmutations

CONSTANTS ContractDefs,  \* g_contract_defs: the definitions by their id
          GroupSize,     \* DRAFT_GROUP_SIZE, 4 in the code
          DraftRounds,   \* DRAFT_ROUNDS and MAX_ACTIVE_CONTRACTS, 3 in the code
          Pools,         \* the pairs a draft may start from
          LateTrick      \* the number after which a moon run counts, 8 in the code

Conditions ==
  {"AVOID_SUIT", "COLLECT_N_OF_SUIT", "WIN_N_TRICKS", "TAKE_NO_POINTS", "COLLECT_CARD",
   "WIN_CONSECUTIVE_TRICKS", "HIT_N_WITH_SUIT", "LOWEST_SCORE", "NEVER_LEAD_SUIT",
   "WIN_TRICK_N", "BREAK_HEARTS", "WIN_FIRST_N_TRICKS", "AVOID_LAST_N_TRICKS",
   "WIN_WITH_PASSED_CARD", "HIT_WITH_PASSED_CARD", "WIN_FIRST_AND_LAST",
   "LEAD_QUEEN_SPADES_TRICK", "SHOOT_THE_MOON", "PREVENT_MOON", "PLAY_CARD_FIRST_OF_SUIT",
   "HIT_WITH_TRANSMUTE"}

\* The definitions the game starts with name no other condition.
ASSUME ConditionAssumption == \A id \in DOMAIN ContractDefs : ContractDefs[id].condition \in Conditions

\* draft_generate_pool: no contract and no transmutation twice.
ASSUME PoolAssumption ==
  /\ GroupSize \in Nat /\ DraftRounds \in 1 .. GroupSize
  /\ \A pool \in Pools :
       /\ pool \in [Players -> [1 .. GroupSize -> [contract : DOMAIN ContractDefs, id : DOMAIN Defs]]]
       /\ \A p, q \in Players : \A i, j \in 1 .. GroupSize :
            <<p, i>> # <<q, j>> => /\ pool[p][i].contract # pool[q][j].contract
                                   /\ pool[p][i].id # pool[q][j].id

Left(p) == (p + 3) % 4

-----------------------------------------------------------------------------
(* The draft *)

draft_generate_pool(pool) ==
  [available |-> pool, picked |-> [p \in Players |-> <<>>],
   has_picked |-> [p \in Players |-> FALSE], round |-> 0, active |-> TRUE]

CanPick(draft, p, i) ==
  ~draft.has_picked[p] /\ i \in DOMAIN draft.available[p] /\ Len(draft.picked[p]) < DraftRounds

draft_pick(draft, p, i) ==
  [draft EXCEPT !.picked[p] = Append(@, draft.available[p][i]), !.has_picked[p] = TRUE,
                !.available[p] = RemoveAt(@, i)]

draft_all_picked(draft) == \A p \in Players : draft.has_picked[p]

\* Slip: the players are gone through in place, and each gets what the one on its left
\* has by then.
AdvanceInPlace(draft) ==
  [draft EXCEPT !.round = @ + 1, !.has_picked = [p \in Players |-> FALSE],
                !.available = [p \in Players |-> draft.available[Left(0)]]]

\* The pairs that are left go to the next player.
draft_advance_round(draft) ==
  IF draft.round + 1 >= DraftRounds
  THEN [draft EXCEPT !.round = @ + 1, !.active = FALSE]
  ELSE [draft EXCEPT !.round = @ + 1, !.has_picked = [p \in Players |-> FALSE],
                     !.available = [p \in Players |-> draft.available[Left(p)]]]

-----------------------------------------------------------------------------
(* A contract a player holds *)

Suits == 0 .. 3
PerSuit(value) == [s \in Suits |-> value]

\* contract_instance_reset, for a pair that was drafted: tricks are the numbers of those
\* won, led the suits led.
NewContract(pair) ==
  [contract |-> pair.contract, paired |-> pair.id, completed |-> FALSE, failed |-> FALSE,
   cards |-> PerSuit(0), points |-> 0, has_card |-> FALSE,
   tricks |-> {}, streak |-> 0, max_streak |-> 0, led |-> {}, broke_hearts |-> FALSE,
   led_qs |-> FALSE, first_of_suit |-> FALSE, received |-> {}, won_with_passed |-> FALSE,
   hit_with_passed |-> FALSE, hits |-> PerSuit(0), prevented_moon |-> FALSE,
   hit_with_transmute |-> FALSE]

draft_finalize(draft, p2) ==
  [p2 EXCEPT !.contracts = [p \in Players |-> [i \in DOMAIN draft.picked[p] |->
                                                 NewContract(draft.picked[p][i])]],
             !.draft = [draft EXCEPT !.active = FALSE]]

\* contract_round_reset. The shield, the inventory and what the mirror shows outlast it.
contract_round_reset(p2) ==
  [p2 EXCEPT !.contracts = [p \in Players |-> <<>>],
             !.slots = [p \in Players |-> transmute_hand_init],
             !.suit_seen = {},
             !.martyr = [p \in Players |-> 0], !.gatherer = [p \in Players |-> 0],
             !.rogue_pending = NoPlayer, !.rogue_view = <<>>,
             !.curse = [p \in Players |-> FALSE], !.anchor = [p \in Players |-> NoSuit],
             !.binding = [p \in Players |-> FALSE]]

contract_record_received_cards(contracts, cards) ==
  [c \in DOMAIN contracts |-> [contracts[c] EXCEPT !.received = cards]]

-----------------------------------------------------------------------------
(* A trick is entered: contract_on_trick_complete *)

CardsIn(trick, suit) == Cardinality({i \in DOMAIN trick : trick[i].card[1] = suit})
PlaceOf(trick, p) == CHOOSE i \in DOMAIN trick : trick[i].player = p
Queen == <<Spades, QueenRank>>

\* Some other player had points when the winner took the trick, and the rest had none.
MoonPrevented(round_points, trick, winner, number) ==
  /\ trick_count_points(trick) > 0 /\ number > LateTrick
  /\ \E p \in Players \ {winner} :
       /\ round_points[p] > 0
       /\ \A q \in Players \ {p, winner} : round_points[q] <= 0

Streak(contract, won) == IF won THEN contract.streak + 1 ELSE 0

\* What the winner's contracts gain ...
WinnerGains(contract, trick, winner, number, prevented) ==
  LET def == ContractDefs[contract.contract]
  IN  [contract EXCEPT
         !.prevented_moon = @ \/ prevented,
         !.tricks = @ \cup {number},
         !.max_streak = Max({@, Streak(contract, TRUE)}),
         !.cards = [s \in Suits |-> @[s] + CardsIn(trick, s)],
         !.points = @ + trick_count_points(trick),
         !.has_card = @ \/ (def.condition = "COLLECT_CARD" /\ \E i \in DOMAIN trick : trick[i].card = def.card),
         !.won_with_passed = @ \/ trick[PlaceOf(trick, winner)].card \in contract.received]

\* ... and those of every player who played to it.
PlayerGains(contract, trick, p, winner, tti, broken_before, suit_seen) ==
  LET i == PlaceOf(trick, p)
      card == trick[i].card
      def == ContractDefs[contract.contract]
      before == 1 .. i - 1
      hit == p # winner /\ card_points(card) > 0
      transmuted == tti[i].id >= 0 /\ Defs[tti[i].id].points # 0
  IN  [contract EXCEPT
         !.streak = Streak(contract, p = winner),
         !.led = IF i = 1 THEN @ \cup {LeadSuit(trick)} ELSE @,
         !.broke_hearts = \/ @
                          \/ /\ ~broken_before /\ card[1] = Hearts
                             /\ \A j \in before : trick[j].card[1] # Hearts,
         !.led_qs = @ \/ (i = 1 /\ \E j \in DOMAIN trick : trick[j].card = Queen),
         !.first_of_suit = \/ @
                           \/ /\ def.condition = "PLAY_CARD_FIRST_OF_SUIT" /\ card = def.card
                              /\ card[1] \notin suit_seen
                              /\ \A j \in before : trick[j].card[1] # card[1],
         !.hits[card[1]] = IF hit THEN @ + 1 ELSE @,
         !.hit_with_passed = @ \/ (hit /\ card \in contract.received),
         !.hit_with_transmute = @ \/ (hit /\ transmuted)]

contract_on_trick_complete(p2, round_points, trick, winner, number, tti, broken_before) ==
  LET prevented == MoonPrevented(round_points, trick, winner, number)
      entered(p, contract) ==
        LET won == IF p = winner THEN WinnerGains(contract, trick, winner, number, prevented)
                   ELSE contract
        IN  PlayerGains(won, trick, p, winner, tti, broken_before, p2.suit_seen)
  IN  [p2 EXCEPT
         !.contracts = [p \in Players |-> [c \in DOMAIN @[p] |-> entered(p, @[p][c])]],
         !.suit_seen = @ \cup {trick[i].card[1] : i \in DOMAIN trick}]

-----------------------------------------------------------------------------
(* The end of the round *)

\* The points other players' contracts have counted: those of their first contract.
CountedFor(contracts, p) == IF contracts[p] = <<>> THEN 0 ELSE contracts[p][1].points

Enough(def, n) == IF def.at_least THEN n >= def.count ELSE n = def.count

\* contract_evaluate_one
Fulfilled(contract, contracts, p, moon_shooter) ==
  LET def == ContractDefs[contract.contract]
      is(condition) == def.condition = condition
      last == TricksPerRound - def.count .. TricksPerRound - 1
  IN  \/ is("AVOID_SUIT") /\ contract.cards[def.suit] = 0
      \/ is("COLLECT_N_OF_SUIT") /\ Enough(def, contract.cards[def.suit])
      \/ is("WIN_N_TRICKS") /\ Enough(def, Cardinality(contract.tricks))
      \/ is("TAKE_NO_POINTS") /\ contract.points = 0
      \/ is("COLLECT_CARD") /\ contract.has_card
      \/ is("WIN_CONSECUTIVE_TRICKS") /\ contract.max_streak >= def.count
      \/ is("HIT_N_WITH_SUIT") /\ contract.hits[def.suit] >= def.count
      \/ is("LOWEST_SCORE") /\ \A q \in Players \ {p} : CountedFor(contracts, q) > contract.points
      \/ is("NEVER_LEAD_SUIT") /\ def.suit \notin contract.led
      \/ is("WIN_TRICK_N") /\ def.count \in contract.tricks
      \/ is("BREAK_HEARTS") /\ contract.broke_hearts
      \/ is("WIN_FIRST_N_TRICKS") /\ 0 .. def.count - 1 \subseteq contract.tricks
      \/ is("AVOID_LAST_N_TRICKS") /\ last \cap contract.tricks = {}
      \/ is("WIN_WITH_PASSED_CARD") /\ contract.won_with_passed
      \/ is("HIT_WITH_PASSED_CARD") /\ contract.hit_with_passed
      \/ is("WIN_FIRST_AND_LAST") /\ {0, TricksPerRound - 1} \subseteq contract.tricks
      \/ is("LEAD_QUEEN_SPADES_TRICK") /\ contract.led_qs
      \/ is("SHOOT_THE_MOON") /\ p = moon_shooter
      \/ is("PREVENT_MOON") /\ contract.prevented_moon
      \/ is("PLAY_CARD_FIRST_OF_SUIT") /\ contract.first_of_suit
      \/ is("HIT_WITH_TRANSMUTE") /\ contract.hit_with_transmute

contract_evaluate_all(contracts, p, moon_shooter) ==
  [c \in DOMAIN contracts[p] |->
     LET done == Fulfilled(contracts[p][c], contracts, p, moon_shooter)
     IN  [contracts[p][c] EXCEPT !.completed = done, !.failed = ~done]]

\* The transmutations of the fulfilled contracts, as many as the inventory has room for.
contract_apply_rewards_all(inv, contracts) ==
  FoldLeft(LAMBDA items, contract : IF contract.completed THEN transmute_inv_add(items, contract.paired)
                                    ELSE items, inv, contracts)

=============================================================================
