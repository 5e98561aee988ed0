---------------------------- MODULE Transmutations ----------------------------
(*****************************************************************************)
(* Transmuted cards: phase2/transmutation_logic.c over the rules of          *)
(* GameState.                                                                *)
(*                                                                           *)
(* A transmutation turns a card of a hand into another one, and a hand may   *)
(* then hold a card twice: here a hand is the sequence of its cards. What is *)
(* known of a transmuted card is in a slot of its own, at the same place in  *)
(* a second array that is shifted by its own calls. A trick has such an      *)
(* array too, the TrickTransmuteInfo tti.                                    *)
(*                                                                           *)
(* p2 is the Phase2State, of which the operators read and write the fields   *)
(* they name. Who wins a trick may be drawn by lot, so that                  *)
(* transmute_trick_get_winner is the set of its possible results.            *)
(*****************************************************************************)
EXTENDS GameState, SequencesExt

CONSTANTS Defs,         \* g_transmutation_defs: the definitions by their id
          MaxInventory  \* MAX_TRANSMUTE_INVENTORY, 18 in the code

Effects ==
  {"NONE", "MARTYR", "GATHERER", "ROGUE", "PENDULUM", "FOG", "MIRROR", "ROULETTE", "TRAP",
   "SHIELD", "CURSE", "ANCHOR", "BINDING", "CROWN", "PARASITE", "BOUNTY", "INVERSION", "JOKER"}
NotTransmuted == -1
NoCard == <<-1, -1>>
NoSuit == -1

ASSUME DefsAssumption ==
  /\ DOMAIN Defs \subseteq Nat
  /\ \A id \in DOMAIN Defs :
       Defs[id] \in [card : (0 .. 3) \X (0 .. 12), special : {"NORMAL", "ALWAYS_WIN", "ALWAYS_LOSE"},
                     mask : SUBSET (0 .. 3), points : Int, negative : BOOLEAN, effect : Effects]
  /\ MaxInventory \in Nat

NoSlot == [id |-> NotTransmuted, original |-> NoCard, by |-> NoPlayer,
           fogged |-> FALSE, fogged_by |-> NoPlayer]
EffectOf(id) == IF id \in DOMAIN Defs THEN Defs[id].effect ELSE "NONE"
FirstPlace(cards, Test(_)) == SelectInSeq(cards, Test)

-----------------------------------------------------------------------------
(* The inventory *)

transmute_inv_add(inv, id) == IF Len(inv) < MaxInventory THEN Append(inv, id) ELSE inv
transmute_inv_remove(inv, i) == RemoveAt(inv, i)

-----------------------------------------------------------------------------
(* The slots beside a hand: one for each place it can have *)

transmute_hand_init == [i \in 1 .. TricksPerRound |-> NoSlot]

transmute_is_transmuted(slots, i) == slots[i].id >= 0
MaskAt(slots, i) == IF transmute_is_transmuted(slots, i) THEN Defs[slots[i].id].mask ELSE {}

\* Slip: the slots behind the card stay where they are.
RemoveSlotInPlace(slots, i) == [slots EXCEPT ![i] = NoSlot]

\* The card at place i has left the hand.
transmute_hand_remove_at(slots, i) == Append(RemoveAt(slots, i), NoSlot)

\* The two of clubs is never transmuted and the queen of spades only fogged; a transmuted
\* card takes a fog and nothing else, once.
CanTransmute(hand, slots, inv, i, id) ==
  /\ i \in DOMAIN hand /\ id \in DOMAIN Defs
  /\ hand[i] # TwoOfClubs
  /\ hand[i] = <<Spades, QueenRank>> => EffectOf(id) = "FOG"
  /\ transmute_is_transmuted(slots, i) => EffectOf(id) = "FOG" /\ ~slots[i].fogged
  /\ \E s \in DOMAIN inv : inv[s] = id

transmute_apply(hand, slots, inv, i, id, p) ==
  LET fog == EffectOf(id) = "FOG"
      fogged == IF fog THEN [slots[i] EXCEPT !.fogged = TRUE, !.fogged_by = p] ELSE slots[i]
      slot == IF transmute_is_transmuted(slots, i) THEN fogged
              ELSE [fogged EXCEPT !.id = id, !.original = hand[i], !.by = p]
  IN  [hand  |-> IF fog THEN hand ELSE [hand EXCEPT ![i] = Defs[id].card],
       slots |-> [slots EXCEPT ![i] = slot],
       inv   |-> transmute_inv_remove(inv, FirstPlace(inv, LAMBDA x : x = id))]

\* The casual AI, outside the pass: the first transmutation that is not meant for an
\* opponent and fits a card, on the lowest card it fits.
transmute_ai_apply(hand, slots, inv, p) ==
  LET fits(id) == {i \in DOMAIN hand : CanTransmute(hand, slots, inv, i, id)}
      s == FirstPlace(inv, LAMBDA id : ~Defs[id].negative /\ fits(id) # {})
      lowest(id) == CHOOSE i \in fits(id) :
                      \A j \in fits(id) : \/ hand[i][2] < hand[j][2]
                                          \/ hand[i][2] = hand[j][2] /\ i <= j
  IN  IF s = 0 THEN [hand |-> hand, slots |-> slots, inv |-> inv]
      ELSE transmute_apply(hand, slots, inv, lowest(inv[s]), inv[s], p)

-----------------------------------------------------------------------------
(* Which cards may be played *)

\* A card whose definition has a suit mask follows its mask; any other card, transmuted or
\* not, follows the plain rules.
transmute_is_valid_play(trick, hand, slots, i, hearts_broken, first_trick) ==
  LET mask == MaskAt(slots, i)
      others == DOMAIN hand \ {i}
      points == Defs[slots[i].id].points
      penalty == points > 0 \/ (points < 0 /\ card_points(hand[i]) > 0)
      scores(j) == \/ card_points(hand[j]) > 0
                   \/ transmute_is_transmuted(slots, j) /\ Defs[slots[j].id].points > 0
      follows(j) == hand[j][1] = LeadSuit(trick) \/ LeadSuit(trick) \in MaskAt(slots, j)
      heartsOnly(j) == hand[j][1] = Hearts \/ MaskAt(slots, j) = {Hearts}
  IN  IF mask = {} THEN trick_is_valid_play(trick, Range(hand), hand[i], hearts_broken, first_trick)
      ELSE IF trick = <<>>
      THEN IF first_trick THEN hand[i] = TwoOfClubs
           ELSE mask = {Hearts} /\ ~hearts_broken => \A j \in others : heartsOnly(j)
      ELSE IF first_trick
      THEN IF hand_has_suit(Range(hand), LeadSuit(trick)) THEN LeadSuit(trick) \in mask
           ELSE penalty => \A j \in others : scores(j)
      ELSE LeadSuit(trick) \in mask \/ \A j \in others : ~follows(j)

\* transmute_curse_is_valid_lead (suit is Hearts) and transmute_anchor_is_valid_lead
ForcedSuit(hand, card, suit) == hand_has_suit(Range(hand), suit) => card[1] = suit

\* A mirror has the effect of the transmuted card played last, the joker's excepted.
transmute_resolve_effect(id, p2) ==
  IF EffectOf(id) # "MIRROR" THEN EffectOf(id)
  ELSE IF p2.last_effect = "JOKER" THEN "NONE" ELSE p2.last_effect

-----------------------------------------------------------------------------
(* Who takes a trick, and for how much *)

NoEffect == [id |-> NotTransmuted, by |-> NoPlayer, effect |-> "NONE",
             fogged |-> FALSE, fogged_by |-> NoPlayer]
sv_reset_tti == [i \in 1 .. CardsPerTrick |-> NoEffect]

HasEffect(tti, effect) == \E i \in DOMAIN tti : tti[i].effect = effect

\* resolve_mirror_card_identity: a mirror that shows an effect is the card of the first
\* definition that has it.
Resolved(play, info) ==
  LET sources == {id \in DOMAIN Defs : Defs[id].effect = info.effect}
      source == CHOOSE id \in sources : \A other \in sources : id <= other
  IN  IF EffectOf(info.id) = "MIRROR" /\ info.effect \notin {"NONE", "FOG"} /\ sources # {}
      THEN [play EXCEPT !.card = Defs[source].card]
      ELSE play

\* The first of the highest rank among some places of a full trick, as the loops find it.
FirstHighest(trick, places) ==
  LET better(best, i) ==
        IF i \in places /\ (best = 0 \/ trick[i].card[2] > trick[best].card[2]) THEN i ELSE best
  IN  better(better(better(better(0, 1), 2), 3), 4)

SpecialAt(tti, i) == IF tti[i].id >= 0 THEN Defs[tti[i].id].special ELSE "NORMAL"

Contenders(tti) ==
  {i \in DOMAIN tti : SpecialAt(tti, i) # "ALWAYS_LOSE" /\ ~(i > 1 /\ tti[i].effect = "JOKER")}

transmute_trick_get_winner(played, tti, p2) ==
  LET trick == [i \in DOMAIN played |-> Resolved(played[i], tti[i])]
      by(i) == trick[i].player
      led == {i \in DOMAIN trick : trick[i].card[1] = LeadSuit(trick)}
      wins == {i \in DOMAIN trick : SpecialAt(tti, i) = "ALWAYS_WIN"}
      bound == {i \in DOMAIN trick : p2.binding[by(i)] /\ ~(i > 1 /\ tti[i].effect = "JOKER")}
      contenders == Contenders(tti)
  IN  IF tti[1].effect = "JOKER" THEN {by(1)}
      ELSE IF wins # {} THEN {by(Max(wins))}
      ELSE IF bound # {} THEN {by(Min(bound))}
      ELSE IF HasEffect(tti, "ROULETTE") /\ contenders # {} THEN {by(i) : i \in contenders}
      ELSE IF HasEffect(tti, "CROWN") /\ contenders # {} THEN {by(FirstHighest(trick, contenders))}
      ELSE IF led \cap contenders # {} THEN {by(FirstHighest(trick, led \cap contenders))}
      ELSE {by(FirstHighest(trick, led))}

\* The points of the card at a place, for the trick.
PointsOf(trick, tti, i, p2) ==
  LET id == tti[i].id
      own == IF id \notin DOMAIN Defs THEN card_points(trick[i].card)
             ELSE IF Defs[id].points >= 0 THEN Defs[id].points
             ELSE IF Defs[id].effect = "MIRROR" THEN card_points(p2.last_card)
             ELSE card_points(trick[i].card)
      doubled == IF HasEffect(tti, "TRAP") /\ trick[i].card = <<Spades, QueenRank>>
                 THEN 2 * own ELSE own
  IN  IF HasEffect(tti, "INVERSION") THEN -doubled ELSE doubled

transmute_trick_count_points(trick, tti, p2) ==
  PointsOf(trick, tti, 1, p2) + PointsOf(trick, tti, 2, p2)
    + PointsOf(trick, tti, 3, p2) + PointsOf(trick, tti, 4, p2)

-----------------------------------------------------------------------------
(* What the effects of a trick leave behind *)

HowMany(tti, effect) == Cardinality({i \in DOMAIN tti : tti[i].id >= 0 /\ tti[i].effect = effect})

\* The effects of the transmuted cards fall on the winner, whoever played them.
transmute_on_trick_complete(p2, trick, winner, tti) ==
  LET sign == IF HasEffect(tti, "INVERSION") THEN -1 ELSE 1
      has(effect) == HowMany(tti, effect) > 0
      set(f, effect, value) == IF has(effect) THEN [f EXCEPT ![winner] = value] ELSE f
  IN  [p2 EXCEPT
         !.martyr[winner] = @ + HowMany(tti, "MARTYR"),
         !.gatherer[winner] = @ + sign * (3 * HowMany(tti, "GATHERER") + HowMany(tti, "PENDULUM")),
         !.rogue_pending = IF has("ROGUE") THEN winner ELSE @,
         !.shield = set(@, "SHIELD", 3),
         !.curse = set(@, "CURSE", TRUE),
         !.anchor = set(@, "ANCHOR", LeadSuit(trick)),
         !.binding = set(@, "BINDING", TRUE)]

AtLeastZero(n) == IF n < 0 THEN 0 ELSE n

\* transmute_apply_round_end, for one player: the gatherer reduces the round and the total
\* and neither under zero, then the martyr multiplies the round.
AfterGatherer(points, reduction) ==
  IF reduction > 0 THEN AtLeastZero(points - reduction) ELSE points - reduction

RoundEnd(points, reduction, martyrs) == AfterGatherer(points, reduction) * 2 ^ martyrs

TotalEnd(total, points, reduction, martyrs) ==
  AfterGatherer(total, reduction) + AfterGatherer(points, reduction) * (2 ^ martyrs - 1)

=============================================================================
