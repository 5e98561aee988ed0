---------------------------- MODULE TransmutedGame ----------------------------
(*****************************************************************************)
(* One playing room in the transmutations game mode: the sub-state machines  *)
(* of server/server_game.c over Transmutations, Contracts and Competitive.   *)
(*                                                                           *)
(* ServerGame has the same loop for the vanilla mode, with its clocks and    *)
(* state updates. Here the clocks are left out: what a timeout does may      *)
(* happen at any tick. So is the tick that only shows a full trick. The duel *)
(* is left out too: no pool offers it, and its commands are refused.         *)
(*                                                                           *)
(* gs and sg are as in ServerGame, but for the hands, which are sequences    *)
(* here, and for a selection of cards to pass, which is a sequence too: a    *)
(* card is selected with a hint, the transmutation it is of or NotTransmuted.*)
(*****************************************************************************)
EXTENDS Competitive

CONSTANTS Owners,       \* the seats of human players
          Starts,       \* the games to look at, each at the deal of a round
          Amounts,      \* how many cards a dealer may have passed, 2 to 4 in the code
          Careless      \* players also transmute cards they have selected to pass, and leave
                        \* a table of competitive AI while they select

ASSUME TableAssumption ==
  /\ Owners \subseteq Players /\ Amounts \subseteq 1 .. TricksPerRound
  /\ Careless \in BOOLEAN
  /\ \A start \in Starts : /\ start.hands \in Dealings /\ start.round \in Nat \ {0}
                           /\ start.inv \in [Players -> Seq(DOMAIN Defs)]

VARIABLES gs, sg, p2, is_human

vars == <<gs, sg, p2, is_human>>

PassSubstates ==
  {"IDLE", "DEALER_DIR", "DEALER_AMT", "DEALER_CONFIRM", "CONTRACT_DRAFT", "CARD_SELECT",
   "EXECUTE", "TRANSMUTE"}
PlaySubstates == {"IDLE", "WAIT_TURN", "TRICK_DONE", "ROGUE_WAIT"}
NoDraft == [available |-> [p \in Players |-> <<>>], picked |-> [p \in Players |-> <<>>],
            has_picked |-> [p \in Players |-> FALSE], round |-> 0, active |-> FALSE]
NoSlotSelected == 0
ByIndex(a, b) == card_to_index(a) < card_to_index(b)

hand_sort(hand) == SortSeq(hand, ByIndex)

\* Slip: all the cards equal to it leave the hand.
RemoveEvery(hand, card) == SelectSeq(hand, LAMBDA c : c # card)

hand_remove_card(hand, card) ==
  IF card \in Range(hand) THEN RemoveFirst(hand, card) ELSE hand
hand_add_card(hand, card) == IF Len(hand) < TricksPerRound THEN Append(hand, card) ELSE hand

Sorted(hands) == [p \in Players |-> SetToSortSeq(hands[p], ByIndex)]

\* A new round, with hands that are sequences.
NewRound(g, hands) ==
  [game_state_new_round(g, Sorted(hands)) EXCEPT !.pass_selections = [p \in Players |-> <<>>]]

\* server_game_start, contract_state_init and whatever the rounds before have left.
Init ==
  \E start \in Starts :
    /\ gs = NewRound([NewGame(start.hands) EXCEPT !.round_number = start.round - 1,
                                                  !.total_score = start.total], start.hands)
    /\ sg = [pass_substate |-> "IDLE", play_substate |-> "IDLE", dealer_player |-> NoPlayer,
             draft_initialized |-> FALSE, draft_round |-> 0,
             selected_transmute_slot |-> [p \in Players |-> NoSlotSelected],
             prev_round_points |-> start.prev, broken_before |-> FALSE, tti |-> sv_reset_tti,
             scoring_evaluated |-> FALSE, scoring_ready |-> [p \in Players |-> FALSE],
             competitive |-> start.competitive, comp_ai |-> [p \in Players |-> NoKnowledge], until |-> start.until]
    /\ p2 = [inv |-> start.inv, slots |-> [p \in Players |-> transmute_hand_init],
             contracts |-> [p \in Players |-> <<>>], draft |-> NoDraft, suit_seen |-> {},
             martyr |-> [p \in Players |-> 0], gatherer |-> [p \in Players |-> 0],
             rogue_pending |-> NoPlayer, rogue_view |-> <<>>,
             shield |-> [p \in Players |-> 0], curse |-> [p \in Players |-> FALSE],
             anchor |-> [p \in Players |-> NoSuit], binding |-> [p \in Players |-> FALSE],
             last_id |-> NotTransmuted, last_effect |-> "NONE", last_card |-> <<0, 0>>]
    /\ is_human = [p \in Players |-> p \in Owners]

-----------------------------------------------------------------------------
(* Who deals, and how many cards are passed where to *)

\* sv_determine_dealer: most points in the round before, then in all, then the lowest seat.
\* The search starts at -1 of each: nobody deals when every seat is below that.
sv_determine_dealer ==
  LET prev == sg.prev_round_points
      total == gs.total_score
      seats == {p \in Players : prev[p] > -1 \/ (prev[p] = -1 /\ total[p] >= -1)}
      before(p, q) == \/ prev[p] > prev[q]
                      \/ prev[p] = prev[q] /\ total[p] > total[q]
                      \/ prev[p] = prev[q] /\ total[p] = total[q] /\ p <= q
  IN  IF gs.round_number <= 1 \/ seats = {} THEN NoPlayer
      ELSE CHOOSE p \in seats : \A q \in seats : before(p, q)

CompPlays(p) == sg.competitive /\ ~is_human[p]

\* PHASE_DEALING
TickDeal ==
  /\ gs.phase = "DEALING" /\ gs.round_number <= sg.until
  /\ gs' = [gs EXCEPT !.phase = "PASSING"]
  /\ p2' = contract_round_reset(p2)
  /\ sg' = [sg EXCEPT
              !.dealer_player = sv_determine_dealer,
              !.pass_substate = IF sv_determine_dealer = NoPlayer THEN "CONTRACT_DRAFT"
                                ELSE "DEALER_DIR",
              !.draft_initialized = FALSE, !.draft_round = 0,
              !.selected_transmute_slot = [p \in Players |-> NoSlotSelected],
              !.comp_ai = [p \in Players |-> IF CompPlays(p) THEN comp_ai_init_hand(p, gs) ELSE @[p]]]
  /\ UNCHANGED is_human

Passing(substate) ==
  gs.phase = "PASSING" /\ sg.pass_substate = substate /\ UNCHANGED is_human

DirectionIs(direction) ==
  /\ Passing("DEALER_DIR")
  /\ gs' = [gs EXCEPT !.pass_direction = direction]
  /\ sg' = [sg EXCEPT !.pass_substate = "DEALER_AMT"]
  /\ UNCHANGED p2

AmountIs(amount) ==
  /\ Passing("DEALER_AMT")
  /\ gs' = [gs EXCEPT !.pass_card_count = amount]
  /\ sg' = [sg EXCEPT !.pass_substate = "DEALER_CONFIRM"]
  /\ UNCHANGED p2

Confirmed ==
  /\ Passing("DEALER_CONFIRM")
  /\ gs' = [gs EXCEPT !.pass_direction = IF gs.pass_card_count = 0 THEN "NONE" ELSE @]
  /\ sg' = [sg EXCEPT !.pass_substate = "CONTRACT_DRAFT", !.draft_round = 0,
                      !.draft_initialized = FALSE]
  /\ UNCHANGED p2

\* INPUT_CMD_DEALER_DIR, INPUT_CMD_DEALER_AMT and INPUT_CMD_DEALER_CONFIRM; no cards at all
\* is an amount a player may choose.
DealerCommand ==
  /\ sg.dealer_player # NoPlayer /\ is_human[sg.dealer_player]
  /\ \/ \E direction \in {"LEFT", "RIGHT", "ACROSS"} : DirectionIs(direction)
     \/ \E amount \in Amounts \cup {0} : AmountIs(amount)
     \/ Confirmed

\* The same by the AI, by lot or by the competitive AI, or by lot after the timeout.
TickDealer ==
  /\ sg.dealer_player # NoPlayer
  /\ \/ \E direction \in {"LEFT", "RIGHT", "ACROSS"} : DirectionIs(direction)
     \/ CompPlays(sg.dealer_player) /\ DirectionIs(comp_ai_pick_direction(sg.comp_ai[sg.dealer_player]))
     \/ ~CompPlays(sg.dealer_player) /\ \E amount \in Amounts : AmountIs(amount)
     \/ /\ CompPlays(sg.dealer_player)
        /\ AmountIs(comp_ai_pick_amount(gs.hand[sg.comp_ai[sg.dealer_player].my_seat]))
     \/ Confirmed

-----------------------------------------------------------------------------
(* The draft of the contracts *)

\* INPUT_CMD_SELECT_CONTRACT
SelectContract(p, i) ==
  /\ Passing("CONTRACT_DRAFT") /\ is_human[p] /\ CanPick(p2.draft, p, i)
  /\ p2' = [p2 EXCEPT !.draft = draft_pick(p2.draft, p, i)]
  /\ UNCHANGED <<gs, sg>>

InTurn(draft, choice) ==
  LET pick(d, p) == IF p \in DOMAIN choice THEN draft_pick(d, p, choice[p]) ELSE d
  IN  pick(pick(pick(pick(draft, 0), 1), 2), 3)

\* SV_PASS_CONTRACT_DRAFT: the AI picks anything, for the players who are late the first
\* pair is picked; when everybody has picked, the pairs go on or the contracts are made.
TickDraft ==
  /\ Passing("CONTRACT_DRAFT")
  /\ \E draft \in IF sg.draft_initialized THEN {p2.draft} ELSE {draft_generate_pool(pool) : pool \in Pools},
        timeout \in BOOLEAN :
       LET due == {p \in Players : ~draft.has_picked[p] /\ (is_human[p] => timeout)}
       IN  \E choice \in [due -> 1 .. GroupSize] :
             /\ \A p \in due : /\ choice[p] \in DOMAIN draft.available[p]
                               /\ is_human[p] => choice[p] = 1
                               /\ CompPlays(p) => choice[p] = comp_ai_draft_pick(draft.available[p])
             /\ LET next == InTurn(draft, choice)
                    all == draft_all_picked(next)
                    last == all /\ sg.draft_round + 1 >= DraftRounds
                IN  /\ p2' = IF last THEN draft_finalize(next, p2)
                             ELSE [p2 EXCEPT !.draft = IF all THEN draft_advance_round(next) ELSE next]
                    /\ sg' = [sg EXCEPT !.draft_initialized = TRUE,
                                        !.draft_round = (IF sg.draft_initialized THEN @ ELSE 0)
                                                        + (IF all THEN 1 ELSE 0),
                                        !.pass_substate = IF last THEN "CARD_SELECT" ELSE @]
  /\ UNCHANGED gs

-----------------------------------------------------------------------------
(* The cards to pass are selected *)

Selecting(p) == Passing("CARD_SELECT") /\ is_human[p]
Entry(p, i) == [card |-> gs.hand[p][i], hint |-> p2.slots[p][i].id]

\* INPUT_CMD_SELECT_CARD: a card the client shows, selected or taken back.
SelectCard(p, i) ==
  /\ Selecting(p) /\ ~gs.pass_ready[p]
  /\ LET selected == gs.pass_selections[p]
         found == SelectInSeq(selected, LAMBDA e : e = Entry(p, i))
     IN  /\ found = 0 => Len(selected) < gs.pass_card_count
         /\ gs' = [gs EXCEPT !.pass_selections[p] =
                     IF found # 0 THEN RemoveAt(selected, found) ELSE Append(selected, Entry(p, i))]
  /\ UNCHANGED <<sg, p2>>

\* INPUT_CMD_SELECT_TRANSMUTATION: one of the inventory, by its number, or none.
SelectTransmutation(p, id) ==
  /\ Selecting(p)
  /\ sg' = [sg EXCEPT !.selected_transmute_slot[p] =
              IF id = NotTransmuted THEN NoSlotSelected
              ELSE SelectInSeq(p2.inv[p], LAMBDA x : x = id)]
  /\ UNCHANGED <<gs, p2>>

\* INPUT_CMD_APPLY_TRANSMUTATION, to the first such card of the hand. The selection to
\* pass gets the new card, and keeps its hint.
ApplyTransmutation(p, card) ==
  LET i == SelectInSeq(gs.hand[p], LAMBDA c : c = card)
      s == sg.selected_transmute_slot[p]
      id == p2.inv[p][s]
      done == transmute_apply(gs.hand[p], p2.slots[p], p2.inv[p], i, id, p)
      at == SelectInSeq(gs.pass_selections[p], LAMBDA e : e.card = card)
  IN  /\ Selecting(p)
      /\ i # 0 /\ s \in DOMAIN p2.inv[p] /\ CanTransmute(gs.hand[p], p2.slots[p], p2.inv[p], i, id)
      /\ Careless \/ at = 0
      /\ gs' = [gs EXCEPT !.hand[p] = done.hand,
                          !.pass_selections[p] =
                            IF at = 0 THEN @ ELSE [@ EXCEPT ![at].card = done.hand[i]]]
      /\ p2' = [p2 EXCEPT !.slots[p] = done.slots, !.inv[p] = done.inv]
      /\ sg' = [sg EXCEPT !.selected_transmute_slot[p] = NoSlotSelected]

\* game_state_select_pass: cards of the hand, and none twice with the same hint.
CanPass(p, selected) ==
  /\ \A j \in DOMAIN selected : selected[j].card \in Range(gs.hand[p])
  /\ IsInjective(selected)

\* INPUT_CMD_CONFIRM
ConfirmPass(p) ==
  /\ Selecting(p) /\ ~gs.pass_ready[p]
  /\ Len(gs.pass_selections[p]) = gs.pass_card_count
  /\ CanPass(p, gs.pass_selections[p])
  /\ gs' = [gs EXCEPT !.pass_ready[p] = TRUE]
  /\ UNCHANGED <<sg, p2>>

\* sv_ai_select_pass: the cards worth most to give away, then highest, then first.
AiPass(p) ==
  LET hand == gs.hand[p]
      before(i, j) == \/ card_points(hand[i]) > card_points(hand[j])
                      \/ card_points(hand[i]) = card_points(hand[j]) /\ hand[i][2] > hand[j][2]
                      \/ card_points(hand[i]) = card_points(hand[j]) /\ hand[i][2] = hand[j][2] /\ i < j
      best == SetToSortSeq(DOMAIN hand, before)
  IN  [j \in 1 .. gs.pass_card_count |-> Entry(p, best[j])]

\* The choice of comp_ai_select_pass, of the hand of its my_seat. The hint is that of the
\* first such card of the own hand no other selected one has claimed.
CompHand(p) == gs.hand[sg.comp_ai[p].my_seat]

PassFrom(p, theirs, places) ==
  LET own(card) == {k \in DOMAIN gs.hand[p] : gs.hand[p][k] = card}
      hint(j) ==
        LET card == theirs[places[j]]
            earlier == Cardinality({m \in 1 .. j - 1 : theirs[places[m]] = card})
            free == {k \in own(card) : Cardinality({l \in own(card) : l < k}) >= earlier}
        IN  IF free = {} THEN NotTransmuted ELSE p2.slots[p][Min(free)].id
  IN  [j \in 1 .. gs.pass_card_count |-> [card |-> theirs[places[j]], hint |-> hint(j)]]

CompPass(p) ==
  PassFrom(p, CompHand(p), comp_ai_select_pass(CompHand(p), gs.pass_direction, gs.pass_card_count))

PassChoice(p) == IF CompPlays(p) THEN CompPass(p) ELSE AiPass(p)

\* A choice that is refused leaves its hints with the cards selected before.
AfterChoice(p, choice) ==
  IF CanPass(p, choice) THEN choice
  ELSE [j \in DOMAIN gs.pass_selections[p] |-> [gs.pass_selections[p][j] EXCEPT !.hint = choice[j].hint]]

\* SV_PASS_CARD_SELECT: the AI passes after its delay, players who are late are passed for.
\* (The delays of the AI seats differ; no choice depends on another, and they end together.)
TickSelect ==
  /\ Passing("CARD_SELECT")
  /\ \E timeout \in BOOLEAN :
     \E due \in {{p \in Players : ~gs.pass_ready[p] /\ (is_human[p] => timeout)}} :
     \E choice \in {[p \in due |-> PassChoice(p)]} :
       LET comp == {p \in due : CompPlays(p) /\ gs.pass_card_count > 0}
       IN  /\ \A p \in comp : PassLoopEnds(CompHand(p), gs.pass_direction, gs.pass_card_count)
           /\ gs' = [gs EXCEPT
                !.pass_selections = [p \in Players |-> IF p \in due THEN AfterChoice(p, choice[p]) ELSE @[p]],
                !.pass_ready = [p \in Players |-> @[p] \/ (p \in due /\ CanPass(p, choice[p]))]]
           /\ sg' = [sg EXCEPT
                !.comp_ai = [p \in Players |->
                  IF p \in comp
                  THEN [@[p] EXCEPT !.attempting_moon = AttemptsMoon(CompHand(p), gs.pass_card_count)]
                  ELSE @[p]],
                !.pass_substate = IF game_state_all_passes_ready(gs') THEN "EXECUTE" ELSE @]
  /\ UNCHANGED p2

-----------------------------------------------------------------------------
(* The pass *)

PassedTo(p) == (p + PassOffset(gs.pass_direction)) % 4
PassedFrom(p) == (p + 4 - PassOffset(gs.pass_direction)) % 4
CardsOf(selected) == [j \in DOMAIN selected |-> selected[j].card]

\* game_state_execute_pass: every hand loses the first of each card it passes, and takes
\* what it has room for.
HandsPassed ==
  [p \in Players |->
     LET kept == FoldLeft(hand_remove_card, gs.hand[p], CardsOf(gs.pass_selections[p]))
     IN  hand_sort(FoldLeft(hand_add_card, kept, CardsOf(gs.pass_selections[PassedFrom(p)])))]

\* What is known of the cards before the pass: a card is passed if it is selected with its
\* own hint.
Saved(p) ==
  LET mark(k) == [slot |-> p2.slots[p][k], card |-> gs.hand[p][k],
                  owner |-> IF \E j \in DOMAIN gs.pass_selections[p] : gs.pass_selections[p][j] = Entry(p, k)
                            THEN PassedTo(p) ELSE p]
  IN  [k \in DOMAIN gs.hand[p] |-> mark(k)]

\* Slip: a mark is put back on the first such card, marked or not.
RestoreOver(slots, hands, mark) ==
  LET fits == {k \in DOMAIN hands[mark.owner] : hands[mark.owner][k] = mark.card}
  IN  IF mark.slot.id < 0 \/ fits = {} THEN slots ELSE [slots EXCEPT ![mark.owner][Min(fits)] = mark.slot]

\* What is known of a transmuted card is put back on the first such card without a mark.
Restore(slots, hands, mark) ==
  LET fits == {k \in DOMAIN hands[mark.owner] :
                 hands[mark.owner][k] = mark.card /\ ~transmute_is_transmuted(slots[mark.owner], k)}
  IN  IF mark.slot.id < 0 \/ fits = {} THEN slots ELSE [slots EXCEPT ![mark.owner][Min(fits)] = mark.slot]

\* SV_PASS_EXECUTE
TickExecute ==
  /\ Passing("EXECUTE")
  /\ gs' = [gs EXCEPT !.hand = HandsPassed,
                      !.pass_selections = [p \in Players |-> <<>>],
                      !.pass_ready = [p \in Players |-> FALSE], !.trick = <<>>,
                      !.lead_player = game_state_find_two_of_clubs([p \in Players |-> Range(HandsPassed[p])])]
  /\ p2' = [p2 EXCEPT
              !.slots = FoldLeft(LAMBDA slots, mark : Restore(slots, HandsPassed, mark),
                                 [p \in Players |-> transmute_hand_init],
                                 Saved(0) \o Saved(1) \o Saved(2) \o Saved(3)),
              !.contracts = [p \in Players |->
                contract_record_received_cards(@[p], Range(CardsOf(gs.pass_selections[PassedFrom(p)])))]]
  /\ sg' = [sg EXCEPT
              !.pass_substate = "TRANSMUTE",
              !.comp_ai = [p \in Players |->
                IF CompPlays(p)
                THEN comp_ai_on_pass_execute(@[p], CardsOf(gs'.pass_selections[p]),
                                             CardsOf(gs'.pass_selections[PassedFrom(p)]), PassedTo(p))
                ELSE @[p]]]

AfterTransmute(p) ==
  IF is_human[p] THEN [hand |-> gs.hand[p], slots |-> p2.slots[p], inv |-> p2.inv[p]]
  ELSE IF sg.competitive THEN comp_ai_apply_transmutations(gs.hand[p], p2.slots[p], p2.inv[p], p)
  ELSE transmute_ai_apply(gs.hand[p], p2.slots[p], p2.inv[p], p)

\* SV_PASS_TRANSMUTE: the AI transmutes, and the play begins.
TickTransmute ==
  /\ Passing("TRANSMUTE")
  /\ \E after \in {[p \in Players |-> AfterTransmute(p)]} :
       /\ gs' = [gs EXCEPT !.hand = [p \in Players |-> after[p].hand], !.phase = "PLAYING"]
       /\ p2' = [p2 EXCEPT !.slots = [p \in Players |-> after[p].slots],
                           !.inv = [p \in Players |-> after[p].inv]]
  /\ sg' = [sg EXCEPT !.pass_substate = "IDLE", !.play_substate = "WAIT_TURN",
                      !.broken_before = gs.hearts_broken, !.tti = sv_reset_tti]

-----------------------------------------------------------------------------
(* A card is played *)

Leading == gs.trick = <<>>
FirstTrick == gs.tricks_played = 0
Current == game_state_current_player(gs)

\* Slip: only a player who is not cursed learns of the anchor, and a curse is not looked at.
LeadAnchored(p, card) == p2.anchor[p] # NoSuit => ForcedSuit(gs.hand[p], card, p2.anchor[p])

\* What a curse or else an anchor demands of the card that is led.
LeadAllowed(p, card) ==
  Leading => IF p2.curse[p] THEN ForcedSuit(gs.hand[p], card, Hearts)
             ELSE p2.anchor[p] # NoSuit => ForcedSuit(gs.hand[p], card, p2.anchor[p])

\* A curse lets hearts be led.
Broken(p) == gs.hearts_broken \/ (Leading /\ p2.curse[p])

Valid(p, i) ==
  /\ transmute_is_valid_play(gs.trick, gs.hand[p], p2.slots[p], i, Broken(p), FirstTrick)
  /\ LeadAllowed(p, gs.hand[p][i])

\* Which card is meant by a card and a hint: the first that is of that transmutation, or
\* else the first such card, if there is one.
PlaceOfCard(p, card, hint) ==
  LET equal == {i \in DOMAIN gs.hand[p] : gs.hand[p][i] = card}
      meant == {i \in equal : p2.slots[p][i].id = hint}
  IN  IF meant # {} THEN Min(meant) ELSE IF equal # {} THEN Min(equal) ELSE 0

\* sv_play_card_with_transmute accepts the card at place i: a natural card follows the
\* plain rules, whatever the rest of the hand.
CanPlay(p, i) ==
  /\ gs.phase = "PLAYING" /\ Current = p /\ i \in DOMAIN gs.hand[p]
  /\ LeadAllowed(p, gs.hand[p][i])
  /\ IF transmute_is_transmuted(p2.slots[p], i) THEN Valid(p, i)
     ELSE trick_is_valid_play(gs.trick, Range(gs.hand[p]), gs.hand[p][i], Broken(p), FirstTrick)

OnTable(p, card) ==
  [gs EXCEPT !.trick = Append(@, [player |-> p, card |-> card]),
             !.hearts_broken = @ \/ card[1] = Hearts]

\* The trick is full after this card.
AfterCard == IF Len(gs.trick) + 1 = CardsPerTrick THEN "TRICK_DONE" ELSE "WAIT_TURN"

BrokenBefore == IF Leading THEN gs.hearts_broken ELSE sg.broken_before

\* sv_play_card_with_transmute plays it: the trick records the transmutation, a mirror's
\* effect is settled, and a curse or an anchor has been obeyed.
Plays(p, i) ==
  LET slot == p2.slots[p][i]
      card == gs.hand[p][i]
      effect == transmute_resolve_effect(slot.id, p2)
      info == [id |-> slot.id, by |-> slot.by, effect |-> effect, fogged |-> slot.fogged,
               fogged_by |-> IF slot.fogged THEN slot.fogged_by ELSE NoPlayer]
      transmuted == slot.id >= 0
  IN  /\ gs' = [OnTable(p, card) EXCEPT !.hand[p] = RemoveAt(@, i),
                                        !.hearts_broken = @ \/ (Leading /\ p2.curse[p])]
      /\ sg' = [sg EXCEPT !.tti[Len(gs.trick) + 1] = info, !.broken_before = BrokenBefore,
                          !.play_substate = AfterCard]
      /\ p2' = [p2 EXCEPT !.slots[p] = transmute_hand_remove_at(@, i),
                          !.curse[p] = @ /\ ~Leading,
                          !.anchor[p] = IF Leading THEN NoSuit ELSE @,
                          !.last_id = IF transmuted THEN slot.id ELSE @,
                          !.last_effect = IF transmuted THEN effect ELSE @,
                          !.last_card = IF transmuted /\ EffectOf(slot.id) # "MIRROR" THEN card ELSE @]

\* The ways out when nothing can be played: the first such card leaves the hand, and its
\* slot stays. With no card left there is no way out.
Forces(p, card) ==
  /\ gs.hand[p] # <<>>
  /\ gs' = [OnTable(p, card) EXCEPT !.hand[p] = hand_remove_card(@, card)]
  /\ sg' = [sg EXCEPT !.broken_before = BrokenBefore, !.play_substate = AfterCard]
  /\ UNCHANGED p2

WaitTurn == gs.phase = "PLAYING" /\ sg.play_substate = "WAIT_TURN" /\ UNCHANGED is_human

\* INPUT_CMD_PLAY_CARD
PlayCard(p, i) ==
  /\ WaitTurn /\ is_human[p] /\ Current = p
  /\ LET place == PlaceOfCard(p, gs.hand[p][i], p2.slots[p][i].id)
     IN  CanPlay(p, place) /\ Plays(p, place)

\* sv_ai_play_card: the first valid card, which is asked for without a hint and may then
\* be refused; if there is none the first by the plain rules, or just the first. (The
\* fallback for the two of clubs is never reached: it is never transmuted.)
AutoPlaces(p) == {i \in DOMAIN gs.hand[p] : Valid(p, i)}
AutoPlace(p) == PlaceOfCard(p, gs.hand[p][Min(AutoPlaces(p))], NotTransmuted)
AutoRefused(p) == AutoPlaces(p) # {} /\ ~CanPlay(p, AutoPlace(p))

PlainCards(p) ==
  {i \in DOMAIN gs.hand[p] :
     trick_is_valid_play(gs.trick, Range(gs.hand[p]), gs.hand[p][i], gs.hearts_broken, FirstTrick)}

AutoPlays(p) ==
  IF AutoPlaces(p) # {} THEN CanPlay(p, AutoPlace(p)) /\ Plays(p, AutoPlace(p))
  ELSE Forces(p, gs.hand[p][IF PlainCards(p) # {} THEN Min(PlainCards(p)) ELSE 1])

\* SV_PLAY_WAIT_TURN, at the end of the turn of a human player. A card that is refused
\* leaves the table as it is, to be tried again at the next tick.
TickHuman == WaitTurn /\ is_human[Current] /\ AutoPlays(Current)

\* The card comp_ai_play_card chooses is asked for without a hint.
CompPlace(p) ==
  PlaceOfCard(p, comp_ai_play_card(sg.comp_ai[p], gs.trick, gs.hand[p], AutoPlaces(p), gs.tricks_played),
              NotTransmuted)

\* The AI plays; a choice that is refused is made again as for a human player, and what is
\* refused then is forced.
TickAI ==
  /\ WaitTurn /\ ~is_human[Current]
  /\ \E place \in {CompPlace(Current)} :
       \/ sg.competitive /\ CanPlay(Current, place) /\ Plays(Current, place)
       \/ /\ sg.competitive => ~CanPlay(Current, place)
          /\ IF AutoRefused(Current) THEN Forces(Current, gs.hand[Current][1]) ELSE AutoPlays(Current)

-----------------------------------------------------------------------------
(* A trick is resolved *)

Sum(f) == f[0] + f[1] + f[2] + f[3]

\* Slip: the points of the queen go to who played it and stay with the trick as well.
BountyKept(points, given) == points

\* What a bounty leaves of the points of a trick.
BountyTaken(points, given) == points - given

\* A bounty gives the queen's points to who played it, a shield absorbs them.
QueenOf(p, i) ==
  IF gs.trick[i] = [player |-> p, card |-> Queen] THEN PointsOf(gs.trick, sg.tti, i, p2) ELSE 0

BountyOf(p) ==
  IF HasEffect(sg.tti, "BOUNTY") /\ p2.shield[p] = 0
  THEN QueenOf(p, 1) + QueenOf(p, 2) + QueenOf(p, 3) + QueenOf(p, 4)
  ELSE 0

Parasites == {gs.trick[i].player : i \in {j \in DOMAIN gs.trick : sg.tti[j].effect = "PARASITE"}}

\* The points of the trick: the parasites each take what the bounty leaves, or else the
\* winner does, unless shielded.
PointsFor(winner) ==
  LET bounty == [p \in Players |-> BountyOf(p)]
      left == BountyTaken(transmute_trick_count_points(gs.trick, sg.tti, p2), Sum(bounty))
      takes(p) == IF p2.shield[p] > 0 THEN 0 ELSE left
  IN  [redirected |-> [p \in Players |-> bounty[p] + (IF p \in Parasites THEN takes(p) ELSE 0)],
       won |-> IF Parasites # {} THEN 0 ELSE takes(winner)]

Completed(winner, points) ==
  game_state_complete_trick_with(
    [gs EXCEPT !.round_points = [p \in Players |-> @[p] + points.redirected[p]]], winner, points.won)

\* Slip: the contracts are told the number of the next trick.
TrickNumberAfter(g) == g.tricks_played

TrickNumber(g) == g.tricks_played - 1

\* The shields wear off, the bindings are spent; then the contracts are told of the trick
\* and its own effects begin.
Affected(winner, done) ==
  LET spent == [p2 EXCEPT !.shield = [p \in Players |-> AtLeastZero(@[p] - 1)],
                          !.binding = [p \in Players |-> FALSE]]
      entered == contract_on_trick_complete(spent, done.round_points, gs.trick, winner,
                                            TrickNumber(done), sg.tti, sg.broken_before)
  IN  transmute_on_trick_complete(entered, gs.trick, winner, sg.tti)

\* What a rogue reveals: the cards of a suit in another player's hand.
Revealed(hands, target, suit) ==
  [target |-> target, suit |-> suit, cards |-> SelectSeq(hands[target], LAMBDA c : c[1] = suit)]

\* sv_execute_rogue_ai: an opponent with most cards, and any suit.
RogueChoices(ai, hands, winner) ==
  LET most == {p \in Players \ {winner} : \A q \in Players \ {winner} : Len(hands[q]) <= Len(hands[p])}
      comp == comp_ai_rogue_pick(ai, hands, winner)
  IN  IF sg.competitive THEN {comp.target} \X comp.suits ELSE most \X Suits

\* comp_ai_on_trick_complete is given the trick that is on the table by then.
AfterTrick(p, winner, done) ==
  IF CompPlays(p) THEN comp_ai_on_trick_complete(sg.comp_ai[p], done.trick, winner)
  ELSE sg.comp_ai[p]

\* sv_check_post_trick_effects: the AI reveals at once, a human player is waited for.
TrickResolved(winner, done, after) ==
  LET rogue == IF done.phase = "PLAYING" THEN after.rogue_pending ELSE NoPlayer
      waits == rogue # NoPlayer /\ is_human[rogue]
  IN  /\ gs' = done
      /\ \/ /\ rogue = NoPlayer \/ waits
            /\ p2' = after
         \/ /\ rogue # NoPlayer /\ ~is_human[rogue]
            /\ \E choice \in RogueChoices(AfterTrick(rogue, winner, done), gs.hand, rogue) :
                 p2' = [after EXCEPT !.rogue_pending = NoPlayer,
                                     !.rogue_view = Revealed(gs.hand, choice[1], choice[2])]
      /\ sg' = [sg EXCEPT !.tti = sv_reset_tti,
                          !.comp_ai = [p \in Players |-> AfterTrick(p, winner, done)],
                          !.play_substate = IF done.phase # "PLAYING" THEN "IDLE"
                                            ELSE IF waits THEN "ROGUE_WAIT" ELSE "WAIT_TURN"]

\* SV_PLAY_TRICK_DONE, sv_resolve_trick
TickTrickDone ==
  /\ gs.phase = "PLAYING" /\ sg.play_substate = "TRICK_DONE"
  /\ \E winner \in transmute_trick_get_winner(gs.trick, sg.tti, p2) :
     \E points \in {PointsFor(winner)} : \E done \in {Completed(winner, points)} :
     \E after \in {Affected(winner, done)} : TrickResolved(winner, done, after)
  /\ UNCHANGED is_human

\* INPUT_CMD_ROGUE_REVEAL
RogueReveal(p, target, suit) ==
  /\ gs.phase = "PLAYING" /\ sg.play_substate = "ROGUE_WAIT" /\ is_human[p]
  /\ p = p2.rogue_pending /\ target # p /\ gs.hand[target] # <<>>
  /\ p2' = [p2 EXCEPT !.rogue_pending = NoPlayer, !.rogue_view = Revealed(gs.hand, target, suit)]
  /\ sg' = [sg EXCEPT !.play_substate = "WAIT_TURN"]
  /\ UNCHANGED <<gs, is_human>>

-----------------------------------------------------------------------------
(* The scores: sv_do_scoring *)

TickEvaluate ==
  /\ gs.phase = "SCORING" /\ ~sg.scoring_evaluated
  /\ LET evaluated == [p \in Players |-> contract_evaluate_all(p2.contracts, p, gs.moon_shooter)]
     IN  p2' = [p2 EXCEPT !.contracts = evaluated,
                          !.inv = [p \in Players |-> contract_apply_rewards_all(@[p], evaluated[p])]]
  /\ gs' = [gs EXCEPT
              !.round_points = [p \in Players |-> RoundEnd(@[p], p2.gatherer[p], p2.martyr[p])],
              !.total_score = [p \in Players |-> TotalEnd(@[p], gs.round_points[p], p2.gatherer[p], p2.martyr[p])]]
  /\ sg' = [sg EXCEPT !.prev_round_points = gs.round_points, !.scoring_evaluated = TRUE,
                      !.scoring_ready = [p \in Players |-> FALSE]]
  /\ UNCHANGED is_human

\* INPUT_CMD_CONFIRM while the scores are shown
ConfirmScores(p) ==
  /\ gs.phase = "SCORING" /\ sg.scoring_evaluated /\ is_human[p]
  /\ sg' = [sg EXCEPT !.scoring_ready[p] = TRUE]
  /\ UNCHANGED <<gs, p2, is_human>>

\* After everybody's confirmation or the timeout.
TickAdvance ==
  /\ gs.phase = "SCORING" /\ sg.scoring_evaluated
  /\ \/ /\ game_state_is_game_over(gs)
        /\ gs' = [gs EXCEPT !.phase = "GAME_OVER"]
     \/ /\ ~game_state_is_game_over(gs)
        /\ \E start \in Starts : gs' = NewRound(gs, start.hands)
  /\ sg' = [sg EXCEPT !.pass_substate = "IDLE", !.play_substate = "IDLE", !.scoring_evaluated = FALSE]
  /\ UNCHANGED <<p2, is_human>>

-----------------------------------------------------------------------------
(* The end of a grace period makes a seat an AI seat, its player may come back. *)

TakeOver(p) ==
  /\ p \in Owners /\ is_human[p]
  /\ Careless \/ ~(sg.competitive /\ gs.phase = "PASSING")
  /\ is_human' = [is_human EXCEPT ![p] = FALSE]
  /\ UNCHANGED <<gs, sg, p2>>

Return(p) ==
  /\ p \in Owners /\ ~is_human[p]
  /\ is_human' = [is_human EXCEPT ![p] = TRUE]
  /\ UNCHANGED <<gs, sg, p2>>

Ended ==
  /\ gs.phase = "GAME_OVER" \/ (gs.phase = "DEALING" /\ gs.round_number > sg.until)
  /\ UNCHANGED vars

Tick ==
  \/ TickDeal \/ TickDealer \/ TickDraft \/ TickSelect \/ TickExecute \/ TickTransmute
  \/ TickHuman \/ TickAI \/ TickTrickDone \/ TickEvaluate \/ TickAdvance

Commanded == \E p \in Owners :
  \/ \E i \in 1 .. GroupSize : SelectContract(p, i)
  \/ \E i \in DOMAIN gs.hand[p] :
       SelectCard(p, i) \/ ApplyTransmutation(p, gs.hand[p][i]) \/ PlayCard(p, i)
  \/ \E id \in Range(p2.inv[p]) \cup {NotTransmuted} : SelectTransmutation(p, id)
  \/ \E target \in Players, suit \in Suits : RogueReveal(p, target, suit)
  \/ ConfirmPass(p) \/ ConfirmScores(p)

Seating == \E p \in Owners : TakeOver(p) \/ Return(p)

Next == Tick \/ DealerCommand \/ Commanded \/ Seating \/ Ended

Spec == Init /\ [][Next]_vars

-----------------------------------------------------------------------------
(* Properties *)

\* The transmutations on the cards of a hand or of a trick: one card may have two, of which
\* one is a fog.
Marks(slots) ==
  Cardinality({i \in DOMAIN slots : slots[i].id >= 0})
  + Cardinality({i \in DOMAIN slots : slots[i].fogged /\ EffectOf(slots[i].id) # "FOG"})

\* No pair of the pool is lost or comes up twice, whoever picks late, leaves or is picked
\* for; and every player has picked as often as the others.
PairsStayWhole ==
  LET draft == p2.draft
      held(p) == Range(draft.available[p]) \cup Range(draft.picked[p])
      many(p) == Len(draft.available[p]) + Len(draft.picked[p])
      holding == {x \in Players \X (1 .. DraftRounds) : x[2] \in DOMAIN p2.contracts[x[1]]}
  IN  /\ draft.active =>
           /\ Sum([p \in Players |-> many(p)]) = 4 * GroupSize
           /\ Cardinality(UNION {held(p) : p \in Players}) = 4 * GroupSize
           /\ \A p \in Players : Len(draft.picked[p]) =
                sg.draft_round + (IF draft.has_picked[p] THEN 1 ELSE 0)
      /\ sg.pass_substate = "CARD_SELECT" =>
           Cardinality({p2.contracts[x[1]][x[2]].contract : x \in holding}) = 4 * DraftRounds

\* The slots stay beside their cards through transmutations, the pass and the plays of
\* players, AI and timeouts: at the place of a slot that is taken is the card it made, and
\* every player has as many cards as the tricks ask for.
InTrick(p) == sg.play_substate \in {"WAIT_TURN", "TRICK_DONE"} /\ \E i \in DOMAIN gs.trick : gs.trick[i].player = p
SlotsMatchHands ==
  /\ gs.phase \in {"PASSING", "PLAYING"} =>
       \A p \in Players : \A i \in DOMAIN p2.slots[p] :
         LET slot == p2.slots[p][i]
         IN  slot.id >= 0 =>
               /\ i \in DOMAIN gs.hand[p]
               /\ gs.hand[p][i] = IF EffectOf(slot.id) = "FOG" THEN slot.original ELSE Defs[slot.id].card
  /\ gs.phase = "PLAYING" =>
       \A p \in Players :
         Len(gs.hand[p]) = TricksPerRound - gs.tricks_played - (IF InTrick(p) THEN 1 ELSE 0)

OnTrick == Marks(sg.tti)
InHands == Sum([p \in Players |-> Len(p2.inv[p]) + Marks(p2.slots[p])])

\* A transmutation is used once and not lost: from the draft to the last trick it is in an
\* inventory, on a card of a hand or on the trick, and leaves with the trick.
TransmutationsAreKept ==
  [][gs.phase = "PASSING" \/ (gs.phase = "PLAYING" /\ gs'.phase = "PLAYING") =>
       InHands' + OnTrick' = InHands + (IF gs'.tricks_played = gs.tricks_played THEN OnTrick ELSE 0)]_vars

\* A curse and an anchor bind the next lead, by whomever it is chosen, and only that one.
LeadsAreObeyed ==
  [][gs.trick = <<>> /\ Len(gs'.trick) = 1 =>
       LET p == gs'.trick[1].player
           card == gs'.trick[1].card
       IN  /\ p2.curse[p] => ForcedSuit(gs.hand[p], card, Hearts)
           /\ ~p2.curse[p] /\ p2.anchor[p] # NoSuit =>
                (hand_has_suit(Range(gs.hand[p]), p2.anchor[p]) => card[1] = p2.anchor[p])
           /\ ~p2'.curse[p] /\ p2'.anchor[p] = NoSuit]_vars

\* Through bounties, parasites, traps and inversions, what a trick adds to the players'
\* points is what its cards are worth, unless a shield absorbs it or two parasites take it.
PointsAreAccounted ==
  [][gs'.tricks_played = gs.tricks_played + 1 /\ gs'.moon_shooter = NoPlayer
       /\ (\A p \in Players : p2.shield[p] = 0) /\ Cardinality(Parasites) <= 1 =>
       Sum(gs'.round_points) - Sum(gs.round_points) = transmute_trick_count_points(gs.trick, sg.tti, p2)]_vars

\* Each trick is entered in the contracts of its winner, once and with its number, and the
\* streaks of all contracts are those of the tricks won.
ContractsSeeEveryTrick ==
  gs.phase = "PLAYING" /\ sg.play_substate # "IDLE" =>
    LET won(p) == p2.contracts[p][1].tricks
        run(p, a, b) == a .. b \subseteq won(p)
        last == gs.tricks_played - 1
    IN  /\ UNION {won(p) : p \in Players} = 0 .. last
        /\ Sum([p \in Players |-> Cardinality(won(p))]) = gs.tricks_played
        /\ \A p \in Players : \A c \in DOMAIN p2.contracts[p] :
             /\ p2.contracts[p][c].tricks = won(p)
             /\ p2.contracts[p][c].streak = Max({n \in 0 .. gs.tricks_played : run(p, last - n + 1, last)})
             /\ p2.contracts[p][c].max_streak =
                  Max({n \in 0 .. gs.tricks_played : \E a \in 0 .. last : run(p, a, a + n - 1)} \cup {0})

=============================================================================
