---------------------------- MODULE ViewPacking ----------------------------
(***************************************************************************)
(* The biggest message of net/protocol.c: NetPlayerView, a seat's picture  *)
(* of the game, sent after every change.  v holds the counts and the flag  *)
(* its layout depends on.                                                  *)
(***************************************************************************)
EXTENDS Packing

NET_MAX_PLAYERS == 4
NET_MAX_HAND_SIZE == 13
NET_MAX_PASS_CARDS == 4
NET_MAX_CONTRACTS == 3
NET_MAX_TRANSMUTE_INV == 18
NET_MAX_EFFECTS == 8
NET_DRAFT_GROUP_SIZE == 4
NET_DRAFT_PICKS == 3
NET_PLAYER_VIEW_MAX_SIZE == 1024
CARDS_PER_TRICK == 4
SUIT_COUNT == 4

AtMost(n, max) == IF n <= max THEN n ELSE max

\* The byte counts the readers check before they read a structure.
TrickViewBytes == CARDS_PER_TRICK * 2 + CARDS_PER_TRICK + 3
ContractViewBytes == 2 + 3 + 2 + 2 + SUIT_COUNT * 2 + 2 + 2 + 2
TransmuteSlotBytes == 2 + 2 + 1 + 1 + 1
DraftPairBytes == 2 + 2
DraftPlayerBytes == NET_DRAFT_GROUP_SIZE * DraftPairBytes + 1 + NET_DRAFT_PICKS * DraftPairBytes + 1 + 1
EffectViewBytes == 1 + 2 + 1 + 1 + 1 + 2 + 1
TrickTransmuteBytes == CARDS_PER_TRICK * (2 + 1 + 1 + 1 + 1)
OpponentContractsBytes == 1 + NET_MAX_CONTRACTS * (1 + 1 + 2)

-----------------------------------------------------------------------------
(* The structures of a view.  The writers check nothing: ser_player_view    *)
(* has asked for the whole of NET_PLAYER_VIEW_MAX_SIZE.                     *)

SerTrickView == Cards("cards", CARDS_PER_TRICK) \o Arr("player_ids", CARDS_PER_TRICK, 1)
    \o F("lead_player", 1) \o F("lead_suit", 1) \o F("num_played", 1)
DeserTrickView == Need(TrickViewBytes)
    \o Cards("cards", CARDS_PER_TRICK) \o Arr("player_ids", CARDS_PER_TRICK, 1)
    \o F("lead_player", 1) \o F("lead_suit", 1) \o F("num_played", 1)

SerContractView == F("contract_id", 2)
    \o F("revealed", 1) \o F("completed", 1) \o F("failed", 1)
    \o F("tricks_won", 2) \o F("points_taken", 2) \o Arr("cards_collected", SUIT_COUNT, 2)
    \o F("tricks_won_mask", 2) \o F("max_streak", 2) \o F("paired_transmutation_id", 2)
DeserContractView == Need(ContractViewBytes) \o F("contract_id", 2)
    \o F("revealed", 1) \o F("completed", 1) \o F("failed", 1)
    \o F("tricks_won", 2) \o F("points_taken", 2) \o Arr("cards_collected", SUIT_COUNT, 2)
    \o F("tricks_won_mask", 2) \o F("max_streak", 2) \o F("paired_transmutation_id", 2)

SerTransmuteSlot == F("transmutation_id", 2) \o At(<<"original_card">>, Card)
    \o F("transmuter_player", 1) \o F("fogged", 1) \o F("fog_transmuter", 1)
DeserTransmuteSlot == Need(TransmuteSlotBytes)
    \o F("transmutation_id", 2) \o At(<<"original_card">>, Card)
    \o F("transmuter_player", 1) \o F("fogged", 1) \o F("fog_transmuter", 1)

SerDraftPair == F("contract_id", 2) \o F("transmutation_id", 2)
DeserDraftPair == Need(DraftPairBytes) \o F("contract_id", 2) \o F("transmutation_id", 2)

SerDraftPlayer == Each("available", NET_DRAFT_GROUP_SIZE, SerDraftPair) \o F("available_count", 1)
    \o Each("picked", NET_DRAFT_PICKS, SerDraftPair) \o F("pick_count", 1)
    \o F("has_picked_this_round", 1)
DeserDraftPlayer == Need(DraftPlayerBytes)
    \o Each("available", NET_DRAFT_GROUP_SIZE, DeserDraftPair) \o F("available_count", 1)
    \o Each("picked", NET_DRAFT_PICKS, DeserDraftPair) \o F("pick_count", 1)
    \o F("has_picked_this_round", 1)

SerEffectView == F("effect_type", 1) \o F("param_value", 2) \o F("scope", 1)
    \o F("source_player", 1) \o F("target_player", 1) \o F("rounds_remaining", 2) \o F("active", 1)
DeserEffectView == Need(EffectViewBytes) \o F("effect_type", 1) \o F("param_value", 2) \o F("scope", 1)
    \o F("source_player", 1) \o F("target_player", 1) \o F("rounds_remaining", 2) \o F("active", 1)

SerTrickTransmute == Arr("transmutation_ids", CARDS_PER_TRICK, 2)
    \o Arr("transmuter_player", CARDS_PER_TRICK, 1) \o Arr("resolved_effects", CARDS_PER_TRICK, 1)
    \o Arr("fogged", CARDS_PER_TRICK, 1) \o Arr("fog_transmuter", CARDS_PER_TRICK, 1)
DeserTrickTransmuteSwapped == Need(TrickTransmuteBytes) \o Arr("transmutation_ids", CARDS_PER_TRICK, 2)
    \o Arr("resolved_effects", CARDS_PER_TRICK, 1) \o Arr("transmuter_player", CARDS_PER_TRICK, 1)
    \o Arr("fogged", CARDS_PER_TRICK, 1) \o Arr("fog_transmuter", CARDS_PER_TRICK, 1)
DeserTrickTransmute == Need(TrickTransmuteBytes) \o Arr("transmutation_ids", CARDS_PER_TRICK, 2)
    \o Arr("transmuter_player", CARDS_PER_TRICK, 1) \o Arr("resolved_effects", CARDS_PER_TRICK, 1)
    \o Arr("fogged", CARDS_PER_TRICK, 1) \o Arr("fog_transmuter", CARDS_PER_TRICK, 1)

SerOpponentContracts == F("num_contracts", 1) \o Arr("revealed", NET_MAX_CONTRACTS, 1)
    \o Arr("completed", NET_MAX_CONTRACTS, 1) \o Arr("contract_ids", NET_MAX_CONTRACTS, 2)
DeserOpponentContracts == Need(OpponentContractsBytes)
    \o F("num_contracts", 1) \o Arr("revealed", NET_MAX_CONTRACTS, 1)
    \o Arr("completed", NET_MAX_CONTRACTS, 1) \o Arr("contract_ids", NET_MAX_CONTRACTS, 2)

-----------------------------------------------------------------------------
(* ser_player_view: everybody's part, then the part of the Phase 2 modes.   *)

SerViewBase(v, hc) ==
       F("my_seat", 1) \o F("phase", 1) \o F("flow_step", 1) \o F("pass_subphase", 1)
    \o F("round_number", 2) \o F("pass_direction", 1) \o F("pass_card_count", 1)
    \o F("lead_player", 1) \o F("hearts_broken", 1) \o F("tricks_played", 1)
    \o F("hand_count", 1) \o Cards("hand", hc)
    \o Arr("hand_counts", NET_MAX_PLAYERS, 1)
    \o Arr("round_points", NET_MAX_PLAYERS, 2) \o Arr("total_scores", NET_MAX_PLAYERS, 2)
    \o F("score_limit", 2)
    \o At(<<"current_trick">>, SerTrickView)
    \o Arr("pass_ready", NET_MAX_PLAYERS, 1) \o Cards("my_pass_selections", NET_MAX_PASS_CARDS)
    \o F("dealer_seat", 1) \o F("current_turn_player", 1)
    \o F("turn_timer", 4) \o F("turn_time_limit", 4) \o F("phase2_enabled", 1)

SerViewPhase2(v, hc) ==
       F("my_num_contracts", 1)
    \o Each("my_contracts", AtMost(v.my_num_contracts, NET_MAX_CONTRACTS), SerContractView)
    \o Each("opponent_contracts", NET_MAX_PLAYERS, SerOpponentContracts)
    \o F("transmute_inv_count", 1)
    \o Arr("transmute_inv", AtMost(v.transmute_inv_count, NET_MAX_TRANSMUTE_INV), 2)
    \o Each("hand_transmutes", hc, SerTransmuteSlot)
    \o At(<<"my_draft">>, SerDraftPlayer) \o F("draft_current_round", 1) \o F("draft_active", 1)
    \o At(<<"trick_transmutes">>, SerTrickTransmute)
    \o F("num_persistent_effects", 1)
    \o Each("persistent_effects", AtMost(v.num_persistent_effects, NET_MAX_PLAYERS * NET_MAX_EFFECTS),
            SerEffectView)
    \o Arr("shield_tricks_remaining", NET_MAX_PLAYERS, 1) \o Arr("curse_force_hearts", NET_MAX_PLAYERS, 1)
    \o Arr("anchor_force_suit", NET_MAX_PLAYERS, 1) \o Arr("binding_auto_win", NET_MAX_PLAYERS, 1)
    \o Arr("prev_round_points", NET_MAX_PLAYERS, 2)
    \o F("last_played_transmute_id", 2) \o F("last_played_resolved_effect", 1)
    \o F("last_played_transmuted_card_suit", 1) \o F("last_played_transmuted_card_rank", 1)
    \o F("trick_winner", 1) \o F("rogue_pending_winner", 1) \o F("duel_pending_winner", 1)
    \o F("rogue_chosen_suit", 1) \o F("rogue_chosen_target", 1)
    \o F("rogue_revealed_count", 1) \o Cards("rogue_revealed_cards", v.rogue_revealed_count)
    \o F("duel_chosen_card_idx", 1) \o F("duel_chosen_target", 1)
    \o At(<<"duel_revealed_card">>, Card) \o F("duel_was_swap", 1)
    \o Arr("martyr_flags", NET_MAX_PLAYERS, 1) \o Arr("gatherer_reduction", NET_MAX_PLAYERS, 1)

SerPlayerView(v) ==
    LET hc == AtMost(v.hand_count, NET_MAX_HAND_SIZE)
    IN Need(NET_PLAYER_VIEW_MAX_SIZE) \o SerViewBase(v, hc)
         \o (IF v.phase2_enabled THEN SerViewPhase2(v, hc) ELSE << >>)

-----------------------------------------------------------------------------
(* deser_player_view.                                                       *)

DeserViewBase(v) ==
       Need(80)
    \o F("my_seat", 1) \o F("phase", 1) \o F("flow_step", 1) \o F("pass_subphase", 1)
    \o F("round_number", 2) \o F("pass_direction", 1) \o F("pass_card_count", 1)
    \o F("lead_player", 1) \o F("hearts_broken", 1) \o F("tricks_played", 1)
    \o F("hand_count", 1)
    \o Refuse(v.hand_count > NET_MAX_HAND_SIZE) \o Need(v.hand_count * 2)
    \o Cards("hand", v.hand_count)
    \o Need(NET_MAX_PLAYERS + NET_MAX_PLAYERS * 2 + NET_MAX_PLAYERS * 2 + 2)
    \o Arr("hand_counts", NET_MAX_PLAYERS, 1)
    \o Arr("round_points", NET_MAX_PLAYERS, 2) \o Arr("total_scores", NET_MAX_PLAYERS, 2)
    \o F("score_limit", 2)
    \o At(<<"current_trick">>, DeserTrickView)
    \o Need(NET_MAX_PLAYERS + NET_MAX_PASS_CARDS * 2 + 1 + 1 + 4)
    \o Arr("pass_ready", NET_MAX_PLAYERS, 1) \o Cards("my_pass_selections", NET_MAX_PASS_CARDS)
    \o F("dealer_seat", 1) \o F("current_turn_player", 1)
    \o F("turn_timer", 4) \o F("turn_time_limit", 4)
    \o Need(1) \o F("phase2_enabled", 1)

DeserViewPhase2(v) ==
       Need(1) \o F("my_num_contracts", 1) \o Refuse(v.my_num_contracts > NET_MAX_CONTRACTS)
    \o Each("my_contracts", v.my_num_contracts, DeserContractView)
    \o Each("opponent_contracts", NET_MAX_PLAYERS, DeserOpponentContracts)
    \o Need(1) \o F("transmute_inv_count", 1) \o Refuse(v.transmute_inv_count > NET_MAX_TRANSMUTE_INV)
    \o Need(v.transmute_inv_count * 2) \o Arr("transmute_inv", v.transmute_inv_count, 2)
    \o Each("hand_transmutes", v.hand_count, DeserTransmuteSlot)
    \o At(<<"my_draft">>, DeserDraftPlayer)
    \o Need(2) \o F("draft_current_round", 1) \o F("draft_active", 1)
    \o At(<<"trick_transmutes">>, DeserTrickTransmute)
    \o Need(1) \o F("num_persistent_effects", 1)
    \o Refuse(v.num_persistent_effects > NET_MAX_PLAYERS * NET_MAX_EFFECTS)
    \o Each("persistent_effects", v.num_persistent_effects, DeserEffectView)
    \o Need(30)
    \o Arr("shield_tricks_remaining", NET_MAX_PLAYERS, 1) \o Arr("curse_force_hearts", NET_MAX_PLAYERS, 1)
    \o Arr("anchor_force_suit", NET_MAX_PLAYERS, 1) \o Arr("binding_auto_win", NET_MAX_PLAYERS, 1)
    \o Arr("prev_round_points", NET_MAX_PLAYERS, 2)
    \o F("last_played_transmute_id", 2) \o F("last_played_resolved_effect", 1)
    \o F("last_played_transmuted_card_suit", 1) \o F("last_played_transmuted_card_rank", 1)
    \o F("trick_winner", 1) \o F("rogue_pending_winner", 1) \o F("duel_pending_winner", 1)
    \o F("rogue_chosen_suit", 1) \o F("rogue_chosen_target", 1)
    \o F("rogue_revealed_count", 1) \o Refuse(v.rogue_revealed_count > NET_MAX_HAND_SIZE)
    \o Need(v.rogue_revealed_count * 2) \o Cards("rogue_revealed_cards", v.rogue_revealed_count)
    \o F("duel_chosen_card_idx", 1) \o F("duel_chosen_target", 1)
    \o At(<<"duel_revealed_card">>, Card) \o F("duel_was_swap", 1)
    \o Arr("martyr_flags", NET_MAX_PLAYERS, 1) \o Arr("gatherer_reduction", NET_MAX_PLAYERS, 1)

DeserPlayerView(v) == DeserViewBase(v) \o (IF v.phase2_enabled THEN DeserViewPhase2(v) ELSE << >>)

=============================================================================
