----------------------------- MODULE MCClientNet -----------------------------
(*****************************************************************************)
(* Small instances of ClientNet.  The game: two seats the client may be      *)
(* given, hands of at most three cards.  The client's hands hold a           *)
(* transmuted card equal to a natural one, lose a card and gain one in the   *)
(* pass, then lose one to a trick.                                           *)
(*****************************************************************************)
EXTENDS ClientNet

Slot(id, by) == [EmptySlot EXCEPT !.id = id, !.original = "x", !.by = by]
Contract(id, revealed) == [id |-> id, revealed |-> revealed, completed |-> FALSE]
PerSeat(a, b, c, d) == [s \in PlayerSeats |-> <<a, b, c, d>>[s + 1]]

Dealt ==
  [phase |-> "PASSING", round |-> 1, lead |-> NobodySeat, phase2 |-> TRUE,
   trick |-> [lead |-> NobodySeat, plays |-> <<>>],
   table |-> PerSeat(10, 11, 12, 13), ready |-> PerSeat(FALSE, FALSE, FALSE, FALSE),
   hand  |-> PerSeat(<<"o">>, <<"a", "b", "a">>, <<"d", "d", "e">>, <<"p">>),
   slots |-> PerSeat(<<EmptySlot>>, <<EmptySlot, EmptySlot, Slot(5, 1)>>,
                     <<Slot(6, 3), EmptySlot, EmptySlot>>, <<EmptySlot>>),
   inv   |-> PerSeat(<<1>>, <<7>>, <<7>>, <<>>),
   selections |-> PerSeat(<<"o">>, <<"b">>, <<"e">>, <<"p">>),
   draft |-> PerSeat(<<1, 2>>, <<3>>, <<4>>, <<5>>),
   contracts |-> PerSeat(<<Contract(1, TRUE)>>, <<Contract(2, FALSE)>>,
                         <<Contract(3, FALSE)>>, <<>>),
   effects |-> <<[source |-> 2, target |-> 3], [source |-> 0, target |-> NobodySeat]>>,
   pending |-> NobodySeat,
   duel |-> [winner |-> NobodySeat, target |-> NobodySeat, index |-> -1, card |-> NoCard]]
Passed ==
  [Dealt EXCEPT !.phase = "PLAYING",
     !.hand  = PerSeat(<<"p">>, <<"a", "a", "o">>, <<"d", "d", "b">>, <<"e">>),
     !.slots = PerSeat(<<EmptySlot>>, <<EmptySlot, Slot(5, 1), EmptySlot>>,
                       <<Slot(6, 3), EmptySlot, EmptySlot>>, <<EmptySlot>>),
     !.selections = PerSeat(<<>>, <<>>, <<>>, <<>>), !.draft = PerSeat(NoDraft, NoDraft, NoDraft, NoDraft)]
Played ==
  [Passed EXCEPT !.lead = 1, !.table = PerSeat(10, 20, 12, 13),
     !.trick = [lead |-> 1, plays |-> <<[card |-> "a", player |-> 1], [card |-> "d", player |-> 2]>>],
     !.hand[1] = <<"a", "o">>, !.slots[1] = <<Slot(5, 1), EmptySlot>>,
     !.hand[2] = <<"d", "b">>, !.slots[2] = <<Slot(6, 3), EmptySlot>>,
     !.pending = 3,
     !.duel = [winner |-> 1, target |-> 0, index |-> 0, card |-> "p"]]
Ended == [Played EXCEPT !.phase = "GAME_OVER", !.contracts[2][1].completed = TRUE]
MCMoves == {<<1, 2>>}
MCShortStory == <<Dealt, Played, Ended>>
===============================================================================
