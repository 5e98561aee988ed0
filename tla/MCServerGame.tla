----------------------------- MODULE MCServerGame -----------------------------
(*****************************************************************************)
(* Small instances of ServerGame: the four seats with two cards each. The     *)
(* decks hold the two of clubs, cards of it to follow suit with, hearts, and *)
(* a queen of spades where it matters.                                       *)
(*****************************************************************************)
EXTENDS ServerGame

C(r) == <<0, r>>
D(r) == <<1, r>>
S(r) == <<2, r>>
H(r) == <<3, r>>

DealOf(a, b, c, d) == [p \in Players |-> <<a, b, c, d>>[p + 1]]

\* Two cards each, worth three points, over the rounds of a game.
SmallDeck == {C(0), C(5), C(9), D(1), D(7), H(2), H(8), H(11)}
OneDeal == {DealOf({D(1), C(9)}, {H(2), H(8)}, {C(0), D(7)}, {H(11), C(5)})}

\* Two cards each, with the queen of spades: fifteen points. Player 1 can end the first
\* trick and lead the second.
QueenDeck == {C(0), C(5), C(9), D(1), S(10), S(12), H(2), H(8)}
QueenDeals ==
  {DealOf({D(1), H(8)}, {C(9), S(10)}, {C(0), H(2)}, {C(5), S(12)})}

=============================================================================
