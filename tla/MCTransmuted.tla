----------------------------- MODULE MCTransmuted -----------------------------
(*****************************************************************************)
(* Small instances of TransmutedGame: four seats with three cards each, the    *)
(* definitions of assets/defs, and deals in which the effects meet.          *)
(*****************************************************************************)
EXTENDS TransmutedGame

C(r) == <<0, r>>
D(r) == <<1, r>>
S(r) == <<2, r>>
H(r) == <<3, r>>

Normal(card, negative, effect) ==
  [card |-> card, special |-> "NORMAL", mask |-> {}, points |-> -1, negative |-> negative, effect |-> effect]

\* assets/defs/transmutations.json, but for the duel and the echo, which no pool offers.
AllDefs ==
  [id \in (0 .. 21) \ {7, 11} |->
     CASE id = 0 -> [card |-> H(12), special |-> "ALWAYS_WIN", mask |-> {1, 3}, points |-> 0,
                     negative |-> FALSE, effect |-> "NONE"]
       [] id = 1 -> [card |-> S(12), special |-> "ALWAYS_WIN", mask |-> {0, 2}, points |-> 0,
                     negative |-> TRUE, effect |-> "NONE"]
       [] id = 21 -> [card |-> D(12), special |-> "NORMAL", mask |-> 0 .. 3, points |-> 0,
                      negative |-> FALSE, effect |-> "JOKER"]
       [] id = 2 -> Normal(S(10), FALSE, "NONE")
       [] id = 3 -> Normal(H(11), FALSE, "MARTYR")
       [] id = 4 -> Normal(D(9), FALSE, "GATHERER")
       [] id = 5 -> Normal(S(9), FALSE, "ROGUE")
       [] id = 6 -> Normal(H(6), FALSE, "PENDULUM")
       [] id = 8 -> Normal(C(0), FALSE, "FOG")
       [] id = 9 -> Normal(D(4), FALSE, "MIRROR")
       [] id = 10 -> Normal(C(1), FALSE, "ROULETTE")
       [] id = 12 -> Normal(S(0), FALSE, "TRAP")
       [] id = 13 -> Normal(D(5), FALSE, "SHIELD")
       [] id = 14 -> Normal(C(2), FALSE, "CURSE")
       [] id = 15 -> Normal(H(12), FALSE, "ANCHOR")
       [] id = 16 -> Normal(H(11), FALSE, "CROWN")
       [] id = 17 -> Normal(H(0), FALSE, "PARASITE")
       [] id = 18 -> Normal(H(9), FALSE, "BOUNTY")
       [] id = 19 -> Normal(H(5), FALSE, "INVERSION")
       [] id = 20 -> Normal(S(1), FALSE, "BINDING")]

Contract(condition, suit, count) ==
  [condition |-> condition, suit |-> suit, count |-> count, card |-> Queen, at_least |-> TRUE,
   tier |-> 0]

\* Of assets/defs/contracts.json, with counts for a round of three tricks.
AllContracts ==
  [id \in {0, 3, 7, 9, 14, 20, 22, 28} |->
     CASE id = 0 -> Contract("AVOID_SUIT", Hearts, 0)
       [] id = 3 -> Contract("WIN_N_TRICKS", 0, 2)
       [] id = 7 -> Contract("WIN_CONSECUTIVE_TRICKS", 0, 2)
       [] id = 9 -> Contract("LOWEST_SCORE", 0, 0)
       [] id = 14 -> Contract("WIN_TRICK_N", 0, 0)
       [] id = 20 -> Contract("HIT_WITH_PASSED_CARD", 0, 0)
       [] id = 22 -> Contract("WIN_FIRST_AND_LAST", 0, 0)
       [] id = 28 -> Contract("HIT_WITH_TRANSMUTE", 0, 0)]

Pair(contract, id) == [contract |-> contract, id |-> id]
Pool == <<<<Pair(0, 16), Pair(3, 8)>>, <<Pair(7, 9), Pair(9, 14)>>,
          <<Pair(14, 19), Pair(20, 21)>>, <<Pair(22, 13), Pair(28, 4)>>>>
ThePools == {[p \in Players |-> Pool[p + 1]]}

\* Three cards each.
Cards == {C(0), C(5), C(9), D(1), D(7), D(8), S(3), S(10), S(12), H(2), H(8), H(10)}
Deal(a, b, c, d) == [p \in Players |-> <<a, b, c, d>>[p + 1]]
Hands == Deal({C(0), D(1), S(3)}, {C(5), S(10), H(2)}, {C(9), D(7), H(8)}, {D(8), S(12), H(10)})

Start(round, prev, inv, competitive) ==
  [hands |-> Hands, round |-> round, total |-> prev, prev |-> prev,
   until |-> round, inv |-> [p \in Players |-> inv[p + 1]], competitive |-> competitive]
Points == [p \in Players |-> IF p = 1 THEN 14 ELSE IF p = 2 THEN 4 ELSE 0]
Others == [p \in Players |-> IF p = 3 THEN 14 ELSE IF p = 2 THEN 4 ELSE 0]
NoPoints == [p \in Players |-> 0]

None == <<<<>>, <<>>, <<>>, <<>>>>
\* The first round, without transmutations and without a dealer, against either AI.
FirstRound == {Start(1, NoPoints, None, FALSE), Start(1, NoPoints, None, TRUE)}
\* A later round after inversions that left nobody with points: no dealer either.
NoDealer == {Start(2, [p \in Players |-> -2], <<<<21>>, <<>>, <<>>, <<>>>>, FALSE)}
\* A curse, a crown, a bounty on the queen and an anchor, against the casual AI.
Leads == {Start(2, Others, <<<<14>>, <<16>>, <<18>>, <<15>>>>, FALSE)}
\* A fog and a card that always wins, a joker, a pendulum and a shield.
Winners == {Start(2, Points, <<<<8, 1>>, <<21>>, <<6>>, <<13>>>>, TRUE)}
\* A parasite, two transmutations to the same card, a trap with an inversion, an anchor.
Twins == {Start(2, Others, <<<<17>>, <<3, 16>>, <<12, 19>>, <<15>>>>, TRUE)}
\* A mirror with a binding, a roulette and a gatherer to show.
Mirrors == {Start(2, Points, <<<<9>>, <<20>>, <<10>>, <<4>>>>, TRUE)}
\* A rogue and a mirror that may show it.
Rogues == {Start(2, Points, <<<<5>>, <<9>>, <<17>>, <<14, 2>>>>, TRUE)}

TheStarts == FirstRound \cup NoDealer \cup Leads \cup Winners \cup Twins \cup Mirrors \cup Rogues

=============================================================================
