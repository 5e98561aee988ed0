------------------------------ MODULE HeartsTable ------------------------------
(*****************************************************************************)
(* What a table of Hearts promises its four players: the rules, with no      *)
(* server, no commands, no clock and no order in which anything is computed. *)
(* Every step deals, exchanges cards with one neighbour, plays one allowed   *)
(* card in turn, takes a full trick, or ends the round or the game.          *)
(*****************************************************************************)
EXTENDS Integers, FiniteSets, FiniteSetsExt

CONSTANTS Deck, TricksPerRound, ScoreLimit

VARIABLES hands,   \* the cards each player holds
          table,   \* the cards of the trick: a function of those who have played
          leader,  \* who led, or is to lead, the trick
          broken,  \* a heart has been played in this round
          taken,   \* points taken in the round
          total,   \* points of the game
          stage    \* "pass", "play", "score" or "over"

tableVars == <<hands, table, leader, broken, taken, total, stage>>

Seats == 0 .. 3
Nobody == -1
Empty == [p \in {} |-> 0]
Opening == <<0, 0>>
IsHeart(c) == c[1] = 3
Worth(c) == IF IsHeart(c) THEN 1 ELSE IF c = <<2, 10>> THEN 13 ELSE 0

OnTable == {table[p] : p \in DOMAIN table}
Unplayed == UNION {hands[p] : p \in Seats}
InOpening == \E p \in Seats : Cardinality(hands[p]) = TricksPerRound

Dealt(h) ==
  /\ UNION {h[p] : p \in Seats} = Deck
  /\ \A p \in Seats : Cardinality(h[p]) = TricksPerRound
Nothing == [p \in Seats |-> 0]
Holder(h) == CHOOSE p \in Seats : Opening \in h[p]

Init ==
  /\ Dealt(hands) /\ stage = "pass" /\ table = Empty /\ leader = Nobody
  /\ ~broken /\ taken = Nothing /\ total = Nothing

\* Everybody gives the same number of cards to the same neighbour, or nobody any; the
\* player who then holds the two of clubs leads.
Exchange ==
  /\ stage = "pass" /\ stage' = "play"
  /\ \E to \in 0 .. 3 :
       LET given(p) == hands[p] \cap hands'[(p + to) % 4]
       IN  \/ to = 0 /\ hands' = hands
           \/ /\ to # 0
              /\ \A p, q \in Seats : Cardinality(given(p)) = Cardinality(given(q))
              /\ \A p \in Seats : hands'[(p + to) % 4] =
                   (hands[(p + to) % 4] \ given((p + to) % 4)) \cup given(p)
  /\ leader' = Holder(hands')
  /\ UNCHANGED <<table, broken, taken, total>>

\* What p may put on the table.
Allowed(p) ==
  LET suit == table[leader][1]
      inSuit == {c \in hands[p] : c[1] = suit}
      noHeart == {c \in hands[p] : ~IsHeart(c)}
      noPoint == {c \in hands[p] : Worth(c) = 0}
  IN  IF p = leader
      THEN IF InOpening THEN {Opening}
           ELSE IF broken \/ noHeart = {} THEN hands[p] ELSE noHeart
      ELSE IF inSuit # {} THEN inSuit
           ELSE IF InOpening /\ noPoint # {} THEN noPoint ELSE hands[p]

Turn == (leader + Cardinality(DOMAIN table)) % 4

PlayOne ==
  /\ stage = "play" /\ DOMAIN table # Seats
  /\ \E c \in Allowed(Turn) :
       /\ hands' = [hands EXCEPT ![Turn] = @ \ {c}]
       /\ table' = [p \in DOMAIN table \cup {Turn} |-> IF p = Turn THEN c ELSE table[p]]
       /\ broken' = (broken \/ IsHeart(c))
  /\ UNCHANGED <<leader, taken, total, stage>>

Winner == CHOOSE p \in Seats :
  /\ table[p][1] = table[leader][1]
  /\ \A q \in Seats : table[q][1] = table[leader][1] => table[q][2] <= table[p][2]

TakenNow == [taken EXCEPT ![Winner] = @ + MapThenSumSet(Worth, OnTable)]

Take ==
  /\ stage = "play" /\ DOMAIN table = Seats /\ Unplayed # {}
  /\ taken' = TakenNow /\ leader' = Winner /\ table' = Empty
  /\ UNCHANGED <<hands, broken, total, stage>>

\* The last trick. A player with every point shoots the moon: the others get them.
TakeLast ==
  /\ stage = "play" /\ DOMAIN table = Seats /\ Unplayed = {}
  /\ LET all == MapThenSumSet(Worth, Deck)
         moon == {p \in Seats : TakenNow[p] = all}
     IN  taken' = IF moon = {} THEN TakenNow
                  ELSE [p \in Seats |-> IF p \in moon THEN 0 ELSE all]
  /\ total' = [p \in Seats |-> total[p] + taken'[p]]
  /\ leader' = Nobody /\ table' = Empty /\ stage' = "score"
  /\ UNCHANGED <<hands, broken>>

NextRound ==
  /\ stage = "score" /\ \A p \in Seats : total[p] < ScoreLimit
  /\ stage' = "pass" /\ Dealt(hands') /\ broken' = FALSE /\ taken' = Nothing
  /\ UNCHANGED <<table, leader, total>>

Finish ==
  /\ stage = "score" /\ \E p \in Seats : total[p] >= ScoreLimit
  /\ stage' = "over"
  /\ UNCHANGED <<hands, table, leader, broken, taken, total>>

Next == Exchange \/ PlayOne \/ Take \/ TakeLast \/ NextRound \/ Finish

Spec == Init /\ [][Next]_tableVars

=============================================================================
