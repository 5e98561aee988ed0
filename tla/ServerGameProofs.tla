--------------------------- MODULE ServerGameProofs ---------------------------
(*****************************************************************************)
(* Theorems about ServerGame, for any deck, any length of a round and any    *)
(* clocks. First come lemmas about the operations of GameState: each takes a *)
(* game in which every card is in one place to another such game. With them  *)
(* IInv is inductive: the game is good, and the sub-states of the server     *)
(* agree with it. With it Inf is inductive, what every connected client has  *)
(* been told at each stage of the loop, and SumsUp, where the points of the  *)
(* deck are. At the end, the refinement of HeartsTable.                      *)
(*****************************************************************************)
EXTENDS ServerGame, FiniteSetTheorems, TLAPS

-----------------------------------------------------------------------------
(* The games of GameState *)

HasPlayed(game, p) ==
  game.phase = "PLAYING" /\ \E i \in DOMAIN game.trick : game.trick[i].player = p

\* Hands and trick hold no card twice, and the hands are as long as they should be.
CardsOnce(game) ==
  /\ \A p, q \in Players : p # q => game.hand[p] \cap game.hand[q] = {}
  /\ \A p \in Players, i \in DOMAIN game.trick : game.trick[i].card \notin game.hand[p]
  /\ \A i, j \in DOMAIN game.trick : i # j => game.trick[i].card # game.trick[j].card
  /\ \A p \in Players : Cardinality(game.hand[p]) =
       TricksPerRound - game.tricks_played - (IF HasPlayed(game, p) THEN 1 ELSE 0)

\* What is chosen for the pass is held, and who is ready has chosen enough.
ChosenHeld(game) ==
  \A p \in Players :
    /\ game.pass_selections[p] \subseteq game.hand[p]
    /\ game.pass_ready[p] => Cardinality(game.pass_selections[p]) = game.pass_card_count

\* The plays of a trick are those of the leader and of the players after the leader.
InTurn(game) ==
  \A i \in DOMAIN game.trick : game.trick[i].player = (game.lead_player + i - 1) % 4

FitsPhase(game) ==
  /\ game.phase \in {"DEALING", "PASSING"} =>
       game.trick = <<>> /\ game.tricks_played = 0 /\ ChosenHeld(game)
  /\ game.phase = "DEALING" => \A p \in Players : ~game.pass_ready[p]
  /\ game.phase = "PLAYING" =>
       game.lead_player \in Players /\ game.tricks_played < TricksPerRound /\ InTurn(game)
  /\ game.phase \in {"SCORING", "GAME_OVER"} => game.tricks_played = TricksPerRound

\* What is assumed of a game an operation is applied to, and holds of its result.
GoodGame(game) ==
  game \in GameStates /\ Len(game.trick) <= CardsPerTrick /\ CardsOnce(game) /\ FitsPhase(game)

Opening(game) == \E p \in Players : TwoOfClubs \in game.hand[p]

-----------------------------------------------------------------------------
\* Any set of cards is finite.
LEMMA CardsFinite ==
  ASSUME NEW cards \in SUBSET Deck
  PROVE  IsFiniteSet(cards) /\ Cardinality(cards) \in Nat /\ Cardinality(Deck) \in Nat
<1>1. IsFiniteSet((0 .. 3) \X (0 .. 12))
  <2>1. IsFiniteSet(0 .. 3) /\ IsFiniteSet(0 .. 12)
    <3>1. 0 \in Int /\ 3 \in Int /\ 12 \in Int
      OBVIOUS
    <3> QED
      BY <3>1, FS_Interval, Zenon
  <2> QED
    BY <2>1, FS_Product
<1>2. IsFiniteSet(Deck)
  BY <1>1, DeckAssumption, FS_Subset
<1>3. IsFiniteSet(cards)
  BY <1>2, FS_Subset
<1> QED
  BY <1>2, <1>3, FS_CardinalityType

\* Four parts that make up a deck four times as large as each of them are disjoint.
LEMMA DealtDisjoint ==
  ASSUME NEW hands \in Dealings
  PROVE  /\ hands \in [Players -> SUBSET Deck]
         /\ \A p \in Players : Cardinality(hands[p]) = TricksPerRound
         /\ \A p, q \in Players : p # q => hands[p] \cap hands[q] = {}
         /\ \E p \in Players : TwoOfClubs \in hands[p]
<1>1. /\ hands \in [Players -> SUBSET Deck]
      /\ \A p \in Players : Cardinality(hands[p]) = TricksPerRound
      /\ UNION {hands[p] : p \in Players} = Deck
  BY DEF Dealings
<1>2. \E p \in Players : TwoOfClubs \in hands[p]
  BY <1>1, DeckAssumption
<1>3. ASSUME NEW p \in Players, NEW q \in Players, p # q
      PROVE  hands[p] \cap hands[q] = {}
  <2>1. PICK r \in Players, s \in Players : Players = {p, q, r, s}
    BY <1>3 DEF Players
  <2> DEFINE pq == hands[p] \cup hands[q]
             rs == hands[r] \cup hands[s]
  <2>2. /\ IsFiniteSet(hands[p]) /\ IsFiniteSet(hands[q])
        /\ IsFiniteSet(hands[r]) /\ IsFiniteSet(hands[s])
    BY <1>1, CardsFinite
  <2>3. /\ IsFiniteSet(pq)
        /\ Cardinality(pq) =
             Cardinality(hands[p]) + Cardinality(hands[q]) - Cardinality(hands[p] \cap hands[q])
    BY <2>2, FS_Union
  <2>4. /\ IsFiniteSet(rs)
        /\ Cardinality(rs) =
             Cardinality(hands[r]) + Cardinality(hands[s]) - Cardinality(hands[r] \cap hands[s])
    BY <2>2, FS_Union
  <2>5. pq \cup rs = Deck
    BY <1>1, <2>1
  <2>6. Cardinality(Deck) = Cardinality(pq) + Cardinality(rs) - Cardinality(pq \cap rs)
    BY <2>3, <2>4, <2>5, FS_Union
  <2>7. /\ hands[p] \cap hands[q] \in SUBSET Deck
        /\ hands[r] \cap hands[s] \in SUBSET Deck
        /\ pq \cap rs \in SUBSET Deck
    BY <1>1
  <2>8. /\ Cardinality(hands[p] \cap hands[q]) \in Nat
        /\ Cardinality(hands[r] \cap hands[s]) \in Nat
        /\ Cardinality(pq \cap rs) \in Nat
    BY <2>7, CardsFinite
  <2>9. Cardinality(hands[p] \cap hands[q]) = 0
    <3> HIDE DEF pq, rs
    <3> QED
      BY <1>1, <2>3, <2>4, <2>6, <2>8, DeckAssumption
  <2>10. IsFiniteSet(hands[p] \cap hands[q])
    BY <2>7, CardsFinite
  <2> QED
    BY <2>9, <2>10, FS_EmptySet
<1> QED
  BY <1>1, <1>2, <1>3

\* The first game, and a round that follows another.
LEMMA NewGameGood ==
  ASSUME NEW hands \in Dealings
  PROVE  GoodGame(NewGame(hands)) /\ Opening(NewGame(hands)) /\ NewGame(hands).phase = "DEALING"
<1> DEFINE game == NewGame(hands)
<1>1. game \in GameStates
  <2>1. /\ hands \in [Players -> SUBSET Deck]
        /\ [p \in Players |-> {}] \in [Players -> SUBSET Deck]
        /\ [p \in Players |-> 0] \in [Players -> Nat]
        /\ [p \in Players |-> FALSE] \in [Players -> BOOLEAN]
        /\ <<>> \in Seq(Play) /\ 0 \in 0 .. TricksPerRound
    BY DealtDisjoint, DeckAssumption
  <2> QED
    BY <2>1 DEF NewGame, GameStates, Phases, PassDirections, NoPlayer
<1>2. CardsOnce(game)
  BY DealtDisjoint, DeckAssumption DEF CardsOnce, HasPlayed, NewGame
<1>3. FitsPhase(game)
  BY DEF FitsPhase, ChosenHeld, NewGame
<1>4. Opening(game) /\ game.phase = "DEALING" /\ Len(game.trick) <= CardsPerTrick
  BY DealtDisjoint DEF Opening, NewGame, CardsPerTrick
<1> QED
  BY <1>1, <1>2, <1>3, <1>4 DEF GoodGame

LEMMA NewRoundGood ==
  ASSUME NEW old \in GameStates, NEW hands \in Dealings
  PROVE  LET game == game_state_new_round(old, hands)
         IN  GoodGame(game) /\ Opening(game) /\ game.phase = "DEALING"
<1> DEFINE game == game_state_new_round(old, hands)
<1>1. game \in GameStates
  <2>1. /\ hands \in [Players -> SUBSET Deck]
        /\ [p \in Players |-> {}] \in [Players -> SUBSET Deck]
        /\ [p \in Players |-> 0] \in [Players -> Nat]
        /\ [p \in Players |-> FALSE] \in [Players -> BOOLEAN]
        /\ <<>> \in Seq(Play) /\ 0 \in 0 .. TricksPerRound
    BY DealtDisjoint, DeckAssumption
  <2>2. old.round_number + 1 \in Nat
    BY DEF GameStates
  <2> DEFINE none == [p \in Players |-> {}]
             zero == [p \in Players |-> 0]
             unready == [p \in Players |-> FALSE]
             next == old.round_number + 1
  <2>3. /\ none \in [Players -> SUBSET Deck] /\ zero \in [Players -> Nat]
        /\ unready \in [Players -> BOOLEAN] /\ next \in Nat
    BY <2>1, <2>2
  <2>4. game = [old EXCEPT !.hand = hands, !.round_points = zero,
             !.pass_direction = "LEFT", !.pass_card_count = PassCardCount,
             !.hearts_broken = FALSE, !.tricks_played = 0, !.moon_shooter = NoPlayer,
             !.trick = <<>>, !.lead_player = NoPlayer,
             !.pass_selections = none,
             !.pass_ready = unready,
             !.phase = "DEALING", !.round_number = next]
    BY DEF game_state_new_round
  <2> HIDE DEF none, zero, unready, next, game
  <2> QED
    BY <2>1, <2>3, <2>4 DEF GameStates, Phases, PassDirections, NoPlayer
<1>2. /\ game.hand = hands /\ game.trick = <<>> /\ game.tricks_played = 0
      /\ game.phase = "DEALING" /\ game.pass_selections = [p \in Players |-> {}]
      /\ game.pass_ready = [p \in Players |-> FALSE]
  BY DEF game_state_new_round, GameStates
<1> HIDE DEF game
<1>3. CardsOnce(game)
  BY <1>2, DealtDisjoint, DeckAssumption DEF CardsOnce, HasPlayed
<1>4. FitsPhase(game)
  BY <1>2 DEF FitsPhase, ChosenHeld
<1>5. Opening(game) /\ Len(game.trick) <= CardsPerTrick
  BY <1>2, DealtDisjoint DEF Opening, CardsPerTrick
<1>6. GoodGame(game)
  BY <1>1, <1>3, <1>4, <1>5 DEF GoodGame
<1> QED
  BY <1>2, <1>5, <1>6 DEF game

-----------------------------------------------------------------------------
\* Within a trick no two places are the same player's.
LEMMA PlacesDiffer ==
  ASSUME NEW lead \in 0 .. 3, NEW i \in 0 .. 3, NEW j \in 0 .. 3, (lead + i) % 4 = (lead + j) % 4
  PROVE  i = j
<1>1. (lead + i) % 4 = IF lead + i < 4 THEN lead + i ELSE lead + i - 4
  OBVIOUS
<1>2. (lead + j) % 4 = IF lead + j < 4 THEN lead + j ELSE lead + j - 4
  OBVIOUS
<1> QED
  BY <1>1, <1>2

\* How long a trick that is not complete can be.
LEMMA ShortTrick ==
  ASSUME NEW n \in Nat, n < CardsPerTrick
  PROVE  n \in 0 .. 3 /\ n # CardsPerTrick /\ n + 1 <= CardsPerTrick
BY DEF CardsPerTrick

\* A card that the player in turn holds goes to the trick.
LEMMA PlayGood ==
  ASSUME NEW old, GoodGame(old), old.phase = "PLAYING", Len(old.trick) < CardsPerTrick,
         NEW p \in Players, p = game_state_current_player(old), NEW card \in old.hand[p]
  PROVE  LET game == game_state_play_card(old, p, card)
         IN  /\ GoodGame(game) /\ Len(game.trick) = Len(old.trick) + 1
             /\ game.phase = "PLAYING" /\ game.lead_player = old.lead_player
<1> DEFINE game == game_state_play_card(old, p, card)
           play == [player |-> p, card |-> card]
           hand == old.hand[p] \ {card}
<1>1. /\ old \in GameStates /\ old.trick \in Seq(Play) /\ card \in Deck /\ Len(old.trick) \in Nat
      /\ old.hand \in [Players -> SUBSET Deck] /\ old.hearts_broken \in BOOLEAN
      /\ old.tricks_played \in 0 .. TricksPerRound /\ TricksPerRound \in Nat
  BY DeckAssumption DEF GoodGame, GameStates
<1>2. play \in Play /\ hand \in SUBSET Deck
  BY <1>1 DEF Play
<1>3. Append(old.trick, play) \in Seq(Play) /\ Len(Append(old.trick, play)) = Len(old.trick) + 1
  BY <1>1, <1>2
<1>4. game = [old EXCEPT !.hand = [old.hand EXCEPT ![p] = hand], !.trick = Append(old.trick, play),
                         !.hearts_broken = old.hearts_broken \/ card[1] = Hearts]
  BY <1>1 DEF game_state_play_card, GameStates
<1>5. (old.hearts_broken \/ card[1] = Hearts) \in BOOLEAN
  OBVIOUS
<1> DEFINE broken == old.hearts_broken \/ card[1] = Hearts
           trick == Append(old.trick, play)
           hands == [old.hand EXCEPT ![p] = hand]
<1>6. hands \in [Players -> SUBSET Deck] /\ broken \in BOOLEAN /\ trick \in Seq(Play)
  BY <1>1, <1>2, <1>3, <1>5
<1>7. /\ game \in GameStates
      /\ game.hand = hands /\ game.trick = trick /\ game.phase = "PLAYING"
      /\ game.lead_player = old.lead_player /\ game.tricks_played = old.tricks_played
  <2>1. game = [old EXCEPT !.hand = hands, !.trick = trick, !.hearts_broken = broken]
    BY <1>4
  <2> HIDE DEF game, broken, trick, hands
  <2> QED
    BY <1>1, <1>6, <2>1 DEF GameStates
<1>8. /\ DOMAIN trick = 1 .. Len(old.trick) + 1 /\ DOMAIN old.trick = 1 .. Len(old.trick)
      /\ \A i \in 1 .. Len(old.trick) : trick[i] = old.trick[i]
      /\ trick[Len(old.trick) + 1] = play
  BY <1>1, <1>2
<1>9. /\ hands[p] = hand /\ card \notin hand
      /\ \A q \in Players \ {p} : hands[q] = old.hand[q]
      /\ \A q \in Players : hands[q] \subseteq old.hand[q]
  BY <1>1
<1>10. /\ old.lead_player \in Players /\ InTurn(old) /\ old.tricks_played < TricksPerRound
       /\ p = (old.lead_player + Len(old.trick)) % 4
  <2>0. Len(old.trick) \in Nat
    BY <1>1
  <2>1. Len(old.trick) # CardsPerTrick
    BY <2>0, ShortTrick, Zenon
  <2>2. ~trick_is_complete(old.trick)
    BY <2>1 DEF trick_is_complete
  <2> QED
    BY <2>2 DEF GoodGame, FitsPhase, game_state_current_player
<1>11. ~HasPlayed(old, p)
  <2>1. SUFFICES ASSUME NEW i \in DOMAIN old.trick, old.trick[i].player = p PROVE FALSE
    BY DEF HasPlayed
  <2>2. (old.lead_player + i - 1) % 4 = (old.lead_player + Len(old.trick)) % 4
    BY <1>10, <2>1 DEF InTurn
  <2>3. i \in 1 .. Len(old.trick) /\ old.lead_player \in 0 .. 3
    BY <1>8, <1>10 DEF Players
  <2> DEFINE n == Len(old.trick)
  <2>a. n \in 0 .. 3
    BY <1>1, ShortTrick, Zenon
  <2>b. i \in 1 .. n
    BY <2>3
  <2> HIDE DEF n
  <2>c. i - 1 \in 0 .. 3 /\ i - 1 # n
    BY <2>a, <2>b
  <2>4. Len(old.trick) \in 0 .. 3 /\ i - 1 \in 0 .. 3 /\ i - 1 # Len(old.trick)
    BY <2>a, <2>c DEF n
  <2>5. old.lead_player + i - 1 = old.lead_player + (i - 1)
    BY <2>3
  <2> QED
    BY <2>2, <2>3, <2>4, <2>5, PlacesDiffer
<1> HIDE DEF game, trick, hands, hand
<1>12. CardsOnce(old)
  BY DEF GoodGame
<1>13. ASSUME NEW q \in Players
       PROVE  Cardinality(hands[q]) =
                TricksPerRound - old.tricks_played - (IF HasPlayed(game, q) THEN 1 ELSE 0)
  <2>1. HasPlayed(game, q) <=> HasPlayed(old, q) \/ q = p
    <3>1. (\E i \in DOMAIN trick : trick[i].player = q)
            <=> (\E i \in DOMAIN old.trick : old.trick[i].player = q) \/ q = p
      BY <1>1, <1>8
    <3> QED
      BY <1>7, <3>1 DEF HasPlayed
  <2>2. CASE q # p
    BY <1>9, <1>12, <2>1, <2>2 DEF CardsOnce
  <2>3. CASE q = p
    <3>1. IsFiniteSet(old.hand[p])
      BY <1>1, CardsFinite
    <3>2. Cardinality(hand) = Cardinality(old.hand[p]) - 1
      BY <3>1, FS_RemoveElement DEF hand
    <3>3. Cardinality(old.hand[p]) = TricksPerRound - old.tricks_played
      BY <1>1, <1>11, <1>12 DEF CardsOnce
    <3> QED
      BY <1>1, <1>9, <2>1, <2>3, <3>2, <3>3
  <2> QED
    BY <2>2, <2>3
<1>14. \A q \in Players, i \in DOMAIN trick : trick[i].card \notin hands[q]
  <2>1. \A q \in Players, i \in DOMAIN old.trick : trick[i].card \notin hands[q]
    BY <1>8, <1>9, <1>12 DEF CardsOnce
  <2>2. \A q \in Players : card \notin hands[q]
    BY <1>9, <1>12 DEF CardsOnce
  <2>3. \A i \in DOMAIN trick : i \in DOMAIN old.trick \/ trick[i].card = card
    <3> DEFINE n == Len(old.trick)
    <3>1. /\ DOMAIN trick = 1 .. n + 1 /\ DOMAIN old.trick = 1 .. n /\ trick[n + 1].card = card
          /\ n \in Nat
      BY <1>1, <1>8
    <3> HIDE DEF trick, n
    <3> QED
      BY <3>1
  <2> QED
    BY <2>1, <2>2, <2>3
<1>15. \A i, j \in DOMAIN trick : i # j => trick[i].card # trick[j].card
  <2> DEFINE n == Len(old.trick)
  <2>1. \A i \in DOMAIN old.trick : old.trick[i].card # card
    BY <1>12 DEF CardsOnce
  <2>2. /\ DOMAIN trick = 1 .. n + 1 /\ DOMAIN old.trick = 1 .. n /\ trick[n + 1].card = card
        /\ n \in Nat /\ \A i \in 1 .. n : trick[i] = old.trick[i]
    BY <1>1, <1>8
  <2>3. \A i, j \in DOMAIN old.trick : i # j => old.trick[i].card # old.trick[j].card
    BY <1>12 DEF CardsOnce
  <2> HIDE DEF trick, n
  <2> QED
    BY <2>1, <2>2, <2>3
<1>16. CardsOnce(game)
  <2>1. \A q, r \in Players : q # r => hands[q] \cap hands[r] = {}
    BY <1>9, <1>12 DEF CardsOnce
  <2> QED
    BY <1>7, <1>13, <1>14, <1>15, <2>1 DEF CardsOnce
<1>17. InTurn(game)
  <2>1. ASSUME NEW i \in DOMAIN trick PROVE trick[i].player = (old.lead_player + i - 1) % 4
    <3>1. CASE i \in DOMAIN old.trick
      BY <1>8, <1>10, <3>1 DEF InTurn
    <3>2. CASE i = Len(old.trick) + 1
      <4>1. trick[i].player = p
        BY <1>8, <3>2
      <4>2. old.lead_player + i - 1 = old.lead_player + Len(old.trick)
        BY <1>1, <1>10, <3>2 DEF Players
      <4> QED
        BY <1>10, <4>1, <4>2
    <3> QED
      BY <1>1, <1>8, <3>1, <3>2
  <2> QED
    BY <1>7, <2>1 DEF InTurn
<1>18. FitsPhase(game)
  BY <1>7, <1>10, <1>17 DEF FitsPhase
<1>19. Len(game.trick) = Len(old.trick) + 1 /\ Len(game.trick) <= CardsPerTrick
  BY <1>1, <1>3, <1>7 DEF CardsPerTrick, trick
<1> QED
  BY <1>7, <1>16, <1>18, <1>19 DEF GoodGame, game

-----------------------------------------------------------------------------
\* Among the places of a trick one has the highest rank: of two, then of four.
LEMMA HigherPlace ==
  ASSUME NEW rank \in [1 .. 4 -> Int], NEW places, NEW a \in 1 .. 4, NEW b \in 1 .. 4,
         a \in places \/ b \in places
  PROVE  \E i \in places \cap {a, b} : \A j \in places \cap {a, b} : rank[j] <= rank[i]
<1>1. rank[a] \in Int /\ rank[b] \in Int
  OBVIOUS
<1>2. CASE a \in places /\ (b \in places => rank[b] <= rank[a])
  <2>1. a \in places \cap {a, b} /\ \A j \in places \cap {a, b} : rank[j] <= rank[a]
    BY <1>1, <1>2
  <2> QED
    BY <2>1
<1>3. CASE b \in places /\ (a \in places => rank[a] <= rank[b])
  <2>1. b \in places \cap {a, b} /\ \A j \in places \cap {a, b} : rank[j] <= rank[b]
    BY <1>1, <1>3
  <2> QED
    BY <2>1
<1> QED
  BY <1>1, <1>2, <1>3

LEMMA HighestPlace ==
  ASSUME NEW rank \in [1 .. 4 -> Int], NEW places \in SUBSET (1 .. 4), places # {}
  PROVE  \E i \in places : \A j \in places : rank[j] <= rank[i]
<1> DEFINE low == places \cap {1, 2}
           high == places \cap {3, 4}
<1>1. \A i \in places : i \in low \/ i \in high
  OBVIOUS
<1>2. low # {} => \E i \in low : \A j \in low : rank[j] <= rank[i]
  <2>1. 1 \in 1 .. 4 /\ 2 \in 1 .. 4 /\ (low # {} => 1 \in places \/ 2 \in places)
    OBVIOUS
  <2> QED
    BY <2>1, HigherPlace
<1>3. high # {} => \E i \in high : \A j \in high : rank[j] <= rank[i]
  <2>1. 3 \in 1 .. 4 /\ 4 \in 1 .. 4 /\ (high # {} => 3 \in places \/ 4 \in places)
    OBVIOUS
  <2> QED
    BY <2>1, HigherPlace
<1>4. low \subseteq places /\ high \subseteq places /\ \A i \in places : rank[i] \in Int
  OBVIOUS
<1> HIDE DEF low, high
<1>5. CASE low = {}
  BY <1>1, <1>3, <1>4, <1>5
<1>6. CASE high = {}
  BY <1>1, <1>2, <1>4, <1>6
<1>7. CASE low # {} /\ high # {}
  <2>1. PICK l \in low : \A j \in low : rank[j] <= rank[l]
    BY <1>2, <1>7
  <2>2. PICK h \in high : \A j \in high : rank[j] <= rank[h]
    BY <1>3, <1>7
  <2>3. rank[l] <= rank[h] => \A j \in places : rank[j] <= rank[h]
    BY <1>1, <1>4, <2>1, <2>2
  <2>4. rank[h] <= rank[l] => \A j \in places : rank[j] <= rank[l]
    BY <1>1, <1>4, <2>1, <2>2
  <2> QED
    BY <1>4, <2>3, <2>4
<1> QED
  BY <1>5, <1>6, <1>7

\* A full trick is somebody's, and its points are a number.
LEMMA WinnerIsPlayer ==
  ASSUME NEW trick \in Seq(Play), Len(trick) = CardsPerTrick
  PROVE  trick_get_winner(trick) \in Players /\ trick_count_points(trick) \in Nat
<1>1. DOMAIN trick = 1 .. 4 /\ \A i \in 1 .. 4 : trick[i] \in Play
  <2>1. DOMAIN trick = 1 .. Len(trick) /\ \A i \in DOMAIN trick : trick[i] \in Play
    OBVIOUS
  <2> QED
    BY <2>1 DEF CardsPerTrick
<1>2. \A i \in 1 .. 4 : trick[i].player \in Players /\ trick[i].card \in Deck /\ trick[i].card[2] \in 0 .. 12
  BY <1>1, DeckAssumption DEF Play
<1> DEFINE inSuit == {i \in DOMAIN trick : trick[i].card[1] = LeadSuit(trick)}
           rank == [i \in 1 .. 4 |-> trick[i].card[2]]
<1>3. 1 \in inSuit /\ inSuit \in SUBSET (1 .. 4)
  BY <1>1 DEF LeadSuit
<1>4. rank \in [1 .. 4 -> Int]
  BY <1>2
<1>5. \E i \in inSuit : \A j \in inSuit : rank[j] <= rank[i]
  <2> HIDE DEF rank, inSuit
  <2> QED
    BY <1>3, <1>4, HighestPlace
<1>6. \E i \in inSuit : \A j \in inSuit : trick[j].card[2] <= trick[i].card[2]
  BY <1>3, <1>5
<1>7. trick_get_winner(trick) \in Players
  BY <1>2, <1>3, <1>6 DEF trick_get_winner
<1>8. \A c : card_points(c) \in Nat
  BY DEF card_points
<1>9. \A i : PointsAt(trick, i) \in Nat
  BY <1>8 DEF PointsAt
<1> QED
  BY <1>7, <1>9 DEF trick_count_points

\* Every player has a place in a full trick.
LEMMA PlaceOf ==
  ASSUME NEW lead \in 0 .. 3, NEW p \in 0 .. 3
  PROVE  \E i \in 1 .. 4 : (lead + i - 1) % 4 = p
<1>1. CASE p >= lead
  <2>1. p - lead + 1 \in 1 .. 4 /\ (lead + (p - lead + 1) - 1) % 4 = p
    BY <1>1
  <2> QED
    BY <2>1
<1>2. CASE p < lead
  <2>1. p - lead + 5 \in 1 .. 4 /\ (lead + (p - lead + 5) - 1) % 4 = p
    BY <1>2
  <2> QED
    BY <2>1
<1> QED
  BY <1>1, <1>2

\* A full trick goes to its winner, and the last one ends the round.
LEMMA CompleteGood ==
  ASSUME NEW old, GoodGame(old), old.phase = "PLAYING", Len(old.trick) = CardsPerTrick
  PROVE  LET game == game_state_complete_trick(old)
         IN  /\ GoodGame(game)
             /\ \/ game.phase = "PLAYING" /\ game.trick = <<>>
                \/ game.phase = "SCORING"
<1> DEFINE winner == trick_get_winner(old.trick)
           points == trick_count_points(old.trick)
           taken == [old.round_points EXCEPT ![winner] = @ + points]
           shooter == MoonShooter(taken, winner)
           final == IF shooter = NoPlayer THEN taken
                    ELSE [p \in Players |-> IF p = shooter THEN 0 ELSE taken[shooter]]
           total == [p \in Players |-> old.total_score[p] + final[p]]
           played == old.tricks_played + 1
           game == game_state_complete_trick(old)
<1>1. /\ old \in GameStates /\ old.trick \in Seq(Play) /\ old.tricks_played \in 0 .. TricksPerRound
      /\ old.round_points \in [Players -> Nat] /\ old.total_score \in [Players -> Nat]
      /\ old.hand \in [Players -> SUBSET Deck] /\ TricksPerRound \in Nat \ {0}
      /\ old.lead_player \in Players /\ old.tricks_played < TricksPerRound /\ InTurn(old)
      /\ CardsOnce(old) /\ Len(old.trick) <= CardsPerTrick
  BY DeckAssumption DEF GoodGame, GameStates, FitsPhase
<1>2. winner \in Players /\ points \in Nat
  BY <1>1, WinnerIsPlayer
<1> HIDE DEF winner, points
<1>3. taken \in [Players -> Nat]
  BY <1>1, <1>2
<1>4. shooter \in Players \cup {NoPlayer}
  <2>1. \A S : IsFiniteSet(S) /\ Cardinality(S) = 1 => S # {}
    BY FS_EmptySet
  <2> DEFINE scorers == {p \in Players : taken[p] > 0}
  <2>2. IsFiniteSet(Players) /\ scorers \in SUBSET Players
    <3>1. 0 \in Int /\ 3 \in Int
      OBVIOUS
    <3>2. IsFiniteSet(0 .. 3)
      BY <3>1, FS_Interval, Zenon
    <3> QED
      BY <3>2 DEF Players
  <2>3. IsFiniteSet(scorers)
    BY <2>2, FS_Subset
  <2>4. Cardinality(scorers) = 1 => (CHOOSE p \in scorers : TRUE) \in Players
    BY <2>1, <2>2, <2>3
  <2>5. shooter = IF Cardinality(scorers) = 1 THEN CHOOSE p \in scorers : TRUE ELSE NoPlayer
    BY DEF MoonShooter
  <2> HIDE DEF scorers, shooter
  <2> QED
    BY <2>4, <2>5
<1> HIDE DEF shooter, taken
<1>5. final \in [Players -> Nat]
  BY <1>3, <1>4
<1> HIDE DEF final
<1>6. total \in [Players -> Nat]
  BY <1>1, <1>5
<1> HIDE DEF total
<1>7. played \in 1 .. TricksPerRound
  BY <1>1
<1>8. game = IF played >= TricksPerRound
             THEN [old EXCEPT !.tricks_played = played, !.round_points = final,
                              !.total_score = total, !.moon_shooter = shooter, !.phase = "SCORING"]
             ELSE [old EXCEPT !.tricks_played = played, !.round_points = taken,
                              !.lead_player = winner, !.trick = <<>>]
  BY <1>1 DEF game_state_complete_trick, game_state_complete_trick_with, GameStates,
              winner, points, taken, shooter, final, total
<1> HIDE DEF game
<1>9. ASSUME NEW p \in Players PROVE HasPlayed(old, p)
  <2>1. PICK i \in 1 .. 4 : (old.lead_player + i - 1) % 4 = p
    BY <1>1, PlaceOf DEF Players
  <2>2. DOMAIN old.trick = 1 .. 4
    <3>1. DOMAIN old.trick = 1 .. Len(old.trick)
      BY <1>1
    <3> QED
      BY <3>1 DEF CardsPerTrick
  <2> QED
    BY <1>1, <2>1, <2>2 DEF InTurn, HasPlayed
<1>10. \A p \in Players : Cardinality(old.hand[p]) = TricksPerRound - played
  <2>1. \A p \in Players : Cardinality(old.hand[p]) = TricksPerRound - old.tricks_played - 1
    BY <1>1, <1>9 DEF CardsOnce
  <2> QED
    BY <1>1, <2>1
<1>11. CASE played >= TricksPerRound
  <2>1. game \in GameStates /\ game.tricks_played = TricksPerRound /\ game.phase = "SCORING"
        /\ game.trick = old.trick /\ game.hand = old.hand
    <3> HIDE DEF played
    <3> QED
      <4>1. game = [old EXCEPT !.tricks_played = played, !.round_points = final,
                               !.total_score = total, !.moon_shooter = shooter, !.phase = "SCORING"]
        BY <1>8, <1>11
      <4>2. played = TricksPerRound
        BY <1>1, <1>7, <1>11
      <4>3. old \in GameStates /\ TricksPerRound \in 0 .. TricksPerRound
        BY <1>1
      <4>4. old.phase \in Phases /\ "SCORING" \in Phases
        BY DEF Phases
      <4>5. game \in GameStates
        BY <1>4, <1>5, <1>6, <4>1, <4>2, <4>3, <4>4 DEF GameStates
      <4>6. /\ game.tricks_played = TricksPerRound /\ game.phase = "SCORING"
            /\ game.trick = old.trick /\ game.hand = old.hand
        BY <4>1, <4>2, <4>3 DEF GameStates
      <4> QED
        BY <4>5, <4>6
  <2>2. \A p \in Players : Cardinality(game.hand[p]) = TricksPerRound - game.tricks_played - 0
    BY <1>1, <1>7, <1>10, <1>11, <2>1
  <2>3. \A p \in Players : ~HasPlayed(game, p)
    BY <2>1 DEF HasPlayed
  <2>4. CardsOnce(game)
    BY <1>1, <2>1, <2>2, <2>3 DEF CardsOnce
  <2>5. FitsPhase(game)
    BY <2>1 DEF FitsPhase
  <2> QED
    BY <1>1, <2>1, <2>4, <2>5 DEF GoodGame, game
<1>12. CASE ~(played >= TricksPerRound)
  <2>1. game \in GameStates /\ game.tricks_played = played /\ game.phase = "PLAYING"
        /\ game.trick = <<>> /\ game.hand = old.hand /\ game.lead_player = winner
    <3> HIDE DEF played
    <3>1. <<>> \in Seq(Play)
      OBVIOUS
    <3> QED
      <4>1. game = [old EXCEPT !.tricks_played = played, !.round_points = taken,
                               !.lead_player = winner, !.trick = <<>>]
        BY <1>8, <1>12
      <4>2. played \in 0 .. TricksPerRound
        BY <1>7
      <4> QED
        BY <1>1, <1>2, <1>3, <3>1, <4>1, <4>2 DEF GameStates
  <2>2. played < TricksPerRound
    BY <1>1, <1>7, <1>12
  <2>3. \A p \in Players : ~HasPlayed(game, p)
    BY <2>1 DEF HasPlayed
  <2>4. \A p \in Players : Cardinality(game.hand[p]) = TricksPerRound - game.tricks_played - 0
    BY <1>1, <1>7, <1>10, <2>1
  <2>5. CardsOnce(game)
    BY <1>1, <2>1, <2>3, <2>4 DEF CardsOnce
  <2>6. FitsPhase(game)
    BY <1>2, <2>1, <2>2 DEF FitsPhase, InTurn
  <2>7. Len(game.trick) <= CardsPerTrick
    BY <2>1 DEF CardsPerTrick
  <2> QED
    BY <2>1, <2>5, <2>6, <2>7 DEF GoodGame, game
<1> QED
  BY <1>11, <1>12

-----------------------------------------------------------------------------
\* Whoever chooses: the choices are of held cards, and those who are ready chose enough.
LEMMA ChooseGood ==
  ASSUME NEW old, GoodGame(old), old.phase \in {"DEALING", "PASSING"},
         NEW game \in GameStates, game.phase = "PASSING", ChosenHeld(game),
         game.hand = old.hand, game.trick = old.trick, game.tricks_played = old.tricks_played
  PROVE  GoodGame(game)
<1>1. /\ CardsOnce(old) /\ old.trick = <<>> /\ old.tricks_played = 0
      /\ Len(old.trick) <= CardsPerTrick
  BY DEF GoodGame, FitsPhase
<1>2. CardsOnce(game)
  BY <1>1 DEF CardsOnce, HasPlayed
<1>3. FitsPhase(game)
  BY <1>1 DEF FitsPhase
<1> QED
  BY <1>1, <1>2, <1>3 DEF GoodGame

\* The exchange: every player gives as many cards as the player gets.
LEMMA ExecuteGood ==
  ASSUME NEW old, GoodGame(old), old.phase = "PASSING", game_state_all_passes_ready(old),
         Opening(old)
  PROVE  LET game == game_state_execute_pass(old)
         IN  GoodGame(game) /\ game.phase = "PASSING" /\ game.lead_player \in Players
<1> DEFINE from(p) == (p + 4 - PassOffset(old.pass_direction)) % 4
           kept(p) == old.hand[p] \ old.pass_selections[p]
           hands == [p \in Players |-> kept(p) \cup old.pass_selections[from(p)]]
           game == game_state_execute_pass(old)
<1>1. /\ old \in GameStates /\ CardsOnce(old) /\ old.trick = <<>> /\ old.tricks_played = 0
      /\ ChosenHeld(old) /\ old.hand \in [Players -> SUBSET Deck]
      /\ old.pass_selections \in [Players -> SUBSET Deck] /\ old.pass_direction \in PassDirections
      /\ old.pass_card_count \in Nat /\ TricksPerRound \in Nat
  BY OptionAssumption, DeckAssumption DEF GoodGame, FitsPhase, GameStates
<1>2. PassOffset(old.pass_direction) \in 0 .. 3
  BY <1>1 DEF PassOffset, PassDirections
<1>3. \A p \in Players : from(p) \in Players
  BY <1>2 DEF Players
<1>4. \A p, q \in Players : p # q => from(p) # from(q)
  <2> DEFINE o == PassOffset(old.pass_direction)
  <2>1. \A p \in Players : from(p) = IF p >= o THEN p - o ELSE p - o + 4
    BY <1>2 DEF Players
  <2>2. \A p \in Players : p \in 0 .. 3
    BY DEF Players
  <2> HIDE DEF o, from
  <2> QED
    BY <1>2, <2>1, <2>2 DEF o
<1>5. \A q \in Players : \E p \in Players : from(p) = q
  <2>1. SUFFICES ASSUME NEW q \in Players PROVE \E p \in Players : from(p) = q
    OBVIOUS
  <2> DEFINE o == PassOffset(old.pass_direction)
             p == IF q + o < 4 THEN q + o ELSE q + o - 4
  <2>2. p \in Players
    BY <1>2 DEF Players
  <2>3. from(p) = q
    BY <1>2 DEF Players
  <2> QED
    BY <2>2, <2>3
<1> HIDE DEF from
<1>6. \A p \in Players : old.pass_selections[p] \subseteq old.hand[p]
  BY <1>1 DEF ChosenHeld
<1>7. \A p, q \in Players : p # q => old.hand[p] \cap old.hand[q] = {}
  BY <1>1 DEF CardsOnce
<1>8. \A p, q \in Players : kept(p) \cap old.pass_selections[q] = {}
  BY <1>6, <1>7
<1>9. \A p, q \in Players : p # q => old.pass_selections[from(p)] \cap old.pass_selections[from(q)] = {}
  BY <1>3, <1>4, <1>6, <1>7
<1>10. hands \in [Players -> SUBSET Deck]
  BY <1>1, <1>3
<1>11. \A p, q \in Players : p # q => hands[p] \cap hands[q] = {}
  BY <1>3, <1>7, <1>8, <1>9
<1>12. ASSUME NEW p \in Players PROVE Cardinality(hands[p]) = TricksPerRound
  <2> DEFINE got == old.pass_selections[from(p)]
             gave == old.pass_selections[p]
  <2>1. /\ Cardinality(got) = old.pass_card_count /\ Cardinality(gave) = old.pass_card_count
    BY <1>1, <1>3 DEF game_state_all_passes_ready, ChosenHeld
  <2>2. IsFiniteSet(old.hand[p]) /\ IsFiniteSet(got) /\ IsFiniteSet(gave) /\ IsFiniteSet(kept(p))
    BY <1>1, <1>3, CardsFinite
  <2>3. Cardinality(old.hand[p]) = TricksPerRound
    <3>1. ~HasPlayed(old, p)
      BY DEF HasPlayed
    <3> QED
      BY <1>1, <3>1 DEF CardsOnce
  <2>4. old.hand[p] \cap gave = gave
    BY <1>6
  <2>5. Cardinality(kept(p)) = TricksPerRound - old.pass_card_count
    <3>1. Cardinality(old.hand[p] \ gave) = Cardinality(old.hand[p]) - Cardinality(old.hand[p] \cap gave)
      BY <2>2, FS_Difference
    <3>2. kept(p) = old.hand[p] \ gave
      OBVIOUS
    <3> HIDE DEF kept, gave
    <3> QED
      BY <2>1, <2>3, <2>4, <3>1, <3>2
  <2>6. kept(p) \cap got = {} /\ Cardinality({}) = 0
    BY <1>3, <1>8, FS_EmptySet
  <2>7. Cardinality(kept(p) \cup got) = Cardinality(kept(p)) + Cardinality(got) - 0
    BY <2>2, <2>6, FS_Union
  <2>8. hands[p] = kept(p) \cup got
    OBVIOUS
  <2> HIDE DEF kept, got, hands
  <2> QED
    BY <1>1, <2>1, <2>5, <2>7, <2>8
<1>13. \E p \in Players : TwoOfClubs \in hands[p]
  <2>1. PICK q \in Players : TwoOfClubs \in old.hand[q]
    BY DEF Opening
  <2>2. CASE TwoOfClubs \in old.pass_selections[q]
    <3>1. PICK p \in Players : from(p) = q
      BY <1>5
    <3> QED
      BY <2>2, <3>1
  <2>3. CASE TwoOfClubs \notin old.pass_selections[q]
    BY <2>1, <2>3
  <2> QED
    BY <2>2, <2>3
<1> DEFINE lead == game_state_find_two_of_clubs(hands)
           none == [p \in Players |-> {}]
           unready == [p \in Players |-> FALSE]
<1>14. lead \in Players
  BY <1>13 DEF game_state_find_two_of_clubs
<1>15. game = [old EXCEPT !.hand = hands, !.pass_selections = none, !.pass_ready = unready,
                          !.lead_player = lead, !.trick = <<>>]
  BY DEF game_state_execute_pass, from
<1>16. none \in [Players -> SUBSET Deck] /\ unready \in [Players -> BOOLEAN] /\ <<>> \in Seq(Play)
  OBVIOUS
<1>17. \A p \in Players : none[p] = {} /\ ~unready[p]
  OBVIOUS
<1> HIDE DEF game, hands, lead, none, unready
<1>18. game \in GameStates
  BY <1>1, <1>10, <1>14, <1>15, <1>16 DEF GameStates
<1>19. /\ game.hand = hands /\ game.trick = <<>> /\ game.phase = "PASSING" /\ game.tricks_played = 0
       /\ game.pass_selections = none /\ game.pass_ready = unready /\ game.lead_player = lead
  BY <1>1, <1>15 DEF GameStates
<1>20. CardsOnce(game)
  BY <1>1, <1>11, <1>12, <1>19 DEF CardsOnce, HasPlayed
<1>21. FitsPhase(game)
  BY <1>17, <1>19 DEF FitsPhase, ChosenHeld
<1>22. Len(game.trick) <= CardsPerTrick
  BY <1>19 DEF CardsPerTrick
<1> QED
  BY <1>14, <1>18, <1>19, <1>20, <1>21, <1>22 DEF GoodGame, game

-----------------------------------------------------------------------------
\* The play begins, with or without an exchange before it.
LEMMA BeginGood ==
  ASSUME NEW old, GoodGame(old), old.phase \in {"DEALING", "PASSING"},
         NEW game \in GameStates, game.phase = "PLAYING", game.lead_player \in Players,
         game.trick = <<>>, game.hand = old.hand, game.tricks_played = old.tricks_played
  PROVE  GoodGame(game)
<1>1. /\ old.trick = <<>> /\ old.tricks_played = 0 /\ CardsOnce(old) /\ TricksPerRound \in Nat \ {0}
  BY DeckAssumption DEF GoodGame, FitsPhase
<1>2. ~HasPlayed(old, 0) /\ \A p : ~HasPlayed(game, p) /\ ~HasPlayed(old, p)
  BY <1>1 DEF HasPlayed
<1>3. CardsOnce(game)
  BY <1>1, <1>2 DEF CardsOnce
<1>4. FitsPhase(game)
  BY <1>1 DEF FitsPhase, InTurn
<1>5. Len(game.trick) <= CardsPerTrick
  BY DEF CardsPerTrick
<1> QED
  BY <1>3, <1>4, <1>5 DEF GoodGame

\* The scores are done with: the game is over or another round is dealt.
LEMMA AdvanceGood ==
  ASSUME NEW old, GoodGame(old), old.phase = "SCORING", NEW hands \in Dealings,
         NEW game, game = game_state_advance_scoring(old, hands)
  PROVE  GoodGame(game) /\ (game.phase = "GAME_OVER" \/ (game.phase = "DEALING" /\ Opening(game)))
<1> DEFINE over == [old EXCEPT !.phase = "GAME_OVER"]
<1>1. old \in GameStates /\ CardsOnce(old) /\ FitsPhase(old) /\ Len(old.trick) <= CardsPerTrick
  BY DEF GoodGame
<1>2. /\ over \in GameStates /\ over.hand = old.hand /\ over.trick = old.trick
      /\ over.phase = "GAME_OVER" /\ over.tricks_played = old.tricks_played
  BY <1>1 DEF GameStates, Phases
<1> HIDE DEF over
<1>3. CardsOnce(over)
  BY <1>1, <1>2 DEF CardsOnce, HasPlayed
<1>4. FitsPhase(over)
  BY <1>1, <1>2 DEF FitsPhase
<1>5. GoodGame(over) /\ over.phase = "GAME_OVER"
  BY <1>1, <1>2, <1>3, <1>4 DEF GoodGame
<1>6. CASE game_state_is_game_over(old)
  <2>1. game = over
    BY <1>6 DEF game_state_advance_scoring, over
  <2> QED
    BY <1>5, <2>1
<1>7. CASE ~game_state_is_game_over(old)
  BY <1>1, <1>7, NewRoundGood DEF game_state_advance_scoring
<1> QED
  BY <1>6, <1>7

-----------------------------------------------------------------------------
(* Sums over sets of cards. Induction is on the subsets of a finite set: a family of *)
(* them that is not empty has a smallest member.                                     *)

LEMMA SmallestSet ==
  ASSUME NEW S, IsFiniteSet(S), NEW T, T \subseteq SUBSET S, T # {}
  PROVE  \E x \in T : \A y \in T : y \subseteq x => y = x
<1>1. IsWellFoundedOn(StrictSubsetOrdering(S), SUBSET S)
  BY FS_StrictSubsetOrderingWellFounded, FS_FiniteSubsetsOfFinite
<1>2. PICK x \in T : \A y \in T : ~ (<<y, x>> \in StrictSubsetOrdering(S))
  BY <1>1, WFMin, Zenon
<1>3. ASSUME NEW y \in T, y \subseteq x PROVE y = x
  <2>1. <<y, x>> \in (SUBSET S) \X (SUBSET S)
    BY <1>3
  <2>2. <<y, x>>[1] = y /\ <<y, x>>[2] = x
    OBVIOUS
  <2> QED
    BY <1>2, <1>3, <2>1, <2>2 DEF StrictSubsetOrdering
<1> QED
  BY <1>3

Any(s) == CHOOSE x \in s : TRUE

\* f adds up the weights w over every subset of S.
IsSum(w, f, S) ==
  f = [s \in SUBSET S |-> IF s = {} THEN 0 ELSE w[Any(s)] + f[s \ {Any(s)}]]

LEMMA SumAt ==
  ASSUME NEW w, NEW f, NEW S, IsSum(w, f, S), NEW s \in SUBSET S
  PROVE  /\ s = {} => f[s] = 0
         /\ s # {} => Any(s) \in s /\ f[s] = w[Any(s)] + f[s \ {Any(s)}]
<1>1. f[s] = IF s = {} THEN 0 ELSE w[Any(s)] + f[s \ {Any(s)}]
  BY Zenon DEF IsSum
<1>2. s # {} => Any(s) \in s
  BY DEF Any
<1> QED
  BY <1>1, <1>2

LEMMA SumsAgree ==
  ASSUME NEW w, NEW f, NEW g, NEW S, NEW R, IsFiniteSet(S), IsSum(w, f, S), IsSum(w, g, R),
         NEW s \in SUBSET S, s \subseteq R
  PROVE  f[s] = g[s]
<1> DEFINE T == {t \in SUBSET S : t \subseteq R /\ f[t] # g[t]}
<1>1. SUFFICES ASSUME T # {} PROVE FALSE
  OBVIOUS
<1>2. PICK t \in T : \A u \in T : u \subseteq t => u = t
  <2>1. T \subseteq SUBSET S
    OBVIOUS
  <2> HIDE DEF T
  <2> QED
    BY <1>1, <2>1, SmallestSet
<1>3. /\ t \in SUBSET S /\ t \in SUBSET R /\ f[t] # g[t]
  OBVIOUS
<1>4. t # {}
  BY <1>3, SumAt
<1> DEFINE u == t \ {Any(t)}
<1>5. /\ Any(t) \in t /\ f[t] = w[Any(t)] + f[u] /\ g[t] = w[Any(t)] + g[u]
  BY <1>3, <1>4, SumAt
<1>6. u \in SUBSET S /\ u \subseteq R /\ u \subseteq t /\ u # t
  BY <1>3, <1>5
<1>7. f[u] = g[u]
  BY <1>2, <1>6
<1> QED
  BY <1>3, <1>5, <1>7

LEMMA SumExists ==
  ASSUME NEW w, NEW S, IsFiniteSet(S)
  PROVE  \E f : IsSum(w, f, S)
<1> DEFINE T == {t \in SUBSET S : ~\E f : IsSum(w, f, t)}
<1>1. SUFFICES ASSUME T # {} PROVE FALSE
  BY DEF T
<1>2. PICK m \in T : \A u \in T : u \subseteq m => u = m
  <2>1. T \subseteq SUBSET S
    OBVIOUS
  <2> HIDE DEF T
  <2> QED
    BY <1>1, <2>1, SmallestSet
<1>3. m \in SUBSET S /\ ~\E f : IsSum(w, f, m)
  OBVIOUS
<1>4. ASSUME NEW u \in SUBSET m, u # m PROVE \E f : IsSum(w, f, u)
  BY <1>2, <1>3, <1>4
<1> DEFINE F(u) == CHOOSE f : IsSum(w, f, u)
<1>5. ASSUME NEW u \in SUBSET m, u # m PROVE IsSum(w, F(u), u)
  BY <1>4, <1>5
<1>6. IsFiniteSet(m) /\ \A u \in SUBSET m : IsFiniteSet(u)
  BY <1>3, FS_Subset
<1> DEFINE V(u) == IF u = {} THEN 0 ELSE w[Any(u)] + F(u \ {Any(u)})[u \ {Any(u)}]
           f == [u \in SUBSET m |-> V(u)]
<1> HIDE DEF F
<1>7. ASSUME NEW u \in SUBSET m, u # {} PROVE f[u] = w[Any(u)] + f[u \ {Any(u)}]
  <2> DEFINE v == u \ {Any(u)}
  <2>1. Any(u) \in u /\ v \in SUBSET m /\ v # m
    BY <1>7 DEF Any
  <2>2. f[u] = w[Any(u)] + F(v)[v] /\ f[v] = V(v)
    BY <1>7, <2>1
  <2>3. IsSum(w, F(v), v)
    BY <1>5, <2>1
  <2>4. v = {} => F(v)[v] = 0
    BY <2>3, SumAt
  <2>5. ASSUME v # {} PROVE F(v)[v] = V(v)
    <3> DEFINE y == v \ {Any(v)}
    <3>1. Any(v) \in v /\ y \in SUBSET m /\ y \in SUBSET v /\ y # m
      BY <2>1, <2>5 DEF Any
    <3>2. F(v)[v] = w[Any(v)] + F(v)[y]
      <4>1. v \in SUBSET v
        OBVIOUS
      <4>2. PICK g : g = F(v)
        OBVIOUS
      <4>3. IsSum(w, g, v)
        BY <2>3, <4>2
      <4> HIDE DEF v
      <4>4. g[v] = w[Any(v)] + g[v \ {Any(v)}]
        BY <2>5, <4>1, <4>3, SumAt
      <4> QED
        BY <4>2, <4>4 DEF v
    <3>3. IsSum(w, F(y), y)
      BY <1>5, <3>1
    <3>4. IsFiniteSet(v)
      BY <1>6, <2>1
    <3>5. F(v)[y] = F(y)[y]
      <4>1. y \subseteq y
        OBVIOUS
      <4> HIDE DEF y, v
      <4> QED
        BY <2>3, <3>1, <3>3, <3>4, <4>1, SumsAgree
    <3> QED
      BY <2>5, <3>2, <3>5
  <2> QED
    BY <2>2, <2>4, <2>5
<1>8. f = [s \in SUBSET m |-> IF s = {} THEN 0 ELSE w[Any(s)] + f[s \ {Any(s)}]]
  <2>1. \A u \in SUBSET m : f[u] = IF u = {} THEN 0 ELSE w[Any(u)] + f[u \ {Any(u)}]
    BY <1>7
  <2>2. f = [u \in SUBSET m |-> f[u]]
    OBVIOUS
  <2> HIDE DEF f
  <2> QED
    BY <2>1, <2>2
<1>9. IsSum(w, f, m)
  BY <1>8, Zenon DEF IsSum
<1> QED
  BY <1>3, <1>9

\* The sum of the weights of a set of cards.
Total(w, s) == (CHOOSE f : IsSum(w, f, s))[s]

LEMMA TotalIs ==
  ASSUME NEW w, NEW S, IsFiniteSet(S), NEW f, IsSum(w, f, S), NEW s \in SUBSET S
  PROVE  Total(w, s) = f[s]
<1>1. IsFiniteSet(s)
  BY FS_Subset
<1> DEFINE g == CHOOSE h : IsSum(w, h, s)
<1>2. IsSum(w, g, s)
  BY <1>1, SumExists
<1> HIDE DEF g
<1>3. s \subseteq S /\ s \in SUBSET s
  OBVIOUS
<1>4. g[s] = f[s]
  BY <1>1, <1>2, <1>3, SumsAgree
<1> QED
  BY <1>4 DEF Total, g

\* Any card may be counted first.
LEMMA TotalWithout ==
  ASSUME NEW S, IsFiniteSet(S), NEW w \in [S -> Nat], NEW s \in SUBSET S
  PROVE  /\ s = {} => Total(w, s) = 0
         /\ Total(w, s) \in Nat
         /\ \A x \in s : Total(w, s) = w[x] + Total(w, s \ {x})
<1>1. PICK f : IsSum(w, f, S)
  BY SumExists
<1>2. \A t \in SUBSET S : Total(w, t) = f[t]
  BY <1>1, TotalIs
<1> DEFINE Good(t) == f[t] \in Nat /\ \A x \in t : f[t] = w[x] + f[t \ {x}]
           T == {t \in SUBSET S : ~Good(t)}
<1>3. T = {}
  <2>1. SUFFICES ASSUME T # {} PROVE FALSE
    OBVIOUS
  <2>2. PICK t \in T : \A u \in T : u \subseteq t => u = t
    <3>1. T \subseteq SUBSET S
      OBVIOUS
    <3> HIDE DEF T
    <3> QED
      BY <2>1, <3>1, SmallestSet
  <2>3. t \in SUBSET S /\ ~Good(t)
    OBVIOUS
  <2>4. \A u \in SUBSET S : u \subseteq t /\ u # t => Good(u)
    BY <2>2
  <2>5. f[t] \in Nat /\ t # {}
    <3>1. CASE t = {}
      <4>1. f[t] = 0
        BY <1>1, <2>3, <3>1, SumAt
      <4> QED
        BY <2>3, <3>1, <4>1
    <3>2. CASE t # {}
      <4>1. Any(t) \in t /\ f[t] = w[Any(t)] + f[t \ {Any(t)}]
        BY <1>1, <2>3, <3>2, SumAt
      <4>2. Good(t \ {Any(t)}) /\ w[Any(t)] \in Nat
        BY <2>3, <2>4, <4>1
      <4> QED
        BY <3>2, <4>1, <4>2
    <3> QED
      BY <3>1, <3>2
  <2>6. PICK x \in t : f[t] # w[x] + f[t \ {x}]
    BY <2>3, <2>5
  <2> DEFINE y == Any(t)
  <2>7. y \in t /\ f[t] = w[y] + f[t \ {y}]
    <3>1. t # {} /\ t \in SUBSET S
      BY <2>3, <2>5
    <3> HIDE DEF T
    <3> QED
      BY ONLY <1>1, <3>1, SumAt
  <2>8. x # y
    BY <2>6, <2>7
  <2> DEFINE both == (t \ {x}) \ {y}
  <2>9. both = (t \ {y}) \ {x}
    OBVIOUS
  <2>10. Good(t \ {x}) /\ Good(t \ {y}) /\ Good(both)
    BY <2>3, <2>4, <2>6, <2>7
  <2>11. f[t \ {x}] = w[y] + f[both] /\ f[t \ {y}] = w[x] + f[both]
    BY <2>7, <2>8, <2>9, <2>10
  <2>12. w[x] \in Nat /\ w[y] \in Nat /\ f[both] \in Nat
    BY <2>3, <2>7, <2>10
  <2> HIDE DEF both, y
  <2>13. f[t] = w[x] + f[t \ {x}]
    BY <2>7, <2>11, <2>12
  <2> QED
    BY <2>6, <2>13
<1>4. Good(s) /\ (s = {} => f[s] = 0)
  BY <1>1, <1>3, SumAt
<1>5. \A x \in s : s \ {x} \in SUBSET S
  OBVIOUS
<1> QED
  BY <1>2, <1>4, <1>5

\* Two sets with no card in common add up.
LEMMA TotalUnion ==
  ASSUME NEW S, IsFiniteSet(S), NEW w \in [S -> Nat], NEW r \in SUBSET S, NEW s \in SUBSET S,
         r \cap s = {}
  PROVE  Total(w, r \cup s) = Total(w, r) + Total(w, s)
<1> DEFINE Good(t) == Total(w, r \cup t) = Total(w, r) + Total(w, t)
           T == {t \in SUBSET S : t \cap r = {} /\ ~Good(t)}
<1>1. SUFFICES ASSUME T # {} PROVE FALSE
  OBVIOUS
<1>2. PICK t \in T : \A u \in T : u \subseteq t => u = t
  <2>1. T \subseteq SUBSET S
    OBVIOUS
  <2> HIDE DEF T
  <2> QED
    BY <1>1, <2>1, SmallestSet
<1>3. t \in SUBSET S /\ t \cap r = {} /\ ~Good(t)
  OBVIOUS
<1>4. t # {}
  <2>1. SUFFICES ASSUME t = {} PROVE Good(t)
    BY <1>3
  <2>2. r \cup t = r
    BY <2>1
  <2> QED
    BY <2>1, <2>2, <1>3, TotalWithout
<1>5. PICK x \in t : TRUE
  BY <1>4
<1> DEFINE u == t \ {x}
<1>6. Good(u)
  BY <1>2, <1>3
<1>7. Total(w, r \cup t) = w[x] + Total(w, r \cup u)
  <2>1. (r \cup t) \ {x} = r \cup u /\ r \cup t \in SUBSET S /\ x \in r \cup t
    BY <1>3
  <2> HIDE DEF u
  <2> QED
    BY <2>1, TotalWithout
<1>8. Total(w, t) = w[x] + Total(w, u)
  BY <1>3, TotalWithout
<1>9. /\ w[x] \in Nat /\ Total(w, r) \in Nat /\ Total(w, u) \in Nat
  BY <1>3, TotalWithout
<1> HIDE DEF u
<1> QED
  BY <1>3, <1>6, <1>7, <1>8, <1>9

\* The sum of the community modules is this one, whatever the operator that weighs.
LEMMA SumOfPoints ==
  ASSUME NEW S, IsFiniteSet(S), NEW w, \A c \in S : w[c] = card_points(c)
  PROVE  MapThenSumSet(card_points, S) = Total(w, S)
<1> DEFINE Recurs(f) ==
      f = [s \in SUBSET S |-> IF s = {} THEN 0
                              ELSE card_points(CHOOSE x \in s : TRUE) + f[s \ {CHOOSE x \in s : TRUE}]]
<1>1. MapThenSumSet(card_points, S) = (CHOOSE f : Recurs(f))[S]
  BY DEF MapThenSumSet, MapThenFoldSet
<1>2. ASSUME NEW f PROVE Recurs(f) <=> IsSum(w, f, S)
  <2> DEFINE P(s) == IF s = {} THEN 0
                     ELSE card_points(CHOOSE x \in s : TRUE) + f[s \ {CHOOSE x \in s : TRUE}]
             Q(s) == IF s = {} THEN 0 ELSE w[Any(s)] + f[s \ {Any(s)}]
  <2>1. \A s \in SUBSET S : P(s) = Q(s)
    <3> SUFFICES ASSUME NEW s \in SUBSET S, s # {} PROVE P(s) = Q(s)
      OBVIOUS
    <3>1. Any(s) \in s /\ (CHOOSE x \in s : TRUE) = Any(s)
      BY DEF Any
    <3> QED
      BY <3>1
  <2> HIDE DEF P, Q
  <2>2. [s \in SUBSET S |-> P(s)] = [s \in SUBSET S |-> Q(s)]
    BY <2>1
  <2> QED
    BY <2>2, Zenon DEF P, Q, IsSum
<1> HIDE DEF Recurs
<1>3. \E f : Recurs(f)
  BY <1>2, SumExists
<1>4. Recurs(CHOOSE f : Recurs(f))
  BY <1>3
<1>5. IsSum(w, CHOOSE f : Recurs(f), S)
  BY <1>2, <1>4
<1>6. S \in SUBSET S
  OBVIOUS
<1> QED
  BY <1>1, <1>5, <1>6, TotalIs

-----------------------------------------------------------------------------
(* The points of the round *)

weight == [c \in Deck |-> card_points(c)]
Points(cards) == Total(weight, cards)
Four(f) == f[0] + f[1] + f[2] + f[3]
InHands(game) == UNION {game.hand[p] : p \in Players}

\* The points are in the hands, in the trick or taken; after the last trick they are
\* all taken, once, or three times when one player has taken them all.
SumsUp(game) ==
  IF game.phase \in {"SCORING", "GAME_OVER"}
  THEN IF game.moon_shooter = NoPlayer THEN Four(game.round_points) = Points(Deck)
       ELSE /\ Four(game.round_points) = 3 * Points(Deck)
            /\ game.round_points[game.moon_shooter] = 0
  ELSE Four(game.round_points) + trick_count_points(game.trick) + Points(InHands(game))
         = Points(Deck)

LEMMA PointsOf ==
  ASSUME NEW cards \in SUBSET Deck
  PROVE  /\ cards = {} => Points(cards) = 0
         /\ Points(cards) \in Nat
         /\ \A x \in cards : Points(cards) = card_points(x) + Points(cards \ {x})
         /\ MapThenSumSet(card_points, cards) = Points(cards)
<1>1. \A c : card_points(c) \in Nat
  BY DEF card_points
<1>2. weight \in [Deck -> Nat] /\ \A c \in Deck : weight[c] = card_points(c)
  BY <1>1 DEF weight
<1>3. IsFiniteSet(Deck) /\ IsFiniteSet(cards)
  <2>1. Deck \in SUBSET Deck
    OBVIOUS
  <2> QED
    BY <2>1, CardsFinite
<1>4. /\ cards = {} => Total(weight, cards) = 0
      /\ Total(weight, cards) \in Nat
      /\ \A x \in cards : Total(weight, cards) = weight[x] + Total(weight, cards \ {x})
  BY <1>2, <1>3, TotalWithout
<1>5. MapThenSumSet(card_points, cards) = Total(weight, cards)
  <2>1. \A c \in cards : weight[c] = card_points(c)
    BY <1>2
  <2> QED
    BY <1>3, <2>1, SumOfPoints
<1>6. \A x \in cards : weight[x] = card_points(x)
  BY <1>2
<1> QED
  BY <1>4, <1>5, <1>6 DEF Points

\* What a game in which every card is in one place has in its parts.
LEMMA PartsTyped ==
  ASSUME NEW game \in GameStates
  PROVE  /\ InHands(game) \in SUBSET Deck /\ Points(InHands(game)) \in Nat
         /\ Points(Deck) \in Nat /\ Four(game.round_points) \in Nat
         /\ \A p \in Players : game.round_points[p] \in Nat
         /\ trick_count_points(game.trick) \in Nat
<1>1. InHands(game) \in SUBSET Deck /\ Deck \in SUBSET Deck
  BY DEF InHands, GameStates
<1>2. \A p \in Players : game.round_points[p] \in Nat
  BY DEF GameStates
<1>3. Four(game.round_points) \in Nat
  BY <1>2 DEF Four, Players
<1>4. \A c : card_points(c) \in Nat
  BY DEF card_points
<1>5. \A i : PointsAt(game.trick, i) \in Nat
  BY <1>4 DEF PointsAt
<1>6. trick_count_points(game.trick) \in Nat
  BY <1>5 DEF trick_count_points
<1>7. Points(InHands(game)) \in Nat /\ Points(Deck) \in Nat
  BY <1>1, PointsOf
<1> QED
  BY <1>1, <1>2, <1>3, <1>6, <1>7

\* Nothing of what counts changes.
LEMMA SumsSame ==
  ASSUME NEW old, NEW game, SumsUp(old), InHands(game) = InHands(old),
         game.round_points = old.round_points, game.moon_shooter = old.moon_shooter,
         game.trick = old.trick,
         game.phase \in {"SCORING", "GAME_OVER"} <=> old.phase \in {"SCORING", "GAME_OVER"}
  PROVE  SumsUp(game)
BY DEF SumsUp

\* A round in which nothing has been played yet.
LEMMA SumsFresh ==
  ASSUME NEW game, NEW hands \in Dealings, game.hand = hands, game.phase = "DEALING",
         game.round_points = [p \in Players |-> 0], game.trick = <<>>
  PROVE  SumsUp(game)
<1>1. InHands(game) = Deck
  BY DEF InHands, Dealings
<1>2. Four(game.round_points) = 0
  BY DEF Four, Players
<1>3. trick_count_points(game.trick) = 0
  <2>1. \A i : PointsAt(<<>>, i) = 0
    BY DEF PointsAt
  <2> QED
    BY <2>1 DEF trick_count_points
<1>4. Points(Deck) \in Nat
  BY PointsOf
<1> QED
  BY <1>1, <1>2, <1>3, <1>4 DEF SumsUp

\* A card goes from a hand to the trick, and its points with it.
LEMMA TrickPointsAppend ==
  ASSUME NEW trick \in Seq(Play), Len(trick) < CardsPerTrick, NEW play \in Play
  PROVE  trick_count_points(Append(trick, play)) = trick_count_points(trick) + card_points(play.card)
<1> DEFINE n == Len(trick)
           next == Append(trick, play)
<1>1. n \in 0 .. 3
  <2>1. n \in Nat
    OBVIOUS
  <2> QED
    BY <2>1, ShortTrick, Zenon
<1>2. /\ DOMAIN trick = 1 .. n /\ DOMAIN next = 1 .. n + 1
      /\ \A i \in 1 .. n : next[i] = trick[i]
      /\ next[n + 1] = play
  OBVIOUS
<1> HIDE DEF n, next
<1>3. /\ \A i \in 1 .. n : PointsAt(next, i) = PointsAt(trick, i)
      /\ PointsAt(next, n + 1) = card_points(play.card)
      /\ \A i \in n + 1 .. 4 : PointsAt(trick, i) = 0
      /\ \A i \in n + 2 .. 4 : PointsAt(next, i) = 0
  BY <1>1, <1>2 DEF PointsAt
<1>4. /\ \A i \in 1 .. 4 : PointsAt(trick, i) \in Nat
      /\ card_points(play.card) \in Nat
  BY DEF PointsAt, card_points
<1> QED
  BY <1>1, <1>3, <1>4 DEF trick_count_points, next

LEMMA SumsPlay ==
  ASSUME NEW old, GoodGame(old), SumsUp(old), old.phase = "PLAYING", Len(old.trick) < CardsPerTrick,
         NEW p \in Players, NEW card \in old.hand[p]
  PROVE  SumsUp(game_state_play_card(old, p, card))
<1> DEFINE game == game_state_play_card(old, p, card)
           play == [player |-> p, card |-> card]
<1>1. /\ old \in GameStates /\ old.hand \in [Players -> SUBSET Deck] /\ old.trick \in Seq(Play)
      /\ CardsOnce(old)
  BY DEF GoodGame, GameStates
<1>2. /\ game.phase = "PLAYING" /\ game.round_points = old.round_points
      /\ game.trick = Append(old.trick, play)
      /\ game.hand = [old.hand EXCEPT ![p] = @ \ {card}]
  BY <1>1 DEF game_state_play_card, GameStates
<1> HIDE DEF game
<1>3. card \in InHands(old) /\ card \in Deck /\ play \in Play
  BY <1>1 DEF InHands, Play
<1>4. InHands(game) = InHands(old) \ {card}
  <2>1. \A q \in Players : game.hand[q] = IF q = p THEN old.hand[p] \ {card} ELSE old.hand[q]
    BY <1>1, <1>2
  <2>2. \A q \in Players \ {p} : card \notin old.hand[q]
    BY <1>1 DEF CardsOnce
  <2> QED
    BY <2>1, <2>2 DEF InHands
<1>5. Points(InHands(old)) = card_points(card) + Points(InHands(game))
  BY <1>1, <1>3, <1>4, PartsTyped, PointsOf
<1>6. trick_count_points(game.trick) = trick_count_points(old.trick) + card_points(card)
  BY <1>1, <1>2, <1>3, TrickPointsAppend
<1>7. Four(old.round_points) + trick_count_points(old.trick) + Points(InHands(old)) = Points(Deck)
  BY DEF SumsUp
<1>8. /\ Four(old.round_points) \in Nat /\ trick_count_points(old.trick) \in Nat
      /\ Points(InHands(old)) \in Nat /\ Points(Deck) \in Nat /\ card_points(card) \in Nat
  BY <1>1, PartsTyped DEF card_points
<1>9. Points(InHands(game)) \in Nat
  <2>1. InHands(game) \in SUBSET Deck
    BY <1>1, <1>4, PartsTyped
  <2> QED
    BY <2>1, PointsOf
<1>10. Four(game.round_points) + trick_count_points(game.trick) + Points(InHands(game)) = Points(Deck)
  BY <1>2, <1>5, <1>6, <1>7, <1>8, <1>9
<1> QED
  BY <1>2, <1>10 DEF SumsUp, game

\* The exchange leaves the same cards in the hands.
LEMMA ExecuteKeeps ==
  ASSUME NEW old, GoodGame(old), old.phase = "PASSING"
  PROVE  InHands(game_state_execute_pass(old)) = InHands(old)
<1> DEFINE from(p) == (p + 4 - PassOffset(old.pass_direction)) % 4
           hands == [p \in Players |-> (old.hand[p] \ old.pass_selections[p])
                                         \cup old.pass_selections[from(p)]]
           game == game_state_execute_pass(old)
<1>1. /\ old \in GameStates /\ ChosenHeld(old) /\ old.pass_direction \in PassDirections
  BY DEF GoodGame, FitsPhase, GameStates
<1>2. game.hand = hands
  BY <1>1 DEF game_state_execute_pass, GameStates
<1>3. PassOffset(old.pass_direction) \in 0 .. 3
  BY <1>1 DEF PassOffset, PassDirections
<1>4. \A p \in Players : from(p) \in Players
  BY <1>3 DEF Players
<1>5. \A q \in Players : \E p \in Players : from(p) = q
  <2>1. SUFFICES ASSUME NEW q \in Players PROVE \E p \in Players : from(p) = q
    OBVIOUS
  <2> DEFINE o == PassOffset(old.pass_direction)
             p == IF q + o < 4 THEN q + o ELSE q + o - 4
  <2>2. p \in Players
    BY <1>3 DEF Players
  <2>3. from(p) = q
    BY <1>3 DEF Players
  <2> QED
    BY <2>2, <2>3
<1> HIDE DEF from, game
<1>6. \A p \in Players : old.pass_selections[p] \subseteq old.hand[p]
  BY <1>1 DEF ChosenHeld
<1>7. \A p \in Players : game.hand[p] \subseteq InHands(old)
  BY <1>2, <1>4, <1>6 DEF InHands
<1>8. \A q \in Players : \A c \in old.hand[q] : \E p \in Players : c \in game.hand[p]
  BY <1>2, <1>5
<1> QED
  BY <1>7, <1>8 DEF InHands, game

\* After its last trick the round ends with the hands empty.
LEMMA LastTrick ==
  ASSUME NEW old, GoodGame(old), old.phase = "PLAYING", Len(old.trick) = CardsPerTrick
  PROVE  /\ old.tricks_played + 1 >= TricksPerRound <=> InHands(old) = {}
         /\ \A p \in Players : Cardinality(old.hand[p]) = TricksPerRound - old.tricks_played - 1
<1>1. /\ old.trick \in Seq(Play) /\ old.tricks_played \in 0 .. TricksPerRound
      /\ old.hand \in [Players -> SUBSET Deck] /\ TricksPerRound \in Nat \ {0}
      /\ old.lead_player \in Players /\ old.tricks_played < TricksPerRound /\ InTurn(old)
      /\ CardsOnce(old)
  BY DeckAssumption DEF GoodGame, GameStates, FitsPhase
<1>2. ASSUME NEW p \in Players PROVE HasPlayed(old, p)
  <2>1. PICK i \in 1 .. 4 : (old.lead_player + i - 1) % 4 = p
    BY <1>1, PlaceOf DEF Players
  <2>2. DOMAIN old.trick = 1 .. 4
    <3>1. DOMAIN old.trick = 1 .. Len(old.trick)
      BY <1>1
    <3> QED
      BY <3>1 DEF CardsPerTrick
  <2> QED
    BY <1>1, <2>1, <2>2 DEF InTurn, HasPlayed
<1>3. \A p \in Players : Cardinality(old.hand[p]) = TricksPerRound - old.tricks_played - 1
  BY <1>1, <1>2 DEF CardsOnce
<1>4. \A p \in Players : Cardinality(old.hand[p]) = 0 <=> old.hand[p] = {}
  <2>1. \A p \in Players : IsFiniteSet(old.hand[p])
    BY <1>1, CardsFinite
  <2> QED
    BY <2>1, FS_EmptySet
<1>5. InHands(old) = {} <=> \A p \in Players : old.hand[p] = {}
  BY DEF InHands
<1>6. 0 \in Players
  BY DEF Players
<1>7. InHands(old) = {} <=> TricksPerRound - old.tricks_played - 1 = 0
  BY <1>3, <1>4, <1>5, <1>6
<1> QED
  BY <1>1, <1>3, <1>7

\* Who shoots the moon is the only one to have taken points.
LEMMA ShooterIs ==
  ASSUME NEW taken \in [Players -> Nat], NEW winner, MoonShooter(taken, winner) # NoPlayer
  PROVE  /\ MoonShooter(taken, winner) \in Players /\ taken[MoonShooter(taken, winner)] > 0
         /\ \A p \in Players : taken[p] > 0 => p = MoonShooter(taken, winner)
<1> DEFINE scorers == {p \in Players : taken[p] > 0}
<1>1. /\ Cardinality(scorers) = 1 /\ MoonShooter(taken, winner) = CHOOSE p \in scorers : TRUE
  BY DEF MoonShooter
<1>2. IsFiniteSet(scorers)
  <2>1. 0 \in Int /\ 3 \in Int
    OBVIOUS
  <2>2. IsFiniteSet(0 .. 3)
    BY <2>1, FS_Interval, Zenon
  <2>3. scorers \in SUBSET (0 .. 3)
    BY DEF Players
  <2> QED
    BY <2>2, <2>3, FS_Subset
<1> HIDE DEF scorers
<1>3. PICK s : scorers = {s}
  BY <1>1, <1>2, FS_Singleton
<1>4. MoonShooter(taken, winner) = s
  BY <1>1, <1>3
<1> QED
  BY <1>3, <1>4 DEF scorers

\* Sums of four.
LEMMA FourMore ==
  ASSUME NEW f \in [Players -> Nat], NEW p \in Players, NEW n \in Nat
  PROVE  /\ [f EXCEPT ![p] = @ + n] \in [Players -> Nat]
         /\ Four([f EXCEPT ![p] = @ + n]) = Four(f) + n
<1> DEFINE g == [f EXCEPT ![p] = @ + n]
<1>1. \A q \in 0 .. 3 : f[q] \in Nat /\ g[q] = f[q] + (IF q = p THEN n ELSE 0)
  BY DEF Players
<1>2. g \in [Players -> Nat] /\ p \in 0 .. 3
  BY DEF Players
<1> HIDE DEF g
<1>3. g[0] + g[1] + g[2] + g[3] = f[0] + f[1] + f[2] + f[3] + n
  BY <1>1, <1>2
<1> QED
  BY <1>2, <1>3 DEF Four, g

LEMMA FourParts ==
  ASSUME NEW f \in [Players -> Nat]
  PROVE  /\ \A p \in Players : f[p] = Four(f) => \A q \in Players : q # p => f[q] = 0
         /\ Four(f) = 0 => \A p \in Players : f[p] = 0
<1> DEFINE a == f[0]
           b == f[1]
           c == f[2]
           d == f[3]
<1>1. a \in Nat /\ b \in Nat /\ c \in Nat /\ d \in Nat /\ Four(f) = a + b + c + d
  BY DEF Players, Four
<1>2. \A p \in Players : \/ p = 0 /\ f[p] = a
                         \/ p = 1 /\ f[p] = b
                         \/ p = 2 /\ f[p] = c
                         \/ p = 3 /\ f[p] = d
  BY DEF Players
<1> HIDE DEF a, b, c, d
<1>3. Four(f) = 0 => a = 0 /\ b = 0 /\ c = 0 /\ d = 0
  BY <1>1
<1>4. /\ a = Four(f) => b = 0 /\ c = 0 /\ d = 0
      /\ b = Four(f) => a = 0 /\ c = 0 /\ d = 0
      /\ c = Four(f) => a = 0 /\ b = 0 /\ d = 0
      /\ d = Four(f) => a = 0 /\ b = 0 /\ c = 0
  BY <1>1
<1> QED
  BY <1>2, <1>3, <1>4

LEMMA SumsComplete ==
  ASSUME NEW old, GoodGame(old), SumsUp(old), old.phase = "PLAYING", Len(old.trick) = CardsPerTrick
  PROVE  SumsUp(game_state_complete_trick(old))
<1> DEFINE winner == trick_get_winner(old.trick)
           points == trick_count_points(old.trick)
           taken == [old.round_points EXCEPT ![winner] = @ + points]
           shooter == MoonShooter(taken, winner)
           final == IF shooter = NoPlayer THEN taken
                    ELSE [p \in Players |-> IF p = shooter THEN 0 ELSE taken[shooter]]
           total == [p \in Players |-> old.total_score[p] + final[p]]
           played == old.tricks_played + 1
           game == game_state_complete_trick(old)
<1>1. /\ old \in GameStates /\ old.trick \in Seq(Play) /\ old.tricks_played \in 0 .. TricksPerRound
      /\ old.round_points \in [Players -> Nat] /\ TricksPerRound \in Nat
      /\ old.hand \in [Players -> SUBSET Deck]
  BY DeckAssumption DEF GoodGame, GameStates
<1>2. winner \in Players /\ points \in Nat
  BY <1>1, WinnerIsPlayer
<1>3. /\ Four(old.round_points) + points + Points(InHands(old)) = Points(Deck)
      /\ Four(old.round_points) \in Nat /\ Points(InHands(old)) \in Nat /\ Points(Deck) \in Nat
  BY <1>1, PartsTyped DEF SumsUp
<1> HIDE DEF winner, points
<1>4. taken \in [Players -> Nat] /\ Four(taken) = Four(old.round_points) + points
  BY <1>1, <1>2, FourMore
<1> HIDE DEF taken
<1>5. game = IF played >= TricksPerRound
             THEN [old EXCEPT !.tricks_played = played, !.round_points = final,
                              !.total_score = total, !.moon_shooter = shooter, !.phase = "SCORING"]
             ELSE [old EXCEPT !.tricks_played = played, !.round_points = taken,
                              !.lead_player = winner, !.trick = <<>>]
  BY <1>1 DEF game_state_complete_trick, game_state_complete_trick_with, GameStates,
              winner, points, taken, shooter, final, total
<1> HIDE DEF game, shooter, final, total
<1>6. played >= TricksPerRound <=> InHands(old) = {}
  BY LastTrick
<1> HIDE DEF played
<1>7. CASE played >= TricksPerRound
  <2>1. /\ game.phase = "SCORING" /\ game.round_points = final /\ game.moon_shooter = shooter
    BY <1>1, <1>5, <1>7 DEF GameStates
  <2>2. Points(InHands(old)) = 0
    <3>1. InHands(old) \in SUBSET Deck
      BY <1>1, PartsTyped
    <3> QED
      BY <1>6, <1>7, <3>1, PointsOf
  <2>3. Four(taken) = Points(Deck)
    BY <1>2, <1>3, <1>4, <2>2
  <2>4. ASSUME shooter = NoPlayer PROVE SumsUp(game)
    BY <2>1, <2>3, <2>4 DEF SumsUp, final
  <2>5. ASSUME shooter # NoPlayer PROVE SumsUp(game)
    <3>1. /\ shooter \in Players /\ taken[shooter] > 0
          /\ \A p \in Players : taken[p] > 0 => p = shooter
      BY <1>4, <2>5, ShooterIs DEF shooter
    <3>2. \A p \in Players : taken[p] \in Nat
      BY <1>4
    <3>3. Four(taken) = taken[shooter]
      BY <3>1, <3>2 DEF Four, Players
    <3>4. \A p \in Players : final[p] = IF p = shooter THEN 0 ELSE taken[shooter]
      BY <2>5 DEF final
    <3>5. Four(final) = 3 * taken[shooter] /\ final[shooter] = 0
      BY <3>1, <3>2, <3>4 DEF Four, Players
    <3> QED
      BY <2>1, <2>3, <2>5, <3>3, <3>5 DEF SumsUp
  <2> QED
    BY <2>4, <2>5 DEF game
<1>8. CASE ~(played >= TricksPerRound)
  <2>1. /\ game.phase = "PLAYING" /\ game.round_points = taken /\ game.trick = <<>>
        /\ game.hand = old.hand
    BY <1>1, <1>5, <1>8 DEF GameStates
  <2>2. trick_count_points(game.trick) = 0
    <3>1. \A i : PointsAt(<<>>, i) = 0
      BY DEF PointsAt
    <3> QED
      BY <2>1, <3>1 DEF trick_count_points
  <2>3. InHands(game) = InHands(old)
    BY <2>1 DEF InHands
  <2>4. Four(game.round_points) + trick_count_points(game.trick) + Points(InHands(game)) = Points(Deck)
    BY <1>2, <1>3, <1>4, <2>1, <2>2, <2>3
  <2> QED
    BY <2>1, <2>4 DEF SumsUp, game
<1> QED
  BY <1>7, <1>8

-----------------------------------------------------------------------------
(* The game at the server *)

\* The sub-states of the passing: what each of them may rely on.
PassLink ==
  /\ sg.pass_substate # "IDLE" => gs.phase = "PASSING"
  /\ gs.phase = "DEALING" \/ sg.pass_substate \in {"CARD_SELECT", "EXECUTE"} => Opening(gs)
  /\ sg.pass_substate = "EXECUTE" => game_state_all_passes_ready(gs)
  /\ sg.pass_substate = "TRANSMUTE" => gs.lead_player \in Players

\* Those of the play.
PlayLink ==
  gs.phase = "PLAYING" =>
    /\ sg.play_substate = "WAIT_TURN" => Len(gs.trick) < CardsPerTrick
    /\ sg.play_substate \in {"TRICK_BROADCAST", "TRICK_DONE"} => Len(gs.trick) = CardsPerTrick

RoomOK ==
  /\ slots \in [Players -> SlotStatus]
  /\ is_human \in [Players -> BOOLEAN] /\ force_broadcast \in BOOLEAN
  /\ DOMAIN seen = Players
  /\ stage \in {"net", "grace", "tick", "send", "over", "closed"}

IInv == GoodGame(gs) /\ sg \in ServerGames /\ RoomOK /\ PassLink /\ PlayLink

\* The invariant has the type invariant and the conservation of cards in it.
LEMMA IInvImplies == IInv => TypeOK /\ EveryCardOnce
BY DEF IInv, GoodGame, RoomOK, TypeOK, EveryCardOnce, CardsOnce, HasPlayed, InTrick

\* A step that leaves the game and what the links are about alone.
LEMMA LinksKept ==
  ASSUME IInv, gs' = gs, sg' \in ServerGames, RoomOK',
         sg'.pass_substate = sg.pass_substate, sg'.play_substate = sg.play_substate
  PROVE  IInv'
BY DEF IInv, PassLink, PlayLink, Opening, game_state_all_passes_ready

LEMMA InitGood == Init => IInv
<1> SUFFICES ASSUME Init PROVE IInv
  OBVIOUS
<1>1. PICK hands \in Deals : gs = NewGame(hands)
  BY DEF Init
<1>2. GoodGame(gs) /\ Opening(gs) /\ gs.phase = "DEALING"
  BY <1>1, NewGameGood, DealAssumption
<1>3. sg \in ServerGames
  BY DEF Init, ServerGames, PassSubstates, PlaySubstates, NoSeq, NoPlayer, Players
<1>4. sg.pass_substate = "IDLE"
  BY DEF Init
<1>5. RoomOK
  <2>1. slots \in [Players -> SlotStatus] /\ is_human \in [Players -> BOOLEAN]
    <3>1. \A p \in Players : (p \in Owners) \in BOOLEAN
      OBVIOUS
    <3>2. is_human \in [Players -> BOOLEAN]
      BY <3>1, Zenon DEF Init
    <3>3. slots \in [Players -> SlotStatus]
      BY DEF Init, SlotStatus
    <3> QED
      BY <3>2, <3>3
  <2>2. force_broadcast \in BOOLEAN /\ DOMAIN seen = Players /\ stage = "tick"
    BY DEF Init
  <2> QED
    BY <2>1, <2>2 DEF RoomOK
<1> QED
  BY <1>2, <1>3, <1>4, <1>5 DEF IInv, PassLink, PlayLink

-----------------------------------------------------------------------------
\* The game with other choices for the pass.
LEMMA ChosenGood ==
  ASSUME GoodGame(gs), gs.phase = "PASSING",
         NEW chosen \in [Players -> SUBSET Deck], NEW ready \in [Players -> BOOLEAN],
         \A p \in Players : chosen[p] \subseteq gs.hand[p],
         \A p \in Players : ready[p] => Cardinality(chosen[p]) = gs.pass_card_count,
         gs' = [gs EXCEPT !.pass_selections = chosen, !.pass_ready = ready]
  PROVE  GoodGame(gs') /\ gs'.phase = "PASSING" /\ gs'.hand = gs.hand /\ gs'.pass_ready = ready
<1>1. gs \in GameStates
  BY DEF GoodGame
<1>2. /\ gs' \in GameStates /\ gs'.hand = gs.hand /\ gs'.trick = gs.trick
      /\ gs'.phase = "PASSING" /\ gs'.tricks_played = gs.tricks_played
      /\ gs'.pass_selections = chosen /\ gs'.pass_ready = ready
      /\ gs'.pass_card_count = gs.pass_card_count
  BY <1>1 DEF GameStates
<1>3. ChosenHeld(gs')
  BY <1>2 DEF ChosenHeld
<1> QED
  BY <1>2, <1>3, ChooseGood

(* Commands *)

LEMMA SelectCardGood ==
  ASSUME IInv, NEW p \in Players, NEW card, SelectCard(p, card) PROVE IInv'
<1>1. /\ GoodGame(gs) /\ gs \in GameStates /\ sg \in ServerGames /\ RoomOK /\ PassLink /\ PlayLink
  BY DEF IInv, GoodGame
<1>2. /\ sg.pass_substate = "CARD_SELECT" /\ ~gs.pass_ready[p] /\ card \in gs.hand[p]
      /\ gs.phase = "PASSING" /\ Opening(gs) /\ sg' = sg
  BY <1>1 DEF SelectCard, PassLink
<1>3. gs.hand \in [Players -> SUBSET Deck] /\ gs.pass_selections \in [Players -> SUBSET Deck]
      /\ gs.pass_ready \in [Players -> BOOLEAN] /\ ChosenHeld(gs)
  BY <1>1, <1>2 DEF GoodGame, GameStates, FitsPhase
<1>4. PICK now : /\ now = gs.pass_selections[p] \ {card} \/ now = gs.pass_selections[p] \cup {card}
                 /\ gs' = [gs EXCEPT !.pass_selections[p] = now]
  BY DEF SelectCard
<1> DEFINE chosen == [gs.pass_selections EXCEPT ![p] = now]
<1>5. gs' = [gs EXCEPT !.pass_selections = chosen, !.pass_ready = gs.pass_ready]
  BY <1>1, <1>4 DEF GameStates
<1>6. /\ chosen \in [Players -> SUBSET Deck]
      /\ \A q \in Players : chosen[q] \subseteq gs.hand[q]
      /\ \A q \in Players : gs.pass_ready[q] => chosen[q] = gs.pass_selections[q]
  BY <1>2, <1>3, <1>4 DEF ChosenHeld
<1>7. \A q \in Players : gs.pass_ready[q] => Cardinality(chosen[q]) = gs.pass_card_count
  BY <1>3, <1>6 DEF ChosenHeld
<1> HIDE DEF chosen
<1>8. GoodGame(gs') /\ gs'.phase = "PASSING" /\ gs'.hand = gs.hand
  BY <1>1, <1>2, <1>3, <1>5, <1>6, <1>7, ChosenGood
<1>9. RoomOK'
  BY <1>1 DEF SelectCard, Commands, roomVars, RoomOK
<1>10. PassLink' /\ PlayLink'
  BY <1>2, <1>8 DEF PassLink, PlayLink, Opening
<1> QED
  BY <1>1, <1>2, <1>8, <1>9, <1>10 DEF IInv

LEMMA ConfirmPassGood ==
  ASSUME IInv, NEW p \in Players, ConfirmPass(p) PROVE IInv'
<1>1. /\ GoodGame(gs) /\ gs \in GameStates /\ sg \in ServerGames /\ RoomOK /\ PassLink /\ PlayLink
  BY DEF IInv, GoodGame
<1>2. /\ sg.pass_substate = "CARD_SELECT" /\ gs.phase = "PASSING" /\ Opening(gs) /\ sg' = sg
      /\ Cardinality(gs.pass_selections[p]) = gs.pass_card_count
      /\ gs' = game_state_select_pass(gs, p, gs.pass_selections[p])
  BY <1>1 DEF ConfirmPass, PassLink
<1>3. gs.pass_selections \in [Players -> SUBSET Deck]
      /\ gs.pass_ready \in [Players -> BOOLEAN] /\ ChosenHeld(gs)
  BY <1>1, <1>2 DEF GoodGame, GameStates, FitsPhase
<1> DEFINE ready == [gs.pass_ready EXCEPT ![p] = TRUE]
<1>4. [gs.pass_selections EXCEPT ![p] = gs.pass_selections[p]] = gs.pass_selections
  BY <1>3
<1>5. gs' = [gs EXCEPT !.pass_selections = gs.pass_selections, !.pass_ready = ready]
  BY <1>1, <1>2, <1>4 DEF game_state_select_pass, GameStates
<1>6. ready \in [Players -> BOOLEAN]
      /\ \A q \in Players : ready[q] => q = p \/ gs.pass_ready[q]
  BY <1>3
<1>7. /\ \A q \in Players : gs.pass_selections[q] \subseteq gs.hand[q]
      /\ \A q \in Players : ready[q] => Cardinality(gs.pass_selections[q]) = gs.pass_card_count
  BY <1>2, <1>3, <1>6 DEF ChosenHeld
<1> HIDE DEF ready
<1>8. GoodGame(gs') /\ gs'.phase = "PASSING" /\ gs'.hand = gs.hand
  BY <1>1, <1>2, <1>3, <1>5, <1>6, <1>7, ChosenGood
<1>9. RoomOK'
  BY <1>1 DEF ConfirmPass, Commands, roomVars, RoomOK
<1>10. PassLink' /\ PlayLink'
  BY <1>2, <1>8 DEF PassLink, PlayLink, Opening
<1> QED
  BY <1>1, <1>2, <1>8, <1>9, <1>10 DEF IInv

LEMMA ConfirmScoresGood ==
  ASSUME IInv, NEW p \in Players, ConfirmScores(p) PROVE IInv'
<1>1. sg \in ServerGames /\ RoomOK
  BY DEF IInv
<1>2. sg' = [sg EXCEPT !.scoring_ready[p] = TRUE, !.state_dirty = TRUE] /\ gs' = gs
  BY DEF ConfirmScores
<1>3. [sg.scoring_ready EXCEPT ![p] = TRUE] \in [Players -> BOOLEAN]
  BY <1>1 DEF ServerGames
<1>4. /\ sg' \in ServerGames /\ sg'.pass_substate = sg.pass_substate
      /\ sg'.play_substate = sg.play_substate
  BY <1>1, <1>2, <1>3 DEF ServerGames
<1>5. RoomOK'
  BY <1>1 DEF ConfirmScores, Commands, roomVars, RoomOK
<1> QED
  BY <1>2, <1>4, <1>5, LinksKept

\* The player in turn is one of the four.
LEMMA InTurnIsPlayer ==
  ASSUME GoodGame(gs), gs.phase = "PLAYING", Len(gs.trick) < CardsPerTrick
  PROVE  game_state_current_player(gs) \in Players
<1> DEFINE n == Len(gs.trick)
<1>1. n \in Nat /\ gs.lead_player \in Players
  BY DEF GoodGame, GameStates, FitsPhase
<1>2. n # CardsPerTrick
  BY <1>1, ShortTrick
<1>3. game_state_current_player(gs) = (gs.lead_player + n) % 4
  BY <1>2 DEF game_state_current_player, trick_is_complete
<1> HIDE DEF n
<1>4. (gs.lead_player + n) % 4 \in Players
  BY <1>1 DEF Players
<1> QED
  BY <1>3, <1>4

\* A card of the player in turn is played, by a command, the AI or the timeout.
LEMMA CardPlayed ==
  ASSUME IInv, gs.phase = "PLAYING", sg.play_substate = "WAIT_TURN",
         NEW p \in Players, p = game_state_current_player(gs), NEW card \in gs.hand[p],
         gs' = game_state_play_card(gs, p, card), sg' \in ServerGames, RoomOK',
         sg'.play_substate = AfterPlay(gs'.trick), sg'.pass_substate = sg.pass_substate
  PROVE  IInv'
<1>1. GoodGame(gs) /\ Len(gs.trick) < CardsPerTrick /\ sg.pass_substate = "IDLE"
  BY DEF IInv, PassLink, PlayLink
<1>2. GoodGame(gs') /\ gs'.phase = "PLAYING"
  BY <1>1, PlayGood
<1>3. PassLink'
  BY <1>1, <1>2 DEF PassLink
<1>4. PlayLink'
  <2>1. gs'.trick \in Seq(Play) /\ Len(gs'.trick) <= CardsPerTrick
    BY <1>2 DEF GoodGame, GameStates
  <2> DEFINE n == Len(gs'.trick)
  <2>2. n \in Nat /\ n <= CardsPerTrick
    BY <2>1
  <2>3. sg'.play_substate = IF n = CardsPerTrick THEN "TRICK_BROADCAST" ELSE "WAIT_TURN"
    BY DEF AfterPlay, trick_is_complete
  <2> HIDE DEF n
  <2>4. /\ sg'.play_substate = "WAIT_TURN" => n < CardsPerTrick
        /\ sg'.play_substate \in {"TRICK_BROADCAST", "TRICK_DONE"} => n = CardsPerTrick
    BY <2>2, <2>3 DEF CardsPerTrick
  <2> QED
    BY <2>4 DEF PlayLink, n
<1> QED
  BY <1>2, <1>3, <1>4 DEF IInv

LEMMA PlayCardGood ==
  ASSUME IInv, NEW p \in Players, NEW card, PlayCard(p, card) PROVE IInv'
<1>1. /\ sg \in ServerGames /\ RoomOK /\ card \in gs.hand[p]
      /\ gs.phase = "PLAYING" /\ p = game_state_current_player(gs)
      /\ sg.play_substate = "WAIT_TURN" /\ gs' = game_state_play_card(gs, p, card)
  BY DEF IInv, PlayCard, game_state_is_valid_play, trick_is_valid_play
<1>2. sg' = [sg EXCEPT !.play_substate = AfterPlay(gs'.trick)]
  BY DEF PlayCard
<1>3. AfterPlay(gs'.trick) \in PlaySubstates
  BY DEF AfterPlay, PlaySubstates
<1>4. /\ sg' \in ServerGames /\ sg'.play_substate = AfterPlay(gs'.trick)
      /\ sg'.pass_substate = sg.pass_substate
  BY <1>1, <1>2, <1>3 DEF ServerGames
<1>5. RoomOK'
  BY <1>1 DEF PlayCard, Commands, roomVars, RoomOK
<1> QED
  BY <1>1, <1>4, <1>5, CardPlayed

-----------------------------------------------------------------------------
(* Seats *)

LEMMA LeaveGood ==
  ASSUME IInv, NEW p \in Players, Leave(p) PROVE IInv'
<1>1. sg \in ServerGames /\ RoomOK /\ gs' = gs /\ sg' = sg
  BY DEF IInv, Leave
<1>2. RoomOK'
  BY <1>1 DEF Leave, RoomOK, SlotStatus
<1> QED
  BY <1>1, <1>2, LinksKept

LEMMA ReturnGood ==
  ASSUME IInv, NEW p \in Players, Return(p) PROVE IInv'
<1>1. sg \in ServerGames /\ RoomOK /\ gs' = gs /\ sg' = sg
  BY DEF IInv, Return
<1>2. RoomOK'
  BY <1>1 DEF Return, RoomOK, SlotStatus, Forced
<1> QED
  BY <1>1, <1>2, LinksKept

LEMMA NetDoneGood ==
  ASSUME IInv, NetDone PROVE IInv'
<1>1. sg \in ServerGames /\ RoomOK /\ gs' = gs /\ sg' = sg
  BY DEF IInv, NetDone
<1>2. RoomOK'
  BY <1>1 DEF NetDone, RoomOK, roomVars
<1> QED
  BY <1>1, <1>2, LinksKept

LEMMA GraceGood ==
  ASSUME IInv, Grace PROVE IInv'
<1>1. sg \in ServerGames /\ RoomOK /\ gs' = gs /\ sg' = sg
  BY DEF IInv, Grace
<1>2. PICK expired \in SUBSET {p \in Players : slots[p] = "DISCONNECTED"} :
        /\ slots' = [p \in Players |-> IF p \in expired THEN "AI" ELSE slots[p]]
        /\ is_human' = [p \in Players |-> is_human[p] /\ p \notin expired]
  BY DEF Grace
<1>3. slots' \in [Players -> SlotStatus]
  BY <1>1, <1>2 DEF RoomOK, SlotStatus
<1>4. is_human' \in [Players -> BOOLEAN]
  <2>1. \A p \in Players : (is_human[p] /\ p \notin expired) \in BOOLEAN
    OBVIOUS
  <2> QED
    BY <1>2, <2>1, Zenon
<1>5. force_broadcast' = force_broadcast /\ seen' = seen /\ stage' \in {"closed", "tick"}
  BY DEF Grace, netVars
<1>6. RoomOK'
  BY <1>1, <1>3, <1>4, <1>5 DEF RoomOK
<1> QED
  BY <1>1, <1>6, LinksKept

LEMMA SendGood ==
  ASSUME IInv, Send PROVE IInv'
<1>1. sg \in ServerGames /\ RoomOK /\ gs' = gs
  BY DEF IInv, Send
<1>2. sg' = sg \/ sg' = [sg EXCEPT !.state_dirty = FALSE]
  BY DEF Send
<1>3. /\ sg' \in ServerGames /\ sg'.pass_substate = sg.pass_substate
      /\ sg'.play_substate = sg.play_substate
  BY <1>1, <1>2 DEF ServerGames
<1>4. force_broadcast' \in BOOLEAN /\ DOMAIN seen' = Players /\ stage' \in {"net", "over"}
  BY <1>1 DEF Send, RoomOK
<1>5. RoomOK'
  BY <1>1, <1>4 DEF RoomOK, Send
<1> QED
  BY <1>1, <1>3, <1>5, LinksKept

LEMMA EndedGood ==
  ASSUME IInv, UNCHANGED vars PROVE IInv'
<1>1. sg \in ServerGames /\ RoomOK /\ gs' = gs /\ sg' = sg
  BY DEF IInv, vars
<1>2. RoomOK'
  BY <1>1 DEF vars, RoomOK
<1> QED
  BY <1>1, <1>2, LinksKept

-----------------------------------------------------------------------------
(* server_game_tick *)

\* A tick leaves the seats and what the clients have seen alone.
LEMMA TickRoom ==
  ASSUME RoomOK, Ticks PROVE RoomOK' /\ is_human' = is_human
BY DEF RoomOK, Ticks, roomVars

LEMMA CompSeatsTyped ==
  ASSUME sg \in ServerGames PROVE CompSeats \in [Players -> Players]
BY DEF CompSeats, ServerGames

LEMMA DealNoPassGood ==
  ASSUME IInv, DealNoPass PROVE IInv'
<1>1. /\ GoodGame(gs) /\ gs \in GameStates /\ sg \in ServerGames /\ RoomOK
      /\ Opening(gs) /\ gs.phase = "DEALING"
  BY DEF IInv, GoodGame, PassLink, DealNoPass
<1> DEFINE leader == game_state_find_two_of_clubs(gs.hand)
<1>2. leader \in Players
  BY <1>1 DEF Opening, game_state_find_two_of_clubs
<1>3. gs' = [gs EXCEPT !.pass_direction = "NONE", !.pass_card_count = 0, !.trick = <<>>,
                       !.lead_player = leader, !.phase = "PLAYING"]
  BY DEF DealNoPass
<1> HIDE DEF leader
<1>4. /\ gs' \in GameStates /\ gs'.phase = "PLAYING" /\ gs'.lead_player = leader
      /\ gs'.trick = <<>> /\ gs'.hand = gs.hand /\ gs'.tricks_played = gs.tricks_played
  <2>1. /\ "NONE" \in PassDirections /\ 0 \in {0, PassCardCount} /\ <<>> \in Seq(Play)
        /\ leader \in Players \cup {NoPlayer} /\ "PLAYING" \in Phases
    BY <1>2 DEF PassDirections, Phases
  <2>2. gs' \in GameStates
    BY <1>1, <1>3, <2>1 DEF GameStates
  <2> QED
    BY <1>1, <1>3, <2>2 DEF GameStates
<1>5. GoodGame(gs')
  BY <1>1, <1>2, <1>4, BeginGood
<1>6. /\ sg' \in ServerGames /\ sg'.pass_substate = "IDLE" /\ sg'.play_substate = "WAIT_TURN"
  BY <1>1, CompSeatsTyped DEF DealNoPass, ServerGames, PassSubstates, PlaySubstates
<1>7. RoomOK'
  BY <1>1, TickRoom DEF DealNoPass
<1>8. PassLink' /\ PlayLink'
  BY <1>4, <1>6 DEF PassLink, PlayLink, CardsPerTrick
<1> QED
  BY <1>5, <1>6, <1>7, <1>8 DEF IInv

LEMMA DirectionTyped ==
  ASSUME gs \in GameStates PROVE Direction \in PassDirections
<1>1. gs.round_number \in Nat
  BY DEF GameStates
<1>2. ((gs.round_number - 1) % 4) + 1 \in 1 .. 4
  BY <1>1
<1>3. \A i \in 1 .. 4 : VanillaRotation[i] \in PassDirections
  BY DEF VanillaRotation, PassDirections
<1> QED
  BY <1>2, <1>3 DEF Direction

LEMMA DealPassGood ==
  ASSUME IInv, DealPass PROVE IInv'
<1>1. /\ GoodGame(gs) /\ gs \in GameStates /\ sg \in ServerGames /\ RoomOK
      /\ Opening(gs) /\ gs.phase = "DEALING" /\ FitsPhase(gs)
  BY DEF IInv, GoodGame, PassLink, DealPass
<1>2. gs' = [gs EXCEPT !.pass_direction = Direction, !.pass_card_count = PassCardCount,
                       !.phase = "PASSING"]
  BY DEF DealPass
<1>3. /\ gs' \in GameStates /\ gs'.phase = "PASSING" /\ gs'.hand = gs.hand
      /\ gs'.trick = gs.trick /\ gs'.tricks_played = gs.tricks_played
      /\ gs'.pass_selections = gs.pass_selections /\ gs'.pass_ready = gs.pass_ready
  BY <1>1, <1>2, DirectionTyped DEF GameStates, Phases
<1>4. ChosenHeld(gs')
  BY <1>1, <1>3 DEF FitsPhase, ChosenHeld
<1>5. GoodGame(gs')
  BY <1>1, <1>3, <1>4, ChooseGood
<1>6. PICK delay \in [Players -> 0 .. AiPassTicks] :
        sg' = [sg EXCEPT !.comp_seat = CompSeats, !.pass_substate = "CARD_SELECT",
                         !.pass_phase_timer = 0, !.ai_pass_delay = delay]
  BY DEF DealPass
<1>7. delay \in [Players -> Nat]
  BY <1>6, TimeAssumption
<1>8. sg' \in ServerGames /\ sg'.pass_substate = "CARD_SELECT"
  BY <1>1, <1>6, <1>7, CompSeatsTyped DEF ServerGames, PassSubstates
<1>9. RoomOK'
  BY <1>1, TickRoom DEF DealPass
<1>10. PassLink' /\ PlayLink'
  BY <1>1, <1>3, <1>8 DEF PassLink, PlayLink, Opening
<1> QED
  BY <1>5, <1>8, <1>9, <1>10 DEF IInv

\* Every automatic choice for the pass is of as many cards as the round passes.
LEMMA ChoiceCounts ==
  ASSUME NEW p \in Players, NEW cards \in AiPasses(p) \cup CompPasses(p)
  PROVE  Cardinality(cards) = gs.pass_card_count
BY DEF AiPasses, CompPasses, kSubset

LEMMA TickSelectGood ==
  ASSUME IInv, TickSelect PROVE IInv'
<1>1. /\ GoodGame(gs) /\ gs \in GameStates /\ sg \in ServerGames /\ RoomOK /\ PassLink
      /\ gs.phase = "PASSING" /\ sg.pass_substate = "CARD_SELECT" /\ Opening(gs)
  BY DEF IInv, GoodGame, PassLink, TickSelect
<1>2. /\ gs.hand \in [Players -> SUBSET Deck] /\ gs.pass_selections \in [Players -> SUBSET Deck]
      /\ gs.pass_ready \in [Players -> BOOLEAN] /\ ChosenHeld(gs)
  BY <1>1 DEF GoodGame, GameStates, FitsPhase
<1> DEFINE timer == IF sg.pass_phase_timer > PassTicks THEN sg.pass_phase_timer
                                                       ELSE sg.pass_phase_timer + 1
           choices(p) == IF ~MustPass(p, timer) THEN {{}}
                         ELSE IF Competitive /\ ~is_human[p] THEN CompPasses(p) ELSE AiPasses(p)
<1>3. PICK c0 \in choices(0), c1 \in choices(1), c2 \in choices(2), c3 \in choices(3) :
        LET choice == [p \in Players |-> <<c0, c1, c2, c3>>[p + 1]]
            passes(p) == MustPass(p, timer) /\ CanSelectPass(gs, p, choice[p])
        IN  /\ gs' = [gs EXCEPT !.pass_selections =
                                  [p \in Players |-> IF passes(p) THEN choice[p] ELSE @[p]],
                                !.pass_ready = [p \in Players |-> @[p] \/ passes(p)]]
            /\ sg' = [sg EXCEPT !.pass_phase_timer = timer,
                                !.pass_substate =
                                  IF game_state_all_passes_ready(gs') THEN "EXECUTE" ELSE @]
  BY DEF TickSelect
<1> DEFINE choice == [p \in Players |-> <<c0, c1, c2, c3>>[p + 1]]
           passes(p) == MustPass(p, timer) /\ CanSelectPass(gs, p, choice[p])
           chosen == [p \in Players |-> IF passes(p) THEN choice[p] ELSE gs.pass_selections[p]]
           ready == [p \in Players |-> gs.pass_ready[p] \/ passes(p)]
<1>4. \A p \in Players : choice[p] \in choices(p)
  BY <1>3 DEF Players
<1>5. timer \in Nat
  BY <1>1, TimeAssumption DEF ServerGames
<1> HIDE DEF timer, choice
<1>6. \A p \in Players : passes(p) =>
        choice[p] \subseteq gs.hand[p] /\ Cardinality(choice[p]) = gs.pass_card_count
  <2> SUFFICES ASSUME NEW p \in Players, passes(p)
               PROVE  choice[p] \subseteq gs.hand[p] /\ Cardinality(choice[p]) = gs.pass_card_count
    OBVIOUS
  <2>1. choice[p] \subseteq gs.hand[p]
    BY DEF CanSelectPass
  <2>2. choice[p] \in AiPasses(p) \cup CompPasses(p)
    BY <1>4
  <2> QED
    BY <2>1, <2>2, ChoiceCounts
<1>7. gs' = [gs EXCEPT !.pass_selections = chosen, !.pass_ready = ready]
  BY <1>1, <1>3 DEF choice, GameStates
<1>8. sg' = [sg EXCEPT !.pass_phase_timer = timer,
                       !.pass_substate = IF game_state_all_passes_ready(gs') THEN "EXECUTE"
                                         ELSE "CARD_SELECT"]
  BY <1>1, <1>3
<1>9. /\ chosen \in [Players -> SUBSET Deck]
      /\ \A p \in Players : chosen[p] \subseteq gs.hand[p]
  BY <1>2, <1>6 DEF ChosenHeld
<1>10. ready \in [Players -> BOOLEAN]
  <2>1. \A p \in Players : (gs.pass_ready[p] \/ passes(p)) \in BOOLEAN
    OBVIOUS
  <2> QED
    BY <2>1, Zenon
<1>11. \A p \in Players : ready[p] => Cardinality(chosen[p]) = gs.pass_card_count
  BY <1>2, <1>6 DEF ChosenHeld
<1> HIDE DEF chosen, ready
<1>12. /\ GoodGame(gs') /\ gs'.phase = "PASSING" /\ gs'.hand = gs.hand
  BY <1>1, <1>7, <1>9, <1>10, <1>11, ChosenGood
<1>13. /\ sg' \in ServerGames
       /\ \/ sg'.pass_substate = "EXECUTE" /\ game_state_all_passes_ready(gs')
          \/ sg'.pass_substate = "CARD_SELECT"
  BY <1>1, <1>5, <1>8 DEF ServerGames, PassSubstates
<1>14. RoomOK'
  BY <1>1, TickRoom DEF TickSelect
<1>15. PassLink' /\ PlayLink'
  BY <1>1, <1>12, <1>13 DEF PassLink, PlayLink, Opening
<1> QED
  BY <1>12, <1>13, <1>14, <1>15 DEF IInv

LEMMA TickExecuteGood ==
  ASSUME IInv, TickExecute PROVE IInv'
<1>1. /\ GoodGame(gs) /\ sg \in ServerGames /\ RoomOK /\ gs.phase = "PASSING"
      /\ game_state_all_passes_ready(gs) /\ Opening(gs) /\ gs' = game_state_execute_pass(gs)
  BY DEF IInv, PassLink, TickExecute
<1>2. GoodGame(gs') /\ gs'.phase = "PASSING" /\ gs'.lead_player \in Players
  BY <1>1, ExecuteGood
<1>3. sg' \in ServerGames /\ sg'.pass_substate = "TRANSMUTE"
  BY <1>1 DEF TickExecute, ServerGames, PassSubstates
<1>4. RoomOK'
  BY <1>1, TickRoom DEF TickExecute
<1>5. PassLink' /\ PlayLink'
  BY <1>2, <1>3 DEF PassLink, PlayLink
<1> QED
  BY <1>2, <1>3, <1>4, <1>5 DEF IInv

LEMMA TickTransmuteGood ==
  ASSUME IInv, TickTransmute PROVE IInv'
<1>1. /\ GoodGame(gs) /\ gs \in GameStates /\ sg \in ServerGames /\ RoomOK
      /\ gs.phase = "PASSING" /\ gs.lead_player \in Players /\ gs.trick = <<>>
  BY DEF IInv, GoodGame, FitsPhase, PassLink, TickTransmute
<1>2. /\ gs' \in GameStates /\ gs'.phase = "PLAYING" /\ gs'.lead_player = gs.lead_player
      /\ gs'.trick = <<>> /\ gs'.hand = gs.hand /\ gs'.tricks_played = gs.tricks_played
  BY <1>1 DEF TickTransmute, GameStates, Phases
<1>3. GoodGame(gs')
  BY <1>1, <1>2, BeginGood
<1>4. sg' \in ServerGames /\ sg'.pass_substate = "IDLE" /\ sg'.play_substate = "WAIT_TURN"
  BY <1>1 DEF TickTransmute, ServerGames, PassSubstates, PlaySubstates
<1>5. RoomOK'
  BY <1>1, TickRoom DEF TickTransmute
<1>6. PassLink' /\ PlayLink'
  BY <1>2, <1>4 DEF PassLink, PlayLink, CardsPerTrick
<1> QED
  BY <1>3, <1>4, <1>5, <1>6 DEF IInv

\* The clock of the player in turn.
LEMMA ClockTyped ==
  ASSUME sg \in ServerGames, gs \in GameStates, game_state_current_player(gs) \in Players
  PROVE  /\ OnTheClock \in ServerGames /\ OnTheClock.play_substate = sg.play_substate
         /\ OnTheClock.pass_substate = sg.pass_substate
<1>1. WinnerShown \in Players \cup {NoPlayer} /\ TurnTicks \in Nat
  BY TimeAssumption DEF WinnerShown, ServerGames
<1>2. TurnSeq \in Seq(Int)
  <2>1. gs.tricks_played \in Int /\ Len(gs.trick) \in Int /\ game_state_current_player(gs) \in Int
    BY DEF GameStates, Players
  <2> QED
    BY <2>1 DEF TurnSeq
<1> QED
  BY <1>1, <1>2 DEF OnTheClock, ServerGames

\* Automatic cards are held by the player they are chosen for.
LEMMA AiCardsHeld ==
  ASSUME NEW p \in Players
  PROVE  AutoCards(p) \subseteq gs.hand[p] /\ AiCards(p) \subseteq gs.hand[p]
BY DEF AutoCards, AiCards, Legal, FirstCard

\* The state of the play while a player is on the clock.
LEMMA Waiting ==
  ASSUME IInv, WaitTurn
  PROVE  /\ GoodGame(gs) /\ gs \in GameStates /\ sg \in ServerGames /\ RoomOK /\ RoomOK'
         /\ gs.phase = "PLAYING" /\ sg.play_substate = "WAIT_TURN"
         /\ game_state_current_player(gs) \in Players
<1>1. /\ GoodGame(gs) /\ gs \in GameStates /\ sg \in ServerGames /\ RoomOK /\ PlayLink
      /\ gs.phase = "PLAYING" /\ sg.play_substate = "WAIT_TURN" /\ Ticks
  BY DEF IInv, GoodGame, WaitTurn
<1> QED
  BY <1>1, InTurnIsPlayer, TickRoom DEF PlayLink

LEMMA AfterPlayTyped == \A trick : AfterPlay(trick) \in PlaySubstates
BY DEF AfterPlay, PlaySubstates

LEMMA TickHumanGood ==
  ASSUME IInv, TickHuman PROVE IInv'
<1> DEFINE current == game_state_current_player(gs)
           clock == OnTheClock.turn_timer - 1
<1>1. WaitTurn
  BY DEF TickHuman
<1>2. /\ gs \in GameStates /\ sg \in ServerGames /\ RoomOK' /\ current \in Players
      /\ gs.phase = "PLAYING" /\ sg.play_substate = "WAIT_TURN"
  BY <1>1, Waiting
<1>3. /\ OnTheClock \in ServerGames /\ OnTheClock.play_substate = sg.play_substate
      /\ OnTheClock.pass_substate = sg.pass_substate
  BY <1>2, ClockTyped
<1>4. CASE clock > 0 /\ sg' = [OnTheClock EXCEPT !.turn_timer = clock] /\ gs' = gs
  <2>1. clock \in Nat
    BY <1>3, <1>4 DEF ServerGames
  <2>2. /\ sg' \in ServerGames /\ sg'.play_substate = sg.play_substate
        /\ sg'.pass_substate = sg.pass_substate
    BY <1>3, <1>4, <2>1 DEF ServerGames
  <2> QED
    BY <1>2, <1>4, <2>2, LinksKept
<1>5. CASE /\ \E card \in AutoCards(current) : gs' = game_state_play_card(gs, current, card)
           /\ sg' = [OnTheClock EXCEPT !.turn_timer = 0, !.state_dirty = TRUE,
                                       !.play_substate = AfterPlay(gs'.trick)]
  <2>1. PICK card \in gs.hand[current] : gs' = game_state_play_card(gs, current, card)
    BY <1>2, <1>5, AiCardsHeld
  <2>2. /\ sg' \in ServerGames /\ sg'.play_substate = AfterPlay(gs'.trick)
        /\ sg'.pass_substate = sg.pass_substate
    BY <1>3, <1>5, AfterPlayTyped DEF ServerGames
  <2> QED
    BY <1>2, <2>1, <2>2, CardPlayed
<1> QED
  BY <1>4, <1>5 DEF TickHuman

LEMMA TickAIGood ==
  ASSUME IInv, TickAI PROVE IInv'
<1> DEFINE current == game_state_current_player(gs)
<1>1. WaitTurn
  BY DEF TickAI
<1>2. /\ gs \in GameStates /\ sg \in ServerGames /\ RoomOK' /\ current \in Players
      /\ gs.phase = "PLAYING" /\ sg.play_substate = "WAIT_TURN"
  BY <1>1, Waiting
<1>3. /\ OnTheClock \in ServerGames /\ OnTheClock.play_substate = sg.play_substate
      /\ OnTheClock.pass_substate = sg.pass_substate
  BY <1>2, ClockTyped
<1>4. PICK left \in IF sg.ai_play_left = -1 THEN 0 .. AiPlayTicks ELSE {sg.ai_play_left} :
        \/ /\ left > 0
           /\ sg' = [OnTheClock EXCEPT !.ai_play_left = left - 1]
           /\ gs' = gs
        \/ /\ left = 0
           /\ \E card \in AiCards(current) : gs' = game_state_play_card(gs, current, card)
           /\ sg' = [OnTheClock EXCEPT !.ai_play_left = -1,
                                       !.play_substate = AfterPlay(gs'.trick)]
  BY DEF TickAI
<1>5. left \in Int
  BY <1>2, TimeAssumption DEF ServerGames
<1> DEFINE fewer == left - 1
           none == -1
<1>6. fewer \in Int /\ none \in Int
  BY <1>5
<1> HIDE DEF fewer, none
<1>7. CASE sg' = [OnTheClock EXCEPT !.ai_play_left = fewer] /\ gs' = gs
  <2>1. /\ sg' \in ServerGames /\ sg'.play_substate = sg.play_substate
        /\ sg'.pass_substate = sg.pass_substate
    BY <1>3, <1>6, <1>7 DEF ServerGames
  <2> QED
    BY <1>2, <1>7, <2>1, LinksKept
<1>8. CASE /\ \E card \in AiCards(current) : gs' = game_state_play_card(gs, current, card)
           /\ sg' = [OnTheClock EXCEPT !.ai_play_left = none,
                                       !.play_substate = AfterPlay(gs'.trick)]
  <2>1. PICK card \in gs.hand[current] : gs' = game_state_play_card(gs, current, card)
    BY <1>2, <1>8, AiCardsHeld
  <2>2. /\ sg' \in ServerGames /\ sg'.play_substate = AfterPlay(gs'.trick)
        /\ sg'.pass_substate = sg.pass_substate
    BY <1>3, <1>8, <1>6, AfterPlayTyped DEF ServerGames
  <2> QED
    BY <1>2, <2>1, <2>2, CardPlayed
<1> QED
  BY <1>4, <1>7, <1>8 DEF fewer, none

LEMMA TickBroadcastGood ==
  ASSUME IInv, TickBroadcast PROVE IInv'
<1>1. /\ GoodGame(gs) /\ sg \in ServerGames /\ RoomOK' /\ gs' = gs /\ gs.phase = "PLAYING"
      /\ PassLink /\ Len(gs.trick) = CardsPerTrick
  BY TickRoom DEF IInv, PlayLink, TickBroadcast
<1>2. /\ sg' \in ServerGames /\ sg'.pass_substate = sg.pass_substate
      /\ sg'.play_substate = "TRICK_DONE"
  BY <1>1 DEF TickBroadcast, ServerGames, PlaySubstates
<1>3. PassLink' /\ PlayLink'
  BY <1>1, <1>2 DEF PassLink, PlayLink, Opening
<1> QED
  BY <1>1, <1>2, <1>3 DEF IInv

LEMMA TickTrickDoneGood ==
  ASSUME IInv, TickTrickDone PROVE IInv'
<1>1. /\ GoodGame(gs) /\ sg \in ServerGames /\ RoomOK' /\ gs.phase = "PLAYING"
      /\ sg.pass_substate = "IDLE" /\ Len(gs.trick) = CardsPerTrick /\ gs.trick \in Seq(Play)
      /\ gs' = game_state_complete_trick(gs)
  BY TickRoom DEF IInv, PassLink, PlayLink, TickTrickDone, GoodGame, GameStates
<1>2. /\ GoodGame(gs')
      /\ \/ gs'.phase = "PLAYING" /\ gs'.trick = <<>>
         \/ gs'.phase = "SCORING"
  BY <1>1, CompleteGood
<1> DEFINE winner == trick_get_winner(gs.trick)
<1>3. winner \in Players \cup {NoPlayer}
  BY <1>1, WinnerIsPlayer
<1>4. sg' = [sg EXCEPT !.last_trick_winner = winner, !.state_dirty = TRUE,
                       !.play_substate = IF gs'.phase = "PLAYING" THEN "WAIT_TURN" ELSE "IDLE"]
  BY DEF TickTrickDone
<1> HIDE DEF winner
<1>5. /\ sg' \in ServerGames /\ sg'.pass_substate = "IDLE"
      /\ sg'.play_substate \in {"WAIT_TURN", "IDLE"}
  BY <1>1, <1>3, <1>4 DEF ServerGames, PlaySubstates
<1>6. PassLink' /\ PlayLink'
  BY <1>2, <1>5 DEF PassLink, PlayLink, CardsPerTrick
<1> QED
  BY <1>1, <1>2, <1>5, <1>6 DEF IInv

LEMMA TickEvaluateGood ==
  ASSUME IInv, TickEvaluate PROVE IInv'
<1>1. sg \in ServerGames /\ RoomOK' /\ gs' = gs
  BY TickRoom DEF IInv, TickEvaluate
<1>2. [p \in Players |-> FALSE] \in [Players -> BOOLEAN]
  OBVIOUS
<1>3. /\ sg' \in ServerGames /\ sg'.play_substate = sg.play_substate
      /\ sg'.pass_substate = sg.pass_substate
  BY <1>1, <1>2 DEF TickEvaluate, ServerGames
<1> QED
  BY <1>1, <1>3, LinksKept

LEMMA TickScoresWaitGood ==
  ASSUME IInv, TickScoresWait PROVE IInv'
<1>1. sg \in ServerGames /\ RoomOK' /\ gs' = gs
  BY TickRoom DEF IInv, TickScoresWait
<1> DEFINE timer == IF sg.scoring_wait_timer < ScoringTicks THEN sg.scoring_wait_timer + 1
                                                            ELSE sg.scoring_wait_timer
<1>2. timer \in Nat
  BY <1>1 DEF ServerGames
<1>3. sg' = [sg EXCEPT !.scoring_wait_timer = timer]
  BY <1>1 DEF TickScoresWait, ServerGames
<1> HIDE DEF timer
<1>4. /\ sg' \in ServerGames /\ sg'.play_substate = sg.play_substate
      /\ sg'.pass_substate = sg.pass_substate
  BY <1>1, <1>2, <1>3 DEF ServerGames
<1> QED
  BY <1>1, <1>4, LinksKept

LEMMA TickAdvanceGood ==
  ASSUME IInv, TickAdvance PROVE IInv'
<1>1. /\ GoodGame(gs) /\ sg \in ServerGames /\ RoomOK' /\ gs.phase = "SCORING"
  BY TickRoom DEF IInv, TickAdvance
<1>2. PICK hands \in Dealings : gs' = game_state_advance_scoring(gs, hands)
  BY DealAssumption DEF TickAdvance
<1>3. GoodGame(gs') /\ (gs'.phase = "GAME_OVER" \/ (gs'.phase = "DEALING" /\ Opening(gs')))
  BY <1>1, <1>2, AdvanceGood
<1>4. (gs'.phase # "GAME_OVER") \in BOOLEAN
  OBVIOUS
<1>5. sg' \in ServerGames /\ sg'.pass_substate = "IDLE" /\ sg'.play_substate = "IDLE"
  BY <1>1, <1>4 DEF TickAdvance, ServerGames, PassSubstates, PlaySubstates
<1>6. PassLink' /\ PlayLink'
  BY <1>3, <1>5 DEF PassLink, PlayLink
<1> QED
  BY <1>1, <1>3, <1>5, <1>6 DEF IInv

-----------------------------------------------------------------------------
(* The theorems *)

LEMMA NextGood == IInv /\ [Next]_vars => IInv'
<1> SUFFICES ASSUME IInv, [Next]_vars PROVE IInv'
  OBVIOUS
<1>1. ASSUME NEW p \in Players, NEW card, SelectCard(p, card) PROVE IInv'
  BY <1>1, SelectCardGood
<1>2. ASSUME NEW p \in Players, NEW card, PlayCard(p, card) PROVE IInv'
  BY <1>2, PlayCardGood
<1>3. ASSUME NEW p \in Players, ConfirmPass(p) \/ ConfirmScores(p) PROVE IInv'
  BY <1>3, ConfirmPassGood, ConfirmScoresGood
<1>4. CASE Commanded
  BY <1>1, <1>2, <1>3, <1>4 DEF Commanded
<1>5. CASE Seating
  BY <1>5, LeaveGood, ReturnGood DEF Seating
<1>6. CASE NetDone \/ Grace \/ Send
  BY <1>6, NetDoneGood, GraceGood, SendGood
<1>7. CASE Tick
  <2>1. CASE DealNoPass \/ DealPass \/ TickSelect \/ TickExecute \/ TickTransmute
    BY <2>1, DealNoPassGood, DealPassGood, TickSelectGood, TickExecuteGood, TickTransmuteGood
  <2>2. CASE TickHuman \/ TickAI \/ TickBroadcast \/ TickTrickDone
    BY <2>2, TickHumanGood, TickAIGood, TickBroadcastGood, TickTrickDoneGood
  <2>3. CASE TickEvaluate \/ TickScoresWait \/ TickAdvance
    BY <2>3, TickEvaluateGood, TickScoresWaitGood, TickAdvanceGood
  <2> QED
    BY <1>7, <2>1, <2>2, <2>3 DEF Tick
<1>8. CASE UNCHANGED vars
  BY <1>8, EndedGood
<1> QED
  BY <1>4, <1>5, <1>6, <1>7, <1>8 DEF Next, Loop, Ended

LEMMA Inductive == Spec => []IInv
BY InitGood, NextGood, PTL DEF Spec

\* Every state of the server's game has the types of ServerGame and core/game_state.h,
\* with never more than four cards in a trick.
THEOREM TypeCorrect == Spec => []TypeOK
BY Inductive, IInvImplies, PTL

\* No interleaving of commands, drops, AI takeovers and timeouts loses or doubles a card
\* of the deck, from the deal of a round to its last trick.
THEOREM CardsAreKept == Spec => []EveryCardOnce
BY Inductive, IInvImplies, PTL

-----------------------------------------------------------------------------
(* What is confirmed *)

LEMMA ConfirmedStep ==
  ASSUME IInv, [Next]_vars, NEW p \in Players, gs.pass_ready[p], gs'.pass_ready[p]
  PROVE  gs'.pass_selections[p] = gs.pass_selections[p]
<1>1. gs \in GameStates /\ gs.pass_selections \in [Players -> SUBSET Deck]
  BY DEF IInv, GoodGame, GameStates
<1>2. ASSUME NEW q \in Players, NEW card, SelectCard(q, card)
      PROVE  gs'.pass_selections[p] = gs.pass_selections[p]
  BY <1>1, <1>2 DEF SelectCard, GameStates
<1>3. ASSUME NEW q, NEW card, gs' = game_state_play_card(gs, q, card)
      PROVE  gs'.pass_selections = gs.pass_selections
  BY <1>1, <1>3 DEF game_state_play_card, GameStates
<1>4. ASSUME NEW q \in Players, ConfirmPass(q)
      PROVE  gs'.pass_selections[p] = gs.pass_selections[p]
  BY <1>1, <1>4 DEF ConfirmPass, game_state_select_pass, GameStates
<1>5. CASE Commanded
  BY <1>2, <1>3, <1>4, <1>5 DEF Commanded, PlayCard, ConfirmScores
<1>6. CASE DealNoPass \/ DealPass
  BY <1>1, <1>6 DEF DealNoPass, DealPass, GameStates
<1>7. CASE TickSelect
  BY <1>1, <1>7 DEF TickSelect, MustPass, GameStates
<1>8. CASE TickExecute
  <2>1. gs'.pass_ready = [q \in Players |-> FALSE]
    BY <1>1, <1>8 DEF TickExecute, game_state_execute_pass, GameStates
  <2> QED
    BY <2>1
<1>9. CASE TickTransmute
  BY <1>1, <1>9 DEF TickTransmute, GameStates
<1>10. CASE TickHuman \/ TickAI
  BY <1>3, <1>10 DEF TickHuman, TickAI
<1>11. CASE TickTrickDone
  <2>1. gs'.pass_selections = gs.pass_selections
    BY <1>1, <1>11 DEF TickTrickDone, game_state_complete_trick,
                       game_state_complete_trick_with, GameStates
  <2> QED
    BY <2>1
<1>12. CASE TickAdvance
  <2>1. PICK hands \in Deals : gs' = game_state_advance_scoring(gs, hands)
    BY <1>12 DEF TickAdvance
  <2>2. CASE game_state_is_game_over(gs)
    BY <1>1, <2>1, <2>2 DEF game_state_advance_scoring, GameStates
  <2>3. CASE ~game_state_is_game_over(gs)
    <3>1. gs'.pass_ready = [q \in Players |-> FALSE]
      BY <1>1, <2>1, <2>3 DEF game_state_advance_scoring, game_state_new_round, GameStates
    <3> QED
      BY <3>1
  <2> QED
    BY <2>2, <2>3
<1>13. CASE gs' = gs
  BY <1>13
<1> QED
  BY <1>5, <1>6, <1>7, <1>8, <1>9, <1>10, <1>11, <1>12, <1>13
     DEF Next, Loop, Tick, Seating, Leave, Return, NetDone, Grace, Send, Ended, vars,
         TickBroadcast, TickEvaluate, TickScoresWait

\* Once confirmed, a pass is not changed: not by a command that comes late, not by the AI
\* that takes over the seat, not by the timeout.
THEOREM PassIsKept == Spec => ConfirmedPassIsKept
<1>1. IInv /\ [Next]_vars =>
        [\A p \in Players : gs.pass_ready[p] /\ gs'.pass_ready[p]
                              => gs'.pass_selections[p] = gs.pass_selections[p]]_gs
  BY ConfirmedStep
<1> QED
  BY <1>1, Inductive, PTL DEF Spec, ConfirmedPassIsKept

-----------------------------------------------------------------------------
(* What the clients have been told. Inf is inductive together with IInv: what a   *)
(* client has differs from the game only where the change detector will see it.   *)

Late == sg.pass_substate \in {"EXECUTE", "TRANSMUTE"}

\* A client with no update will be sent one: somebody is back, or it is the first tick.
Awaits(p) ==
  /\ seen[p] = NotSeen
  /\ force_broadcast \/ (stage \in {"tick", "send"} /\ last_broadcast.phase = "NONE")

\* Before a tick, plays are all that has happened since the update ...
BeforeTick(p) ==
  /\ sg.play_substate = "TRICK_DONE" => seen[p].trick = gs.trick
  /\ ~sg.state_dirty =>
       /\ last_broadcast.phase = gs.phase /\ last_broadcast.num_played <= Len(gs.trick)
       /\ last_broadcast.num_played = Len(gs.trick) /\ ~Late => ShowsAll(seen[p], View(p))

\* ... and after it, what the detector does not see is nothing.
AfterTick(p) == ~Changed /\ ~Late => ShowsAll(seen[p], View(p))

Told(p) == Awaits(p) \/ IF stage = "send" THEN AfterTick(p) ELSE BeforeTick(p)

Inf ==
  /\ \A p \in Players \ Connected : seen[p] = NotSeen
  /\ sg.play_substate = "TRICK_DONE" => gs.phase = "PLAYING"
  /\ last_broadcast.num_played \in Nat
  /\ \A p \in Connected : Told(p)

\* Two states of the game that are shown alike.
ShownAlike ==
  /\ gs'.phase = gs.phase /\ gs'.round_number = gs.round_number
  /\ gs'.pass_direction = gs.pass_direction /\ gs'.pass_card_count = gs.pass_card_count
  /\ gs'.lead_player = gs.lead_player /\ gs'.hearts_broken = gs.hearts_broken
  /\ gs'.tricks_played = gs.tricks_played /\ gs'.hand = gs.hand
  /\ gs'.round_points = gs.round_points /\ gs'.total_score = gs.total_score
  /\ gs'.trick = gs.trick
  /\ sg'.pass_substate = sg.pass_substate
  /\ sg'.last_trick_winner = sg.last_trick_winner \/ gs.trick = <<>>

LEMMA ShownTheSame ==
  ASSUME ShownAlike, NEW p \in Players, NEW update, ShowsAll(update, View(p))
  PROVE  ShowsAll(update, View(p)')
<1> DEFINE w == sg'.last_trick_winner
<1>1. View(p)' = [View(p) EXCEPT !.trick_winner = w]
  BY DEF ShownAlike, View, Detected, game_state_current_player
<1>2. /\ View(p).trick = gs.trick /\ View(p)'.trick = gs.trick
      /\ View(p).trick_winner = sg.last_trick_winner /\ View(p)'.trick_winner = w
  BY DEF ShownAlike, View
<1> DEFINE v == View(p)
<1>3. PICK v0 : v0 = v
  OBVIOUS
<1>4. PICK w0 : w0 = w
  OBVIOUS
<1> HIDE DEF v, w
<1>5. PICK winner \in Players \cup {NoPlayer} :
        /\ update = [v0 EXCEPT !.trick_winner = winner]
        /\ v0.trick # <<>> => winner = v0.trick_winner
  BY <1>3 DEF ShowsAll, v
<1>6. update = [[v0 EXCEPT !.trick_winner = w0] EXCEPT !.trick_winner = winner]
  BY <1>5
<1>7. View(p)'.trick # <<>> => winner = w0
  BY <1>2, <1>3, <1>4, <1>5 DEF ShownAlike, v, w
<1>8. View(p)' = [v0 EXCEPT !.trick_winner = w0]
  BY <1>1, <1>3, <1>4 DEF v, w
<1>9. update = [View(p)' EXCEPT !.trick_winner = winner]
  BY <1>6, <1>8
<1>10. (View(p)').trick_winner = w0
  BY <1>2, <1>4
<1> QED
  BY <1>7, <1>9, <1>10 DEF ShowsAll

LEMMA InfInit == Init => Inf
<1> SUFFICES ASSUME Init PROVE Inf
  OBVIOUS
<1>1. /\ stage = "tick" /\ last_broadcast.phase = "NONE" /\ last_broadcast.num_played = 0
      /\ sg.play_substate = "IDLE" /\ \A p \in Players : seen[p] = NotSeen
  BY DEF Init
<1>2. \A p \in Connected : p \in Players
  BY DEF Connected
<1> QED
  BY <1>1, <1>2 DEF Inf, Told, Awaits

\* A tick: it tells the detector, or nobody needs to be told.
LEMMA TickTold ==
  ASSUME Inf, Ticks, gs.phase # "NONE", sg.state_dirty => sg'.state_dirty,
         \/ sg'.state_dirty
         \/ gs'.phase # gs.phase
         \/ Len(gs.trick) < Len(gs'.trick) /\ Len(gs.trick) \in Nat /\ Len(gs'.trick) \in Nat
         \/ Late'
         \/ ShownAlike,
         sg'.play_substate = "TRICK_DONE" => gs'.phase = "PLAYING"
  PROVE  Inf'
<1>1. /\ stage = "tick" /\ stage' = "send" /\ slots' = slots /\ seen' = seen
      /\ force_broadcast' = force_broadcast /\ last_broadcast' = last_broadcast
  BY DEF Ticks, roomVars
<1>2. Connected' = Connected
  BY <1>1 DEF Connected
<1>3. ASSUME NEW p \in Connected PROVE Told(p)'
  <2>1. Told(p) /\ p \in Players
    BY DEF Inf, Connected
  <2>2. Awaits(p) => Awaits(p)'
    BY <1>1 DEF Awaits
  <2>3. ASSUME ~Awaits(p), ~Changed', ~Late' PROVE ShowsAll(seen[p], View(p)')
    <3>1. ~sg'.state_dirty /\ ~sg.state_dirty /\ Detected' = last_broadcast
      BY <1>1, <2>3 DEF Changed
    <3>2. BeforeTick(p)
      BY <1>1, <2>1, <2>3 DEF Told
    <3>3. /\ last_broadcast.phase = gs.phase /\ last_broadcast.num_played <= Len(gs.trick)
          /\ last_broadcast.num_played = Len(gs.trick) /\ ~Late => ShowsAll(seen[p], View(p))
      BY <3>1, <3>2 DEF BeforeTick
    <3>4. gs'.phase = last_broadcast.phase /\ Len(gs'.trick) = last_broadcast.num_played
      BY <3>1 DEF Detected
    <3>5. ShownAlike
      BY <2>3, <3>1, <3>3, <3>4
    <3>6. ~Late /\ gs'.trick = gs.trick
      BY <2>3, <3>5 DEF ShownAlike, Late
    <3> QED
      BY <2>1, <3>3, <3>4, <3>5, <3>6, ShownTheSame
  <2>4. AfterTick(p)' \/ Awaits(p)
    BY <2>3, <1>1 DEF AfterTick
  <2> QED
    BY <1>1, <2>2, <2>4 DEF Told
<1> QED
  BY <1>1, <1>2, <1>3 DEF Inf

\* A command that changes nothing that is shown, and a play.
LEMMA CommandTold ==
  ASSUME Inf, NEW q \in Players, Commands(q),
         sg.state_dirty => sg'.state_dirty,
         \/ ShownAlike /\ gs'.trick = gs.trick /\ sg'.play_substate = sg.play_substate
         \/ /\ gs'.phase = gs.phase /\ sg'.play_substate # "TRICK_DONE"
            /\ Len(gs.trick) < Len(gs'.trick) /\ Len(gs.trick) \in Nat /\ Len(gs'.trick) \in Nat
  PROVE  Inf'
<1>1. /\ stage = "net" /\ stage' = stage /\ slots' = slots /\ seen' = seen
      /\ force_broadcast' = force_broadcast /\ last_broadcast' = last_broadcast
  BY DEF Commands, roomVars
<1>2. Connected' = Connected
  BY <1>1 DEF Connected
<1>3. ASSUME NEW p \in Connected PROVE Told(p)'
  <2>1. Told(p) /\ p \in Players /\ last_broadcast.num_played \in Nat
    BY DEF Inf, Connected
  <2>2. Awaits(p) => Awaits(p)'
    BY <1>1 DEF Awaits
  <2>3. ASSUME ~Awaits(p) PROVE BeforeTick(p)'
    <3>1. BeforeTick(p)
      BY <1>1, <2>1, <2>3 DEF Told
    <3>2. CASE ShownAlike /\ gs'.trick = gs.trick /\ sg'.play_substate = sg.play_substate
      <4>1. Late' = Late /\ gs'.phase = gs.phase
        BY <3>2 DEF Late, ShownAlike
      <4>2. ShowsAll(seen[p], View(p)) => ShowsAll(seen[p], View(p)')
        BY <2>1, <3>2, ShownTheSame
      <4> QED
        BY <1>1, <3>1, <3>2, <4>1, <4>2 DEF BeforeTick
    <3>3. CASE /\ gs'.phase = gs.phase /\ sg'.play_substate # "TRICK_DONE"
               /\ Len(gs.trick) < Len(gs'.trick) /\ Len(gs.trick) \in Nat
               /\ Len(gs'.trick) \in Nat
      <4>1. ~sg'.state_dirty => /\ last_broadcast.phase = gs.phase
                                /\ last_broadcast.num_played <= Len(gs.trick)
        BY <3>1 DEF BeforeTick
      <4>2. ~sg'.state_dirty => /\ last_broadcast.num_played <= Len(gs'.trick)
                                /\ last_broadcast.num_played # Len(gs'.trick)
        BY <2>1, <3>3, <4>1
      <4> QED
        BY <1>1, <3>3, <4>1, <4>2 DEF BeforeTick
    <3> QED
      BY <3>2, <3>3
  <2> QED
    BY <1>1, <2>2, <2>3 DEF Told
<1>4. sg'.play_substate = "TRICK_DONE" => gs'.phase = "PLAYING"
  BY DEF Inf, ShownAlike
<1> QED
  BY <1>1, <1>2, <1>3, <1>4 DEF Inf

\* Steps of the room.
LEMMA SeatingTold ==
  ASSUME Inf, RoomOK, Seating \/ NetDone \/ Grace \/ UNCHANGED vars PROVE Inf'
<1>1. /\ gs' = gs /\ sg' = sg /\ last_broadcast' = last_broadcast
      /\ force_broadcast => force_broadcast'
      /\ stage' # "send" \/ stage' = stage
      /\ stage = "send" => stage' = "send"
      /\ stage # "net" /\ stage # "grace" => stage' = stage
  BY DEF Seating, Leave, Return, NetDone, Grace, roomVars, netVars, vars, Forced
<1>2. \A p \in Players : View(p)' = View(p)
  BY <1>1 DEF View, Detected
<1>3. Late' = Late
  BY <1>1 DEF Late
<1>4. ASSUME NEW p \in Players, slots'[p] = "CONNECTED", slots[p] = "CONNECTED"
      PROVE  seen'[p] = seen[p]
  BY <1>4 DEF Seating, Leave, Return, NetDone, Grace, roomVars, netVars, vars, RoomOK
<1>5. ASSUME NEW p \in Players, slots'[p] = "CONNECTED", slots[p] # "CONNECTED"
      PROVE  force_broadcast' /\ seen'[p] = NotSeen
  BY <1>5 DEF Seating, Leave, Return, NetDone, Grace, roomVars, netVars, vars, RoomOK, Forced,
              Inf, Connected
<1>6. ASSUME NEW p \in Players, slots'[p] # "CONNECTED" PROVE seen'[p] = NotSeen
  BY <1>6 DEF Seating, Leave, Return, NetDone, Grace, roomVars, netVars, vars, RoomOK, Forced,
              Inf, Connected
<1>7. ASSUME NEW p \in Players, slots'[p] = "CONNECTED" PROVE Told(p)'
  <2>1. CASE slots[p] # "CONNECTED"
    BY <1>5, <1>7, <2>1 DEF Told, Awaits
  <2>2. CASE slots[p] = "CONNECTED"
    <3>1. seen'[p] = seen[p] /\ Told(p)
      BY <1>4, <1>7, <2>2 DEF Inf, Connected
    <3>2. Awaits(p) => Awaits(p)'
      BY <1>1, <3>1 DEF Awaits
    <3>3. ASSUME ~Awaits(p), stage' = "send" PROVE AfterTick(p)'
      BY <1>1, <1>2, <1>3, <3>1, <3>3 DEF Told, AfterTick, Changed, Detected
    <3>4. ASSUME ~Awaits(p), stage' # "send" PROVE BeforeTick(p)'
      BY <1>1, <1>2, <1>3, <3>1, <3>4 DEF Told, BeforeTick
    <3> QED
      BY <3>1, <3>2, <3>3, <3>4 DEF Told
  <2> QED
    BY <2>1, <2>2
<1> QED
  BY <1>1, <1>6, <1>7 DEF Inf, Connected

\* A view shows all there is in it.
LEMMA ViewShowsAll ==
  ASSUME sg \in ServerGames, NEW p \in Players PROVE ShowsAll(View(p), View(p))
<1>1. View(p).trick_winner \in Players \cup {NoPlayer}
  BY DEF View, ServerGames
<1>2. View(p) = [View(p) EXCEPT !.trick_winner = View(p).trick_winner]
  BY DEF View
<1> QED
  BY <1>1, <1>2 DEF ShowsAll

LEMMA PhaseNamed == IInv => gs.phase \in Phases /\ gs.trick \in Seq(Play)
BY DEF IInv, GoodGame, GameStates

\* The update: who is connected has the state of the game now, if not already.
LEMMA SendTells ==
  ASSUME Inf, IInv, Send, NEW p \in Connected
  PROVE  \/ /\ Changed /\ seen'[p] = View(p) /\ last_broadcast' = Detected
         \/ /\ ~Changed /\ seen'[p] = seen[p]
            /\ last_broadcast' = last_broadcast /\ sg' = sg
            /\ ~Late => ShowsAll(seen[p], View(p))
<1>1. stage = "send" /\ p \in Players /\ Told(p)
  BY DEF Send, Inf, Connected
<1>2. CASE Changed
  BY <1>1, <1>2 DEF Send
<1>3. CASE ~Changed
  <2>1. gs.phase # "NONE"
    BY PhaseNamed DEF Phases
  <2>2. last_broadcast.phase # "NONE" /\ ~force_broadcast
    BY <1>3, <2>1 DEF Changed, Detected
  <2>3. ~Late => ShowsAll(seen[p], View(p))
    BY <1>1, <1>3, <2>2 DEF Told, Awaits, AfterTick
  <2> QED
    BY <1>3, <2>3 DEF Send
<1> QED
  BY <1>2, <1>3

\* What an update shows and what is kept of the server are the same before and after it.
LEMMA SendShown ==
  ASSUME IInv, Send
  PROVE  /\ gs' = gs /\ slots' = slots /\ stage' \in {"net", "over"} /\ Connected' = Connected
         /\ sg'.pass_substate = sg.pass_substate /\ sg'.play_substate = sg.play_substate
         /\ Late' = Late /\ \A p \in Players : View(p)' = View(p)
<1>1. gs' = gs /\ slots' = slots /\ stage' \in {"net", "over"} /\ sg \in ServerGames
  BY DEF Send, IInv
<1>2. sg' = sg \/ sg' = [sg EXCEPT !.state_dirty = FALSE]
  BY DEF Send
<1>3. /\ sg'.pass_substate = sg.pass_substate /\ sg'.play_substate = sg.play_substate
      /\ sg'.last_trick_winner = sg.last_trick_winner
  BY <1>1, <1>2 DEF ServerGames
<1> QED
  BY <1>1, <1>3 DEF View, Detected, Connected, Late

LEMMA SendTold ==
  ASSUME Inf, IInv, Send PROVE Inf'
<1>1. /\ gs' = gs /\ stage' \in {"net", "over"} /\ Connected' = Connected
      /\ sg'.play_substate = sg.play_substate
      /\ Late' = Late /\ \A p \in Players : View(p)' = View(p)
  BY SendShown
<1>2. gs.trick \in Seq(Play)
  BY PhaseNamed
<1>3. ASSUME NEW p \in Connected PROVE Told(p)'
  <2>1. p \in Players
    BY DEF Connected
  <2>2. CASE /\ Changed /\ seen'[p] = View(p) /\ last_broadcast' = Detected
    <3>1. ShowsAll(seen'[p], View(p)') /\ seen'[p].trick = gs.trick
      BY <1>1, <2>1, <2>2, ViewShowsAll DEF View, IInv
    <3>2. last_broadcast'.phase = gs.phase /\ last_broadcast'.num_played = Len(gs.trick)
      BY <2>2 DEF Detected
    <3>3. BeforeTick(p)'
      BY <1>1, <1>2, <3>1, <3>2 DEF BeforeTick
    <3> QED
      BY <1>1, <3>3 DEF Told
  <2>3. CASE /\ ~Changed /\ seen'[p] = seen[p]
             /\ last_broadcast' = last_broadcast /\ sg' = sg
             /\ ~Late => ShowsAll(seen[p], View(p))
    <3>1. last_broadcast.phase = gs.phase /\ last_broadcast.num_played = Len(gs.trick)
      BY <2>3 DEF Changed, Detected
    <3>2. sg.play_substate = "TRICK_DONE" => seen[p].trick = gs.trick
      <4>1. ASSUME sg.play_substate = "TRICK_DONE" PROVE ~Late
        BY <4>1 DEF Inf, Late, IInv, PassLink
      <4>2. View(p).trick = gs.trick
        BY DEF View
      <4>3. ASSUME ShowsAll(seen[p], View(p)) PROVE seen[p].trick = View(p).trick
        <5>1. PICK winner : seen[p] = [View(p) EXCEPT !.trick_winner = winner]
          BY <4>3 DEF ShowsAll
        <5>2. "trick" \in DOMAIN View(p)
          BY DEF View
        <5> QED
          BY <5>1, <5>2
      <4> QED
        BY <2>3, <4>1, <4>2, <4>3
    <3>3. BeforeTick(p)'
      BY <1>1, <1>2, <2>1, <2>3, <3>1, <3>2 DEF BeforeTick
    <3> QED
      BY <1>1, <3>3 DEF Told
  <2> QED
    BY <2>2, <2>3, SendTells
<1>4. \A p \in Players \ Connected : seen'[p] = seen[p]
  BY DEF Send, IInv, RoomOK
<1>5. last_broadcast'.num_played \in Nat
  BY <1>2 DEF Send, Inf, Detected
<1> QED
  BY <1>1, <1>3, <1>4, <1>5 DEF Inf

(* The actions, one by one. *)

LEMMA CommandedTold ==
  ASSUME Inf, IInv, Commanded PROVE Inf'
<1>1. gs \in GameStates /\ sg \in ServerGames
  BY DEF IInv, GoodGame
<1>2. ASSUME NEW p \in Players, NEW card, SelectCard(p, card) PROVE Inf'
  <2>1. ShownAlike /\ gs'.trick = gs.trick /\ sg' = sg
    BY <1>1, <1>2 DEF SelectCard, ShownAlike, GameStates
  <2> QED
    BY <1>2, <2>1, CommandTold DEF SelectCard
<1>3. ASSUME NEW p \in Players, ConfirmPass(p) PROVE Inf'
  <2>1. ShownAlike /\ gs'.trick = gs.trick /\ sg' = sg
    BY <1>1, <1>3 DEF ConfirmPass, game_state_select_pass, ShownAlike, GameStates
  <2> QED
    BY <1>3, <2>1, CommandTold DEF ConfirmPass
<1>4. ASSUME NEW p \in Players, ConfirmScores(p) PROVE Inf'
  <2>1. /\ ShownAlike /\ gs'.trick = gs.trick /\ sg'.state_dirty
        /\ sg'.play_substate = sg.play_substate
    BY <1>1, <1>4 DEF ConfirmScores, ShownAlike, ServerGames
  <2> QED
    BY <1>4, <2>1, CommandTold DEF ConfirmScores
<1>5. ASSUME NEW p \in Players, NEW card \in gs.hand[p], PlayCard(p, card) PROVE Inf'
  <2>1. gs' = game_state_play_card(gs, p, card)
    BY <1>5 DEF PlayCard
  <2>2. gs'.phase = gs.phase /\ gs'.trick = Append(gs.trick, [player |-> p, card |-> card])
    BY <1>1, <2>1 DEF game_state_play_card, GameStates
  <2>3. [player |-> p, card |-> card] \in Play /\ gs.trick \in Seq(Play)
    BY <1>1, <1>5 DEF GameStates, Play
  <2>4. Len(gs.trick) \in Nat /\ Len(gs'.trick) = Len(gs.trick) + 1
    BY <2>2, <2>3
  <2>5. sg'.play_substate # "TRICK_DONE" /\ sg'.state_dirty = sg.state_dirty
    BY <1>1, <1>5 DEF PlayCard, AfterPlay, ServerGames
  <2> QED
    BY <1>5, <2>2, <2>4, <2>5, CommandTold DEF PlayCard
<1> QED
  BY <1>2, <1>3, <1>4, <1>5 DEF Commanded

\* A card played in a tick is one more on the table.
LEMMA PlayedShows ==
  ASSUME gs \in GameStates, NEW p \in Players, NEW card \in gs.hand[p],
         gs' = game_state_play_card(gs, p, card)
  PROVE  Len(gs.trick) < Len(gs'.trick) /\ Len(gs.trick) \in Nat /\ Len(gs'.trick) \in Nat
<1>1. gs'.trick = Append(gs.trick, [player |-> p, card |-> card])
  BY DEF game_state_play_card, GameStates
<1>2. [player |-> p, card |-> card] \in Play /\ gs.trick \in Seq(Play)
  BY DEF GameStates, Play
<1> QED
  BY <1>1, <1>2

\* The clock tells the detector of a new turn, and clears the winner of the last trick.
LEMMA ClockTells ==
  ASSUME sg \in ServerGames
  PROVE  /\ sg.state_dirty => OnTheClock.state_dirty
         /\ \/ OnTheClock.state_dirty
            \/ /\ OnTheClock.last_trick_winner = sg.last_trick_winner \/ gs.trick = <<>>
               /\ OnTheClock.pass_substate = sg.pass_substate
         /\ OnTheClock.play_substate = sg.play_substate
BY DEF OnTheClock, WinnerShown, ServerGames

LEMMA TickPlayTold ==
  ASSUME Inf, IInv, TickHuman \/ TickAI PROVE Inf'
<1> DEFINE current == game_state_current_player(gs)
<1>1. WaitTurn /\ Ticks /\ gs.phase # "NONE"
  BY PhaseNamed DEF TickHuman, TickAI, WaitTurn, Phases
<1>2. /\ gs \in GameStates /\ sg \in ServerGames /\ current \in Players
      /\ sg.play_substate = "WAIT_TURN"
  BY <1>1, Waiting
<1>3. OnTheClock \in ServerGames
  BY <1>2, ClockTyped
<1>4. CASE /\ gs' = gs /\ sg'.state_dirty = OnTheClock.state_dirty
           /\ sg'.last_trick_winner = OnTheClock.last_trick_winner
           /\ sg'.pass_substate = OnTheClock.pass_substate
           /\ sg'.play_substate = OnTheClock.play_substate
  <2>1. sg'.state_dirty \/ ShownAlike
    BY <1>2, <1>4, ClockTells DEF ShownAlike
  <2> QED
    BY <1>1, <1>2, <1>4, <2>1, ClockTells, TickTold
<1>5. CASE /\ \E card \in gs.hand[current] : gs' = game_state_play_card(gs, current, card)
           /\ OnTheClock.state_dirty => sg'.state_dirty
           /\ sg'.play_substate = AfterPlay(gs'.trick)
  <2>1. Len(gs.trick) < Len(gs'.trick) /\ Len(gs.trick) \in Nat /\ Len(gs'.trick) \in Nat
    BY <1>2, <1>5, PlayedShows
  <2>2. sg'.play_substate # "TRICK_DONE"
    BY <1>5 DEF AfterPlay
  <2> QED
    BY <1>1, <1>2, <1>5, <2>1, <2>2, ClockTells, TickTold
<1>6. CASE TickHuman
  <2> DEFINE clock == OnTheClock.turn_timer - 1
  <2>1. CASE sg' = [OnTheClock EXCEPT !.turn_timer = clock] /\ gs' = gs
    BY <1>3, <1>4, <2>1 DEF ServerGames
  <2>2. CASE /\ \E card \in AutoCards(current) : gs' = game_state_play_card(gs, current, card)
             /\ sg' = [OnTheClock EXCEPT !.turn_timer = 0, !.state_dirty = TRUE,
                                         !.play_substate = AfterPlay(gs'.trick)]
    <3>1. \E card \in gs.hand[current] : gs' = game_state_play_card(gs, current, card)
      BY <1>2, <2>2, AiCardsHeld
    <3>2. sg'.state_dirty /\ sg'.play_substate = AfterPlay(gs'.trick)
      BY <1>3, <2>2 DEF ServerGames
    <3> QED
      BY <1>5, <3>1, <3>2
  <2> QED
    BY <1>6, <2>1, <2>2 DEF TickHuman
<1>7. CASE TickAI
  <2>1. PICK left : \/ sg' = [OnTheClock EXCEPT !.ai_play_left = left] /\ gs' = gs
                    \/ /\ \E card \in AiCards(current) :
                            gs' = game_state_play_card(gs, current, card)
                       /\ sg' = [OnTheClock EXCEPT !.ai_play_left = left,
                                                   !.play_substate = AfterPlay(gs'.trick)]
    <3>1. PICK rest : \/ sg' = [OnTheClock EXCEPT !.ai_play_left = rest - 1] /\ gs' = gs
                      \/ /\ \E card \in AiCards(current) :
                              gs' = game_state_play_card(gs, current, card)
                         /\ sg' = [OnTheClock EXCEPT !.ai_play_left = -1,
                                                     !.play_substate = AfterPlay(gs'.trick)]
      BY <1>7 DEF TickAI
    <3> DEFINE fewer == rest - 1
               none == -1
    <3> HIDE DEF fewer, none
    <3>2. \/ sg' = [OnTheClock EXCEPT !.ai_play_left = fewer] /\ gs' = gs
          \/ /\ \E card \in AiCards(current) : gs' = game_state_play_card(gs, current, card)
             /\ sg' = [OnTheClock EXCEPT !.ai_play_left = none,
                                         !.play_substate = AfterPlay(gs'.trick)]
      BY <3>1, Zenon DEF fewer, none
    <3> QED
      BY <3>2
  <2>2. CASE sg' = [OnTheClock EXCEPT !.ai_play_left = left] /\ gs' = gs
    BY <1>3, <1>4, <2>2 DEF ServerGames
  <2>3. CASE /\ \E card \in AiCards(current) : gs' = game_state_play_card(gs, current, card)
             /\ sg' = [OnTheClock EXCEPT !.ai_play_left = left,
                                         !.play_substate = AfterPlay(gs'.trick)]
    <3>1. \E card \in gs.hand[current] : gs' = game_state_play_card(gs, current, card)
      BY <1>2, <2>3, AiCardsHeld
    <3>2. /\ sg'.state_dirty = OnTheClock.state_dirty
          /\ sg'.play_substate = AfterPlay(gs'.trick)
      BY <1>3, <2>3 DEF ServerGames
    <3> QED
      BY <1>5, <3>1, <3>2
  <2> QED
    BY <2>1, <2>2, <2>3
<1> QED
  BY <1>6, <1>7

\* The selection of a pass changes choices, a timer and the sub-state.
LEMMA SelectionChanges ==
  ASSUME IInv, TickSelect
  PROVE  \E chosen, ready, timer :
           /\ gs' = [gs EXCEPT !.pass_selections = chosen, !.pass_ready = ready]
           /\ \/ sg' = [sg EXCEPT !.pass_phase_timer = timer, !.pass_substate = "CARD_SELECT"]
              \/ sg' = [sg EXCEPT !.pass_phase_timer = timer, !.pass_substate = "EXECUTE"]
<1>1. gs \in GameStates /\ sg \in ServerGames /\ sg.pass_substate = "CARD_SELECT"
  BY DEF IInv, GoodGame, TickSelect
<1> DEFINE timer == IF sg.pass_phase_timer > PassTicks THEN sg.pass_phase_timer
                                                       ELSE sg.pass_phase_timer + 1
           choices(p) == IF ~MustPass(p, timer) THEN {{}}
                         ELSE IF Competitive /\ ~is_human[p] THEN CompPasses(p) ELSE AiPasses(p)
<1>2. PICK c0 \in choices(0), c1 \in choices(1), c2 \in choices(2), c3 \in choices(3) :
        LET choice == [p \in Players |-> <<c0, c1, c2, c3>>[p + 1]]
            passes(p) == MustPass(p, timer) /\ CanSelectPass(gs, p, choice[p])
        IN  /\ gs' = [gs EXCEPT !.pass_selections =
                                  [p \in Players |-> IF passes(p) THEN choice[p] ELSE @[p]],
                                !.pass_ready = [p \in Players |-> @[p] \/ passes(p)]]
            /\ sg' = [sg EXCEPT !.pass_phase_timer = timer,
                                !.pass_substate =
                                  IF game_state_all_passes_ready(gs') THEN "EXECUTE" ELSE @]
  BY DEF TickSelect
<1> DEFINE choice == [p \in Players |-> <<c0, c1, c2, c3>>[p + 1]]
           passes(p) == MustPass(p, timer) /\ CanSelectPass(gs, p, choice[p])
           chosen == [p \in Players |-> IF passes(p) THEN choice[p] ELSE gs.pass_selections[p]]
           ready == [p \in Players |-> gs.pass_ready[p] \/ passes(p)]
<1> HIDE DEF timer, choice
<1>3. gs' = [gs EXCEPT !.pass_selections = chosen, !.pass_ready = ready]
  BY <1>1, <1>2 DEF choice, GameStates
<1>4. \/ sg' = [sg EXCEPT !.pass_phase_timer = timer, !.pass_substate = "CARD_SELECT"]
      \/ sg' = [sg EXCEPT !.pass_phase_timer = timer, !.pass_substate = "EXECUTE"]
  BY <1>1, <1>2
<1> HIDE DEF chosen, ready
<1> QED
  BY <1>3, <1>4

LEMMA TickPassTold ==
  ASSUME Inf, IInv, DealNoPass \/ DealPass \/ TickSelect \/ TickExecute \/ TickTransmute
  PROVE  Inf'
<1>1. gs \in GameStates /\ sg \in ServerGames /\ gs.phase # "NONE"
  BY PhaseNamed DEF IInv, GoodGame, Phases
<1>2. sg.play_substate = "TRICK_DONE" => gs.phase = "PLAYING"
  BY DEF Inf
<1>3. CASE DealNoPass
  <2>1. sg'.state_dirty /\ sg'.play_substate = "WAIT_TURN"
    BY <1>1, <1>3 DEF DealNoPass, ServerGames
  <2> QED
    BY <1>1, <1>3, <2>1, TickTold DEF DealNoPass
<1>4. CASE DealPass
  <2>1. gs.phase = "DEALING" /\ gs'.phase = "PASSING"
    <3>1. /\ gs' = [gs EXCEPT !.pass_direction = Direction, !.pass_card_count = PassCardCount,
                              !.phase = "PASSING"]
          /\ gs.phase = "DEALING"
      BY <1>4 DEF DealPass
    <3> QED
      BY <1>1, <3>1 DEF GameStates
  <2>2. sg'.state_dirty = sg.state_dirty /\ sg'.play_substate = sg.play_substate
    <3>1. PICK delay : sg' = [sg EXCEPT !.comp_seat = CompSeats, !.pass_substate = "CARD_SELECT",
                                        !.pass_phase_timer = 0, !.ai_pass_delay = delay]
      BY <1>4 DEF DealPass
    <3> QED
      BY <1>1, <3>1 DEF ServerGames
  <2> QED
    BY <1>1, <1>2, <1>4, <2>1, <2>2, TickTold DEF DealPass
<1>5. CASE TickSelect
  <2>1. PICK chosen, ready, timer :
           /\ gs' = [gs EXCEPT !.pass_selections = chosen, !.pass_ready = ready]
           /\ \/ sg' = [sg EXCEPT !.pass_phase_timer = timer, !.pass_substate = "CARD_SELECT"]
              \/ sg' = [sg EXCEPT !.pass_phase_timer = timer, !.pass_substate = "EXECUTE"]
    BY <1>5, SelectionChanges
  <2>2. sg'.state_dirty = sg.state_dirty /\ sg'.play_substate = sg.play_substate
        /\ sg'.last_trick_winner = sg.last_trick_winner
    BY <1>1, <2>1 DEF ServerGames
  <2>3. sg'.pass_substate = sg.pass_substate \/ Late'
    BY <1>1, <1>5, <2>1 DEF TickSelect, ServerGames, Late
  <2>4. ShownAlike \/ Late'
    BY <1>1, <2>1, <2>2, <2>3 DEF ShownAlike, GameStates
  <2>5. gs'.phase = gs.phase
    BY <1>1, <2>1 DEF GameStates
  <2> QED
    BY <1>1, <1>2, <1>5, <2>2, <2>4, <2>5, TickTold DEF TickSelect
<1>6. CASE TickExecute
  <2>1. /\ Late' /\ sg'.state_dirty = sg.state_dirty /\ sg'.play_substate = sg.play_substate
    BY <1>1, <1>6 DEF TickExecute, ServerGames, Late
  <2>2. sg.play_substate # "TRICK_DONE"
    BY <1>2, <1>6 DEF TickExecute
  <2> QED
    BY <1>1, <1>6, <2>1, <2>2, TickTold DEF TickExecute
<1>7. CASE TickTransmute
  <2>1. gs.phase = "PASSING" /\ gs'.phase = "PLAYING"
    BY <1>1, <1>7 DEF TickTransmute, GameStates
  <2>2. sg'.state_dirty = sg.state_dirty
    BY <1>1, <1>7 DEF TickTransmute, ServerGames
  <2> QED
    BY <1>1, <1>7, <2>1, <2>2, TickTold DEF TickTransmute
<1> QED
  BY <1>3, <1>4, <1>5, <1>6, <1>7

LEMMA TickTrickTold ==
  ASSUME Inf, IInv, TickBroadcast \/ TickTrickDone \/ TickEvaluate \/ TickScoresWait \/ TickAdvance
  PROVE  Inf'
<1>1. gs \in GameStates /\ sg \in ServerGames /\ gs.phase # "NONE"
  BY PhaseNamed DEF IInv, GoodGame, Phases
<1>2. sg.play_substate = "TRICK_DONE" => gs.phase = "PLAYING"
  BY DEF Inf
<1>3. CASE TickBroadcast
  <2>1. ShownAlike /\ sg'.state_dirty = sg.state_dirty /\ gs'.phase = "PLAYING"
    BY <1>1, <1>3 DEF TickBroadcast, ServerGames, ShownAlike
  <2> QED
    BY <1>1, <1>3, <2>1, TickTold DEF TickBroadcast
<1>4. CASE TickTrickDone
  <2>1. sg'.state_dirty /\ sg'.play_substate # "TRICK_DONE"
    BY <1>1, <1>4 DEF TickTrickDone, ServerGames
  <2> QED
    BY <1>1, <1>4, <2>1, TickTold DEF TickTrickDone
<1>5. CASE TickEvaluate
  <2>1. sg'.state_dirty /\ sg'.play_substate = sg.play_substate /\ gs' = gs
    BY <1>1, <1>5 DEF TickEvaluate, ServerGames
  <2> QED
    BY <1>1, <1>2, <1>5, <2>1, TickTold DEF TickEvaluate
<1>6. CASE TickScoresWait
  <2>1. /\ ShownAlike /\ sg'.state_dirty = sg.state_dirty
        /\ sg'.play_substate = sg.play_substate /\ gs' = gs
    BY <1>1, <1>6 DEF TickScoresWait, ServerGames, ShownAlike
  <2> QED
    BY <1>1, <1>2, <1>6, <2>1, TickTold DEF TickScoresWait
<1>7. CASE TickAdvance
  <2>1. PICK hands \in Deals : gs' = game_state_advance_scoring(gs, hands)
    BY <1>7 DEF TickAdvance
  <2>2. gs.phase = "SCORING" /\ gs'.phase \in {"GAME_OVER", "DEALING"}
    BY <1>7, <2>1, AdvanceGood, DealAssumption DEF TickAdvance, IInv
  <2>3. sg'.state_dirty = sg.state_dirty /\ sg'.play_substate = "IDLE"
    BY <1>1, <1>7 DEF TickAdvance, ServerGames
  <2> QED
    BY <1>1, <1>7, <2>2, <2>3, TickTold DEF TickAdvance
<1> QED
  BY <1>3, <1>4, <1>5, <1>6, <1>7

LEMMA InfStep == IInv /\ Inf /\ [Next]_vars => Inf'
<1> SUFFICES ASSUME IInv, Inf, [Next]_vars PROVE Inf'
  OBVIOUS
<1>1. RoomOK
  BY DEF IInv
<1>2. CASE Commanded
  BY <1>2, CommandedTold
<1>3. CASE Seating \/ NetDone \/ Grace \/ UNCHANGED vars
  BY <1>1, <1>3, SeatingTold
<1>4. CASE Send
  BY <1>4, SendTold
<1>5. CASE Tick
  BY <1>5, TickPassTold, TickPlayTold, TickTrickTold DEF Tick
<1> QED
  BY <1>2, <1>3, <1>4, <1>5 DEF Next, Loop, Ended

LEMMA Informed == Spec => [](IInv /\ Inf)
<1>1. Init => Inf
  BY InfInit
<1> QED
  BY <1>1, InfStep, Inductive, PTL DEF Spec

\* After a Send every client that is connected has the state of the game.
LEMMA UpdateStep ==
  ASSUME IInv, Inf, [Next]_vars, stage' # stage, stage = "send", ~Late, NEW p \in Connected
  PROVE  ShowsAll(seen'[p], View(p)')
<1>1. Send
  BY DEF Next, Commanded, Seating, Loop, Tick, Ended, vars, SelectCard, PlayCard, ConfirmPass,
         ConfirmScores, Commands, Leave, Return, NetDone, Grace, DealNoPass, DealPass, TickSelect,
         TickExecute, TickTransmute, TickHuman, TickAI, WaitTurn, TickBroadcast, TickTrickDone,
         TickEvaluate, TickScoresWait, TickAdvance, Ticks
<1>2. p \in Players
  BY DEF Connected
<1> QED
  BY <1>1, <1>2, SendTells, SendShown, ViewShowsAll DEF IInv

\* Only the end of a trick counts one more.
LEMMA TrickStep ==
  ASSUME IInv, Inf, [Next]_vars, gs'.tricks_played = gs.tricks_played + 1
  PROVE  TickTrickDone
<1>1. gs \in GameStates /\ gs.tricks_played \in Nat
  BY DEF IInv, GoodGame, GameStates
<1>2. gs'.tricks_played # gs.tricks_played /\ gs'.tricks_played # 0
  BY <1>1
<1>3. ASSUME NEW p, NEW card, gs' = game_state_play_card(gs, p, card) PROVE FALSE
  BY <1>1, <1>2, <1>3 DEF game_state_play_card, GameStates
<1>4. ~Commanded
  BY <1>1, <1>2, <1>3 DEF Commanded, SelectCard, PlayCard, ConfirmPass, ConfirmScores,
         game_state_select_pass, GameStates
<1>5. ~Seating /\ ~NetDone /\ ~Grace /\ ~Send /\ ~Ended /\ ~UNCHANGED vars
  BY <1>2 DEF Seating, Leave, Return, NetDone, Grace, Send, Ended, vars
<1>6. ~DealNoPass /\ ~DealPass
  BY <1>1, <1>2 DEF DealNoPass, DealPass, GameStates
<1>7. ~TickSelect
  <2> SUFFICES ASSUME TickSelect PROVE FALSE
    OBVIOUS
  <2>1. PICK chosen, ready : gs' = [gs EXCEPT !.pass_selections = chosen, !.pass_ready = ready]
    BY SelectionChanges
  <2> QED
    BY <1>1, <1>2, <2>1 DEF GameStates
<1>8. ~TickExecute /\ ~TickTransmute
  BY <1>1, <1>2 DEF TickExecute, TickTransmute, game_state_execute_pass, GameStates
<1>9. ~TickHuman /\ ~TickAI
  BY <1>2, <1>3 DEF TickHuman, TickAI
<1>10. ~TickBroadcast /\ ~TickEvaluate /\ ~TickScoresWait
  BY <1>2 DEF TickBroadcast, TickEvaluate, TickScoresWait
<1>11. ~TickAdvance
  <2> SUFFICES ASSUME TickAdvance PROVE FALSE
    OBVIOUS
  <2>1. PICK hands : gs' = game_state_advance_scoring(gs, hands)
    BY DEF TickAdvance
  <2>2. gs'.tricks_played \in {0, gs.tricks_played}
    BY <1>1, <2>1 DEF game_state_advance_scoring, game_state_new_round, GameStates
  <2> QED
    BY <1>2, <2>2
<1> QED
  BY <1>4, <1>5, <1>6, <1>7, <1>8, <1>9, <1>10, <1>11 DEF Next, Loop, Tick

\* The change detector of the room misses nothing, whatever commands, drops and returns
\* come between two updates: after each, who is connected has the state of the game.
THEOREM UpdatesMissNothing == Spec => ClientsUpToDate
<1>1. IInv /\ Inf /\ [Next]_vars =>
        [stage = "send" /\ sg.pass_substate \notin {"EXECUTE", "TRANSMUTE"} =>
           \A p \in Connected : ShowsAll(seen'[p], View(p)')]_stage
  BY UpdateStep DEF Late
<1> QED
  BY <1>1, Informed, PTL DEF Spec, ClientsUpToDate

\* The tick between the fourth card of a trick and its end is enough: no client that was
\* there for the last update misses the whole trick.
THEOREM TricksAreShown == Spec => TricksAreSeenWhole
<1>1. IInv /\ Inf /\ [Next]_vars =>
        [gs'.tricks_played = gs.tricks_played + 1 =>
           \A p \in Connected : seen[p] # NotSeen => seen[p].trick = gs.trick /\ Len(gs.trick) = 4]_gs
  <2> SUFFICES ASSUME IInv, Inf, [Next]_vars, gs'.tricks_played = gs.tricks_played + 1,
                      NEW p \in Connected, seen[p] # NotSeen
               PROVE  seen[p].trick = gs.trick /\ Len(gs.trick) = 4
    OBVIOUS
  <2>1. stage = "tick" /\ gs.phase = "PLAYING" /\ sg.play_substate = "TRICK_DONE"
    BY TrickStep DEF TickTrickDone, Ticks
  <2>2. BeforeTick(p)
    BY <2>1 DEF Inf, Told, Awaits
  <2>3. Len(gs.trick) = 4
    BY <2>1 DEF IInv, PlayLink, CardsPerTrick
  <2> QED
    BY <2>1, <2>2, <2>3 DEF BeforeTick
<1> QED
  BY <1>1, Informed, PTL DEF Spec, TricksAreSeenWhole

-----------------------------------------------------------------------------
(* What a step does to the game *)

\* The choices for the pass change: the cards stay where they are.
ChoosesPass ==
  /\ gs.phase = "PASSING"
  /\ \E chosen, ready : gs' = [gs EXCEPT !.pass_selections = chosen, !.pass_ready = ready]

\* A command, the AI or the timeout plays a card of the player in turn, one that may be
\* played if there is any.
PlaysCard(p, card) ==
  /\ gs.phase = "PLAYING" /\ Len(gs.trick) < CardsPerTrick
  /\ p = game_state_current_player(gs) /\ card \in gs.hand[p]
  /\ Legal(p) # {} => card \in Legal(p)
  /\ gs' = game_state_play_card(gs, p, card)

\* The passing is about to end with the cards exchanged.
Exchanged == sg.pass_substate = "TRANSMUTE"

LEMMA PlaySteps ==
  ASSUME IInv, \/ \E p \in Players : \E card \in gs.hand[p] : PlayCard(p, card)
               \/ TickHuman /\ gs' # gs
               \/ TickAI /\ gs' # gs
  PROVE  /\ \E p \in Players : \E card \in gs.hand[p] : PlaysCard(p, card)
         /\ ~Exchanged /\ ~Exchanged'
<1>1. \A p \in Players : \A card \in AutoCards(p) \cup AiCards(p) :
        card \in gs.hand[p] /\ (Legal(p) # {} => card \in Legal(p))
  BY DEF AutoCards, AiCards, FirstCard, Legal
<1>2. gs.phase = "PLAYING" => ~Exchanged
  BY DEF IInv, PassLink, Exchanged
<1>3. sg.play_substate = "WAIT_TURN" /\ gs.phase = "PLAYING" => Len(gs.trick) < CardsPerTrick
  BY DEF IInv, PlayLink
<1>4. ASSUME WaitTurn
      PROVE  /\ game_state_current_player(gs) \in Players
             /\ gs.phase = "PLAYING" /\ sg.play_substate = "WAIT_TURN"
             /\ OnTheClock \in ServerGames /\ OnTheClock.pass_substate = sg.pass_substate
  BY <1>4, Waiting, ClockTyped
<1>5. CASE \E p \in Players : \E card \in gs.hand[p] : PlayCard(p, card)
  <2>1. PICK p \in Players : \E card \in gs.hand[p] : PlayCard(p, card)
    BY <1>5
  <2>2. PICK card \in gs.hand[p] : PlayCard(p, card)
    BY <2>1
  <2>3. /\ game_state_is_valid_play(gs, p, card) /\ sg.play_substate = "WAIT_TURN"
        /\ gs' = game_state_play_card(gs, p, card)
    BY <2>2 DEF PlayCard
  <2>4. gs.phase = "PLAYING" /\ p = game_state_current_player(gs) /\ card \in Legal(p)
    BY <2>3 DEF game_state_is_valid_play, Legal
  <2>5. sg'.pass_substate = sg.pass_substate
    BY <2>2 DEF PlayCard, IInv, ServerGames
  <2> QED
    BY <1>2, <1>3, <2>3, <2>4, <2>5 DEF PlaysCard, Exchanged
<1>6. CASE TickHuman /\ gs' # gs
  <2>1. WaitTurn
    BY <1>6 DEF TickHuman
  <2>2. PICK card \in AutoCards(game_state_current_player(gs)) :
          gs' = game_state_play_card(gs, game_state_current_player(gs), card)
    BY <1>6 DEF TickHuman
  <2>3. sg'.pass_substate = sg.pass_substate
    BY <1>4, <1>6, <2>1 DEF TickHuman, ServerGames
  <2> QED
    BY <1>1, <1>2, <1>3, <1>4, <2>1, <2>2, <2>3 DEF PlaysCard, Exchanged
<1>7. CASE TickAI /\ gs' # gs
  <2>1. WaitTurn
    BY <1>7 DEF TickAI
  <2>2. PICK card \in AiCards(game_state_current_player(gs)) :
          gs' = game_state_play_card(gs, game_state_current_player(gs), card)
    BY <1>7 DEF TickAI
  <2>3. \E left, substate : \/ sg' = [OnTheClock EXCEPT !.ai_play_left = left]
                            \/ sg' = [OnTheClock EXCEPT !.ai_play_left = left, !.play_substate = substate]
    BY <1>7 DEF TickAI
  <2>4. sg'.pass_substate = sg.pass_substate
    BY <1>4, <2>1, <2>3 DEF ServerGames
  <2> QED
    BY <1>1, <1>2, <1>3, <1>4, <2>1, <2>2, <2>4 DEF PlaysCard, Exchanged
<1> QED
  BY <1>5, <1>6, <1>7

\* Every step leaves the game alone or is one of the operations of GameState.
GameKept == gs' = gs /\ (Exchanged' <=> Exchanged)
GameStep ==
  \/ ChoosesPass /\ ~Exchanged /\ ~Exchanged'
  \/ \E p \in Players : \E card \in gs.hand[p] : PlaysCard(p, card) /\ ~Exchanged /\ ~Exchanged'
  \/ DealNoPass \/ DealPass \/ TickExecute \/ TickTransmute \/ TickTrickDone \/ TickAdvance

LEMMA GameSteps ==
  ASSUME IInv, [Next]_vars PROVE GameKept \/ GameStep
<1>1. sg \in ServerGames /\ gs \in GameStates
  BY DEF IInv, GoodGame
<1>2. gs.phase = "PASSING" \/ sg.pass_substate = "IDLE"
  BY DEF IInv, PassLink
<1>3. CASE Commanded
  <2>1. ASSUME NEW p \in Players, NEW card \in gs.hand[p], SelectCard(p, card) PROVE GameStep
    <3>1. /\ sg.pass_substate = "CARD_SELECT" /\ sg' = sg
          /\ \E now : gs' = [gs EXCEPT !.pass_selections[p] = now]
      BY <2>1 DEF SelectCard
    <3>2. PICK now : gs' = [gs EXCEPT !.pass_selections[p] = now]
      BY <3>1
    <3> DEFINE chosen == [gs.pass_selections EXCEPT ![p] = now]
               ready == gs.pass_ready
    <3>3. gs' = [gs EXCEPT !.pass_selections = chosen, !.pass_ready = ready]
      BY <1>1, <3>2 DEF GameStates
    <3> HIDE DEF chosen, ready
    <3>4. ChoosesPass
      BY <1>2, <3>1, <3>3 DEF ChoosesPass
    <3> QED
      BY <3>1, <3>4 DEF GameStep, Exchanged
  <2>2. ASSUME NEW p \in Players, ConfirmPass(p) PROVE GameStep
    <3>1. /\ sg.pass_substate = "CARD_SELECT" /\ sg' = sg
          /\ gs' = game_state_select_pass(gs, p, gs.pass_selections[p])
      BY <2>2 DEF ConfirmPass
    <3> DEFINE chosen == [gs.pass_selections EXCEPT ![p] = gs.pass_selections[p]]
               ready == [gs.pass_ready EXCEPT ![p] = TRUE]
    <3>2. gs' = [gs EXCEPT !.pass_selections = chosen, !.pass_ready = ready]
      BY <1>1, <3>1 DEF GameStates, game_state_select_pass
    <3> HIDE DEF chosen, ready
    <3>3. ChoosesPass
      BY <1>2, <3>1, <3>2 DEF ChoosesPass
    <3> QED
      BY <3>1, <3>3 DEF GameStep, Exchanged
  <2>3. ASSUME NEW p \in Players, ConfirmScores(p) PROVE GameKept
    <3>1. gs' = gs /\ sg'.pass_substate = sg.pass_substate
      BY <1>1, <2>3 DEF ConfirmScores, ServerGames
    <3> QED
      BY <3>1 DEF GameKept, Exchanged
  <2>4. ASSUME NEW p \in Players, NEW card \in gs.hand[p], PlayCard(p, card) PROVE GameStep
    BY <2>4, PlaySteps DEF GameStep
  <2> QED
    BY <1>3, <2>1, <2>2, <2>3, <2>4 DEF Commanded
<1>4. CASE Seating \/ NetDone \/ Grace \/ Send \/ UNCHANGED vars
  <2>1. gs' = gs /\ (sg' = sg \/ sg' = [sg EXCEPT !.state_dirty = FALSE])
    BY <1>4 DEF Seating, Leave, Return, NetDone, Grace, Send, vars
  <2>2. sg'.pass_substate = sg.pass_substate
    BY <1>1, <2>1 DEF ServerGames
  <2> QED
    BY <2>1, <2>2 DEF GameKept, Exchanged
<1>5. CASE TickBroadcast \/ TickEvaluate
  <2>1. gs' = gs /\ sg'.pass_substate = sg.pass_substate
    BY <1>1, <1>5 DEF TickBroadcast, TickEvaluate, ServerGames
  <2> QED
    BY <2>1 DEF GameKept, Exchanged
<1>6. CASE TickScoresWait
  <2>1. gs' = gs /\ \E timer : sg' = [sg EXCEPT !.scoring_wait_timer = timer]
    BY <1>6 DEF TickScoresWait
  <2>2. sg'.pass_substate = sg.pass_substate
    BY <1>1, <2>1 DEF ServerGames
  <2> QED
    BY <2>1, <2>2 DEF GameKept, Exchanged
<1>7. CASE TickSelect
  <2>1. PICK chosen, ready, timer :
          /\ gs' = [gs EXCEPT !.pass_selections = chosen, !.pass_ready = ready]
          /\ \/ sg' = [sg EXCEPT !.pass_phase_timer = timer, !.pass_substate = "CARD_SELECT"]
             \/ sg' = [sg EXCEPT !.pass_phase_timer = timer, !.pass_substate = "EXECUTE"]
    BY <1>7, SelectionChanges
  <2>2. sg.pass_substate = "CARD_SELECT" /\ gs.phase = "PASSING"
    BY <1>7 DEF TickSelect
  <2>3. sg'.pass_substate \in {"CARD_SELECT", "EXECUTE"}
    BY <1>1, <2>1 DEF ServerGames
  <2>4. ChoosesPass
    BY <2>1, <2>2 DEF ChoosesPass
  <2> QED
    BY <2>2, <2>3, <2>4 DEF GameStep, Exchanged
<1>8. CASE TickHuman \/ TickAI
  <2>1. CASE gs' # gs
    BY <1>8, <2>1, PlaySteps DEF GameStep
  <2>2. CASE gs' = gs
    <3>1. WaitTurn
      BY <1>8 DEF TickHuman, TickAI
    <3>2. OnTheClock \in ServerGames /\ OnTheClock.pass_substate = sg.pass_substate
      BY <3>1, Waiting, ClockTyped
    <3>3. sg'.pass_substate = sg.pass_substate
      <4>1. CASE TickHuman
        BY <3>2, <4>1 DEF TickHuman, ServerGames
      <4>2. CASE TickAI
        <5>1. \E left, substate : \/ sg' = [OnTheClock EXCEPT !.ai_play_left = left]
                                  \/ sg' = [OnTheClock EXCEPT !.ai_play_left = left,
                                                              !.play_substate = substate]
          BY <4>2 DEF TickAI
        <5> QED
          BY <3>2, <5>1 DEF ServerGames
      <4> QED
        BY <1>8, <4>1, <4>2
    <3> QED
      BY <2>2, <3>3 DEF GameKept, Exchanged
  <2> QED
    BY <2>1, <2>2
<1>9. CASE DealNoPass \/ DealPass \/ TickExecute \/ TickTransmute \/ TickTrickDone \/ TickAdvance
  BY <1>9 DEF GameStep
<1> QED
  BY <1>3, <1>4, <1>5, <1>6, <1>7, <1>8, <1>9 DEF Next, Loop, Tick, Ended

-----------------------------------------------------------------------------
(* The points *)

LEMMA SumsInit == Init => SumsUp(gs)
<1> SUFFICES ASSUME Init PROVE SumsUp(gs)
  OBVIOUS
<1>1. PICK hands \in Dealings : gs = NewGame(hands)
  BY DealAssumption DEF Init
<1>2. /\ gs.hand = hands /\ gs.phase = "DEALING" /\ gs.trick = <<>>
      /\ gs.round_points = [p \in Players |-> 0]
  BY <1>1 DEF NewGame
<1> QED
  BY <1>2, SumsFresh

LEMMA SumsStep ==
  ASSUME IInv, SumsUp(gs), [Next]_vars PROVE SumsUp(gs')
<1>1. gs \in GameStates /\ GoodGame(gs)
  BY DEF IInv, GoodGame
<1>2. CASE GameKept
  BY <1>2 DEF GameKept
<1>3. CASE ChoosesPass
  <2>1. PICK chosen, ready : gs' = [gs EXCEPT !.pass_selections = chosen, !.pass_ready = ready]
    BY <1>3 DEF ChoosesPass
  <2>2. /\ gs'.hand = gs.hand /\ gs'.round_points = gs.round_points /\ gs'.trick = gs.trick
        /\ gs'.moon_shooter = gs.moon_shooter /\ gs'.phase = gs.phase
    BY <1>1, <2>1 DEF GameStates
  <2>3. InHands(gs') = InHands(gs)
    BY <2>2 DEF InHands
  <2> QED
    BY <2>2, <2>3, SumsSame
<1>4. CASE \E p \in Players : \E card \in gs.hand[p] : PlaysCard(p, card)
  BY <1>1, <1>4, SumsPlay DEF PlaysCard
<1>5. CASE DealNoPass \/ DealPass \/ TickTransmute
  <2>1. gs.phase \in {"DEALING", "PASSING"} /\ gs.trick = <<>>
    BY <1>1, <1>5 DEF DealNoPass, DealPass, TickTransmute, GoodGame, FitsPhase
  <2>2. /\ gs'.hand = gs.hand /\ gs'.round_points = gs.round_points /\ gs'.trick = gs.trick
        /\ gs'.moon_shooter = gs.moon_shooter /\ gs'.phase \in {"PASSING", "PLAYING"}
    <3>1. CASE DealNoPass
      <4>1. PICK lead : gs' = [gs EXCEPT !.pass_direction = "NONE", !.pass_card_count = 0,
                                 !.trick = <<>>, !.lead_player = lead, !.phase = "PLAYING"]
        BY <3>1 DEF DealNoPass
      <4> QED
        BY <1>1, <2>1, <4>1 DEF GameStates
    <3>2. CASE DealPass
      BY <1>1, <3>2 DEF DealPass, GameStates
    <3>3. CASE TickTransmute
      BY <1>1, <3>3 DEF TickTransmute, GameStates
    <3> QED
      BY <1>5, <3>1, <3>2, <3>3
  <2>3. InHands(gs') = InHands(gs)
    BY <2>2 DEF InHands
  <2> QED
    BY <2>1, <2>2, <2>3, SumsSame
<1>6. CASE TickExecute
  <2>1. gs.phase = "PASSING" /\ gs' = game_state_execute_pass(gs) /\ gs.trick = <<>>
    BY <1>1, <1>6 DEF TickExecute, GoodGame, FitsPhase
  <2>2. /\ gs'.round_points = gs.round_points /\ gs'.trick = gs.trick
        /\ gs'.moon_shooter = gs.moon_shooter /\ gs'.phase = gs.phase
    BY <1>1, <2>1 DEF game_state_execute_pass, GameStates
  <2>3. InHands(gs') = InHands(gs)
    BY <1>1, <2>1, ExecuteKeeps
  <2> QED
    BY <2>2, <2>3, SumsSame
<1>7. CASE TickTrickDone
  <2>1. gs.phase = "PLAYING" /\ gs' = game_state_complete_trick(gs) /\ Len(gs.trick) = CardsPerTrick
    BY <1>7 DEF TickTrickDone, IInv, PlayLink
  <2> QED
    BY <1>1, <2>1, SumsComplete
<1>8. CASE TickAdvance
  <2>1. PICK hands \in Dealings : gs' = game_state_advance_scoring(gs, hands)
    BY <1>8, DealAssumption DEF TickAdvance
  <2>2. CASE game_state_is_game_over(gs)
    <3>1. /\ gs'.hand = gs.hand /\ gs'.round_points = gs.round_points /\ gs'.trick = gs.trick
          /\ gs'.moon_shooter = gs.moon_shooter /\ gs'.phase = "GAME_OVER" /\ gs.phase = "SCORING"
      BY <1>1, <1>8, <2>1, <2>2 DEF game_state_advance_scoring, TickAdvance, GameStates
    <3>2. InHands(gs') = InHands(gs)
      BY <3>1 DEF InHands
    <3> QED
      BY <3>1, <3>2, SumsSame
  <2>3. CASE ~game_state_is_game_over(gs)
    <3>1. /\ gs'.hand = hands /\ gs'.phase = "DEALING" /\ gs'.trick = <<>>
          /\ gs'.round_points = [p \in Players |-> 0]
      BY <1>1, <2>1, <2>3 DEF game_state_advance_scoring, game_state_new_round, GameStates
    <3> QED
      BY <3>1, SumsFresh
  <2> QED
    BY <2>2, <2>3
<1> QED
  BY <1>2, <1>3, <1>4, <1>5, <1>6, <1>7, <1>8, GameSteps DEF GameStep

LEMMA SumsImply == IInv /\ SumsUp(gs) => PointsAddUp
<1> SUFFICES ASSUME IInv, SumsUp(gs) PROVE PointsAddUp
  OBVIOUS
<1>1. gs \in GameStates
  BY DEF IInv, GoodGame
<1>2. Sum(gs.round_points) = Four(gs.round_points)
  BY DEF Sum, Four
<1>3. AllPoints = Points(Deck)
  BY PointsOf DEF AllPoints
<1>4. InHands(gs) \in SUBSET Deck /\ InHands(gs) = UNION {gs.hand[p] : p \in Players}
  BY <1>1, PartsTyped DEF InHands
<1>5. MapThenSumSet(card_points, UNION {gs.hand[p] : p \in Players}) = Points(InHands(gs))
  BY <1>4, PointsOf
<1> QED
  BY <1>2, <1>3, <1>5 DEF PointsAddUp, SumsUp

LEMMA Summed == Spec => [](IInv /\ SumsUp(gs))
<1>1. IInv /\ SumsUp(gs) /\ [Next]_vars => IInv' /\ SumsUp(gs)'
  <2>1. IInv /\ SumsUp(gs) /\ [Next]_vars => SumsUp(gs')
    BY SumsStep
  <2>2. SumsUp(gs)' <=> SumsUp(gs')
    BY DEF SumsUp, InHands
  <2> QED
    BY <2>1, <2>2, NextGood
<1> QED
  BY <1>1, InitGood, SumsInit, PTL DEF Spec

\* No command, takeover or timeout makes points appear or vanish: through a round those of
\* the deck are taken, in the trick or in the hands, and its end hands out all of them, or
\* three times all of them when one player has shot the moon.
THEOREM PointsAreKept == Spec => []PointsAddUp
BY Summed, SumsImply, PTL

-----------------------------------------------------------------------------
(* The refinement of HeartsTable: every step of the server is a step of the   *)
(* table as the rules of Hearts know it, or none at all. What the code keeps  *)
(* as a sequence of plays is the table's function of the players, and its     *)
(* current player the one whose turn it is.                                   *)

\* The player who is to lead the first trick holds the two of clubs.
LeadHolds ==
  Playing /\ gs.tricks_played = 0 /\ gs.trick = <<>> => TwoOfClubs \in gs.hand[gs.lead_player]

RInv == IInv /\ SumsUp(gs) /\ LeadHolds

-----------------------------------------------------------------------------
(* The trick as a table *)

LEMMA FourSeats == Players = 0 .. 3 /\ Rules!Seats = 0 .. 3 /\ Rules!Seats = Players
BY DEF Players, Rules!Seats

LEMMA SameCardinality == \A S : Rules!Cardinality(S) = Cardinality(S)
BY DEF Rules!Cardinality, Cardinality

\* Each place of the trick is one player's.
LEMMA PlacesOf ==
  ASSUME GoodGame(gs), gs.phase = "PLAYING"
  PROVE  /\ Len(gs.trick) \in 0 .. 4 /\ DOMAIN gs.trick = 1 .. Len(gs.trick)
         /\ gs.trick \in Seq(Play) /\ gs.lead_player \in 0 .. 3
         /\ \A i \in DOMAIN gs.trick : /\ gs.trick[i] \in Play
                                       /\ gs.trick[i].player = (gs.lead_player + (i - 1)) % 4
         /\ \A i \in DOMAIN gs.trick : \A j \in DOMAIN gs.trick :
              gs.trick[i].player = gs.trick[j].player => i = j
<1>1. /\ gs.trick \in Seq(Play) /\ Len(gs.trick) <= 4 /\ gs.lead_player \in 0 .. 3 /\ InTurn(gs)
  BY DEF GoodGame, GameStates, FitsPhase, Players, CardsPerTrick
<1> DEFINE n == Len(gs.trick)
<1>2. n \in 0 .. 4 /\ DOMAIN gs.trick = 1 .. n
  <2>1. n \in Nat /\ n <= 4 /\ DOMAIN gs.trick = 1 .. n
    BY <1>1
  <2> HIDE DEF n
  <2> QED
    BY <2>1
<1> HIDE DEF n
<1>3. \A i \in DOMAIN gs.trick : gs.trick[i] \in Play
  BY <1>1
<1>4. \A i \in DOMAIN gs.trick : i - 1 \in 0 .. 3 /\ gs.lead_player + i - 1 = gs.lead_player + (i - 1)
  BY <1>1, <1>2
<1>5. \A i \in DOMAIN gs.trick : gs.trick[i].player = (gs.lead_player + (i - 1)) % 4
  BY <1>1, <1>4 DEF InTurn
<1>6. ASSUME NEW i \in DOMAIN gs.trick, NEW j \in DOMAIN gs.trick,
             gs.trick[i].player = gs.trick[j].player
      PROVE  i = j
  <2>1. (gs.lead_player + (i - 1)) % 4 = (gs.lead_player + (j - 1)) % 4
    BY <1>5, <1>6
  <2>2. i - 1 \in 0 .. 3 /\ j - 1 \in 0 .. 3
    BY <1>4
  <2>3. i - 1 = j - 1
    BY <1>1, <2>1, <2>2, PlacesDiffer
  <2>4. i \in 1 .. 4 /\ j \in 1 .. 4
    BY <1>2
  <2> QED
    BY <2>3, <2>4
<1> QED
  BY <1>1, <1>2, <1>3, <1>5, <1>6 DEF n

\* What a trick shows of each player, whose places are different ones.
LEMMA LaidIs ==
  ASSUME NEW trick, \A i \in DOMAIN trick : \A j \in DOMAIN trick :
                      trick[i].player = trick[j].player => i = j
  PROVE  /\ DOMAIN Laid(trick) = {trick[i].player : i \in DOMAIN trick}
         /\ Laid(trick) = [p \in DOMAIN Laid(trick) |-> Laid(trick)[p]]
         /\ \A i \in DOMAIN trick : Laid(trick)[trick[i].player] = trick[i].card
<1> DEFINE place(p) == CHOOSE i \in DOMAIN trick : trick[i].player = p
<1>1. Laid(trick) = [p \in {trick[i].player : i \in DOMAIN trick} |-> trick[place(p)].card]
  BY DEF Laid
<1>2. \A i \in DOMAIN trick : place(trick[i].player) = i
  OBVIOUS
<1> HIDE DEF place
<1>3. \A i \in DOMAIN trick : Laid(trick)[trick[i].player] = trick[i].card
  BY <1>1, <1>2
<1> QED
  BY <1>1, <1>3

LEMMA TableOf ==
  ASSUME GoodGame(gs), gs.phase = "PLAYING"
  PROVE  /\ Table = Laid(gs.trick)
         /\ DOMAIN Table = {gs.trick[i].player : i \in DOMAIN gs.trick}
         /\ Table = [p \in DOMAIN Table |-> Table[p]]
         /\ \A i \in DOMAIN gs.trick : Table[gs.trick[i].player] = gs.trick[i].card
BY PlacesOf, LaidIs DEF Table

\* How many have played, and whose turn it is.
LEMMA TableTurn ==
  ASSUME GoodGame(gs), gs.phase = "PLAYING"
  PROVE  /\ DOMAIN Table \subseteq Players
         /\ Cardinality(DOMAIN Table) = Len(gs.trick)
         /\ Len(gs.trick) = 4 <=> DOMAIN Table = Players
         /\ Len(gs.trick) < 4 =>
              /\ game_state_current_player(gs) = (gs.lead_player + Len(gs.trick)) % 4
              /\ game_state_current_player(gs) \in Players \ DOMAIN Table
<1> DEFINE n == Len(gs.trick)
           seats == {gs.trick[i].player : i \in DOMAIN gs.trick}
           f == [i \in 1 .. n |-> gs.trick[i].player]
<1>1. DOMAIN Table = seats
  BY TableOf
<1>2. /\ n \in 0 .. 4 /\ DOMAIN gs.trick = 1 .. n /\ gs.lead_player \in 0 .. 3
      /\ \A i \in 1 .. n : gs.trick[i].player \in Players
      /\ \A i \in 1 .. n : gs.trick[i].player = (gs.lead_player + (i - 1)) % 4
      /\ \A i \in 1 .. n : \A j \in 1 .. n : gs.trick[i].player = gs.trick[j].player => i = j
  <2>1. /\ \A i \in 1 .. n : gs.trick[i] \in Play /\ gs.trick[i].player = (gs.lead_player + (i - 1)) % 4
        /\ n \in 0 .. 4 /\ DOMAIN gs.trick = 1 .. n /\ gs.lead_player \in 0 .. 3
        /\ \A i \in 1 .. n : \A j \in 1 .. n : gs.trick[i].player = gs.trick[j].player => i = j
    BY Zenon, PlacesOf
  <2>2. \A x \in Play : x.player \in Players
    BY DEF Play
  <2>3. \A i \in 1 .. n : gs.trick[i].player \in Players
    BY <2>1, <2>2
  <2> HIDE DEF n
  <2> QED
    BY ONLY <2>1, <2>3
<1>3. seats \subseteq Players
  <2>1. \A i \in DOMAIN gs.trick : gs.trick[i].player \in Players
    BY Zenon, <1>2
  <2> QED
    BY ONLY Zenon, <2>1
<1>4. Cardinality(seats) = n
  <2>1. f \in Bijection(1 .. n, seats)
    BY <1>2 DEF Bijection, Injection, Surjection, IsInjective
  <2>2. ExistsBijection(1 .. n, seats)
    BY <2>1 DEF ExistsBijection
  <2>3. n \in Nat
    BY <1>2
  <2> HIDE DEF n, seats
  <2> QED
    BY <2>2, <2>3, FS_CountingElements
<1>5. ASSUME n = 4 PROVE seats = Players
  <2>1. ASSUME NEW p \in Players PROVE p \in seats
    <3>1. PICK i \in 1 .. 4 : (gs.lead_player + i - 1) % 4 = p
      BY <1>2, PlaceOf DEF Players
    <3>2. gs.lead_player + i - 1 = gs.lead_player + (i - 1)
      BY <1>2
    <3> QED
      BY <1>2, <1>5, <3>1, <3>2
  <2> QED
    BY <1>3, <2>1
<1>6. ASSUME n < 4
      PROVE  /\ game_state_current_player(gs) = (gs.lead_player + n) % 4
             /\ game_state_current_player(gs) \in Players \ seats
  <2>1. game_state_current_player(gs) = (gs.lead_player + n) % 4
    <3>1. n # 4
      <4>1. n \in 0 .. 4 /\ n < 4
        BY <1>2, <1>6
      <4> HIDE DEF n
      <4> QED
        BY <4>1
    <3> QED
      BY <3>1 DEF game_state_current_player, trick_is_complete, CardsPerTrick
  <2>2. game_state_current_player(gs) \in Players
    BY <1>2, <1>6, InTurnIsPlayer DEF CardsPerTrick
  <2>3. ASSUME NEW i \in 1 .. n, gs.trick[i].player = (gs.lead_player + n) % 4 PROVE FALSE
    <3>1. i - 1 \in 0 .. 3 /\ n \in 0 .. 3 /\ i - 1 # n
      <4>1. n \in 0 .. 4 /\ n < 4 /\ i \in 1 .. n
        BY <1>2, <1>6
      <4> HIDE DEF n
      <4> QED
        BY <4>1
    <3>2. (gs.lead_player + (i - 1)) % 4 = (gs.lead_player + n) % 4
      BY <1>2, <2>3
    <3> QED
      BY <1>2, <3>1, <3>2, PlacesDiffer
  <2> QED
    BY <1>2, <2>1, <2>2, <2>3
<1>7. n = 4 \/ n < 4
  BY <1>2
<1> QED
  BY <1>1, <1>3, <1>4, <1>5, <1>6, <1>7

-----------------------------------------------------------------------------
(* What may be played *)

LEMMA SameWorth ==
  /\ \A c : card_points(c) = Rules!Worth(c)
  /\ \A c : Rules!IsHeart(c) <=> c[1] = Hearts
  /\ Rules!Opening = TwoOfClubs
BY DEF card_points, Hearts, Spades, QueenRank, Clubs, TwoOfClubs,
       Rules!Worth, Rules!IsHeart, Rules!Opening

\* While a trick is not full, it is the first one when somebody holds all the cards dealt.
LEMMA FirstTrick ==
  ASSUME GoodGame(gs), gs.phase = "PLAYING", Len(gs.trick) < 4
  PROVE  /\ Rules!InOpening <=> gs.tricks_played = 0
         /\ gs.hand[game_state_current_player(gs)] # {}
<1> DEFINE p == game_state_current_player(gs)
<1>1. p \in Players \ {gs.trick[i].player : i \in DOMAIN gs.trick}
  BY TableOf, TableTurn
<1>2. ~HasPlayed(gs, p)
  BY <1>1 DEF HasPlayed
<1>3. /\ CardsOnce(gs) /\ gs.tricks_played \in 0 .. TricksPerRound /\ TricksPerRound \in Nat
      /\ gs.tricks_played < TricksPerRound /\ gs.hand \in [Players -> SUBSET Deck]
  BY DeckAssumption DEF GoodGame, GameStates, FitsPhase
<1>4. Cardinality(gs.hand[p]) = TricksPerRound - gs.tricks_played
  BY <1>1, <1>2, <1>3 DEF CardsOnce
<1>5. \A q \in Players : Cardinality(gs.hand[q]) = TricksPerRound - gs.tricks_played
                         \/ Cardinality(gs.hand[q]) = TricksPerRound - gs.tricks_played - 1
  BY <1>3 DEF CardsOnce
<1> HIDE DEF p
<1>6. \A q \in Players : Cardinality(gs.hand[q]) = TricksPerRound => gs.tricks_played = 0
  BY <1>3, <1>5
<1>7. Rules!InOpening <=> gs.tricks_played = 0
  <2>1. Rules!InOpening <=> \E q \in Players : Cardinality(gs.hand[q]) = TricksPerRound
    BY FourSeats, SameCardinality DEF Rules!InOpening
  <2>2. gs.tricks_played = 0 => Cardinality(gs.hand[p]) = TricksPerRound
    BY <1>3, <1>4
  <2> QED
    BY <1>1, <1>6, <2>1, <2>2 DEF p
<1>8. gs.hand[p] # {}
  <2>1. Cardinality(gs.hand[p]) # 0
    BY <1>3, <1>4
  <2>2. Cardinality({}) = 0
    BY FS_EmptySet
  <2> QED
    BY <2>1, <2>2
<1> QED
  BY <1>7, <1>8 DEF p

\* The code allows what the rules allow, and there is always something.
LEMMA LegalIsAllowed ==
  ASSUME GoodGame(gs), gs.phase = "PLAYING", Len(gs.trick) < 4, LeadHolds,
         NEW p, p = game_state_current_player(gs)
  PROVE  Legal(p) = Rules!Allowed(p) /\ Legal(p) # {}
<1>1. /\ gs.trick \in Seq(Play) /\ DOMAIN gs.trick = 1 .. Len(gs.trick) /\ Len(gs.trick) \in 0 .. 4
      /\ \A i \in DOMAIN gs.trick : Table[gs.trick[i].player] = gs.trick[i].card
      /\ p = (gs.lead_player + Len(gs.trick)) % 4 /\ gs.lead_player \in 0 .. 3
      /\ gs.hand[p] # {} /\ p \in Players
  BY PlacesOf, TableOf, TableTurn, FirstTrick
<1>2. Leader = gs.lead_player
  BY DEF Leader, Playing
<1>3. Legal(p) = {c \in gs.hand[p] :
                    trick_is_valid_play(gs.trick, gs.hand[p], c, gs.hearts_broken, gs.tricks_played = 0)}
  BY DEF Legal, game_state_is_valid_play
<1>4. (gs.tricks_played = 0) <=> Rules!InOpening
  BY FirstTrick
<1>5. \A c : card_points(c) \in Nat
  BY DEF card_points
<1>6. CASE gs.trick = <<>>
  <2>1. p = Leader
    BY <1>1, <1>2, <1>6
  <2>2. CASE Rules!InOpening
    <3>1. Rules!Allowed(p) = {TwoOfClubs}
      BY <2>1, <2>2, SameWorth DEF Rules!Allowed
    <3>2. TwoOfClubs \in gs.hand[p]
      BY <1>2, <1>4, <1>6, <2>1, <2>2 DEF LeadHolds, Playing
    <3>3. Legal(p) = {TwoOfClubs}
      BY <1>3, <1>4, <1>6, <2>2, <3>2 DEF trick_is_valid_play
    <3> QED
      BY <3>1, <3>3
  <2>3. CASE ~Rules!InOpening
    <3> DEFINE plain == {c \in gs.hand[p] : c[1] # Hearts}
    <3>1. Rules!Allowed(p) = IF gs.hearts_broken \/ plain = {} THEN gs.hand[p] ELSE plain
      BY <2>1, <2>3, SameWorth DEF Rules!Allowed
    <3>2. Legal(p) = {c \in gs.hand[p] :
                        c[1] = Hearts /\ ~gs.hearts_broken => \A d \in gs.hand[p] : d[1] = Hearts}
      BY <1>3, <1>4, <1>6, <2>3 DEF trick_is_valid_play
    <3>3. Legal(p) = IF gs.hearts_broken \/ plain = {} THEN gs.hand[p] ELSE plain
      <4>1. CASE gs.hearts_broken
        BY <3>2, <4>1
      <4>2. CASE ~gs.hearts_broken /\ plain = {}
        BY <3>2, <4>2
      <4>3. CASE ~gs.hearts_broken /\ plain # {}
        BY <3>2, <4>3
      <4> QED
        BY <4>1, <4>2, <4>3
    <3> QED
      BY <1>1, <3>1, <3>3
  <2> QED
    BY <2>2, <2>3
<1>7. CASE gs.trick # <<>>
  <2>1. Len(gs.trick) \in 1 .. 3 /\ 1 \in DOMAIN gs.trick
    <3> DEFINE n == Len(gs.trick)
    <3>1. n # 0 /\ n \in 0 .. 4 /\ n < 4 /\ DOMAIN gs.trick = 1 .. n
      BY <1>1, <1>7
    <3> HIDE DEF n
    <3>2. n \in 1 .. 3 /\ 1 \in DOMAIN gs.trick
      BY <3>1
    <3> QED
      BY <3>2 DEF n
  <2>2. p # Leader
    <3> DEFINE n == Len(gs.trick)
    <3>1. n \in 0 .. 3 /\ n # 0 /\ 0 \in 0 .. 3 /\ (gs.lead_player + 0) % 4 = gs.lead_player
      BY <1>1, <2>1
    <3>2. p = (gs.lead_player + n) % 4
      BY <1>1
    <3> HIDE DEF n
    <3> QED
      BY <1>1, <1>2, <3>1, <3>2, PlacesDiffer
  <2>3. gs.trick[1].player = gs.lead_player
    <3>1. gs.trick[1].player = (gs.lead_player + (1 - 1)) % 4
      BY <2>1, PlacesOf
    <3>2. (gs.lead_player + (1 - 1)) % 4 = gs.lead_player
      BY <1>1
    <3> QED
      BY <3>1, <3>2
  <2>4. Table[Leader][1] = LeadSuit(gs.trick)
    BY <1>1, <1>2, <2>1, <2>3 DEF LeadSuit
  <2> DEFINE suit == LeadSuit(gs.trick)
             inSuit == {c \in gs.hand[p] : c[1] = suit}
             noPoint == {c \in gs.hand[p] : card_points(c) = 0}
  <2>5. Rules!Allowed(p) = IF inSuit # {} THEN inSuit
                           ELSE IF Rules!InOpening /\ noPoint # {} THEN noPoint ELSE gs.hand[p]
    BY <2>2, <2>4, SameWorth DEF Rules!Allowed
  <2>6. Legal(p) = {c \in gs.hand[p] :
                      /\ inSuit # {} => c[1] = suit
                      /\ Rules!InOpening /\ inSuit = {} /\ card_points(c) > 0
                           => \A d \in gs.hand[p] : card_points(d) > 0}
    <3>1. hand_has_suit(gs.hand[p], LeadSuit(gs.trick)) <=> inSuit # {}
      BY DEF hand_has_suit
    <3>2. \A c \in gs.hand[p] :
            trick_is_valid_play(gs.trick, gs.hand[p], c, gs.hearts_broken, gs.tricks_played = 0)
              <=> /\ inSuit # {} => c[1] = suit
                  /\ Rules!InOpening /\ inSuit = {} /\ card_points(c) > 0
                       => \A d \in gs.hand[p] : card_points(d) > 0
      BY <1>4, <1>7, <3>1 DEF trick_is_valid_play, Follows
    <3> HIDE DEF suit, inSuit
    <3> QED
      BY <1>3, <3>2
  <2>7. CASE inSuit # {}
    BY <2>5, <2>6, <2>7
  <2>8. CASE inSuit = {} /\ Rules!InOpening /\ noPoint # {}
    <3>1. Legal(p) = noPoint
      BY <1>5, <2>6, <2>8
    <3> QED
      BY <2>5, <2>8, <3>1
  <2>9. CASE inSuit = {} /\ (~Rules!InOpening \/ noPoint = {})
    <3>1. Legal(p) = gs.hand[p]
      BY <1>5, <2>6, <2>9
    <3> QED
      BY <1>1, <2>5, <2>9, <3>1
  <2> QED
    BY <2>7, <2>8, <2>9
<1> QED
  BY <1>6, <1>7

\* A card that may be played is one play of the table.
LEMMA PlayIsPlay ==
  ASSUME IInv, IInv', LeadHolds, NEW p \in Players, NEW card \in gs.hand[p], PlaysCard(p, card)
  PROVE  Rules!PlayOne
<1>1. /\ GoodGame(gs) /\ gs.phase = "PLAYING" /\ Len(gs.trick) < 4
      /\ p = game_state_current_player(gs) /\ gs' = game_state_play_card(gs, p, card)
      /\ gs \in GameStates /\ gs.hand \in [Players -> SUBSET Deck] /\ gs.trick \in Seq(Play)
      /\ (Legal(p) # {} => card \in Legal(p)) /\ GoodGame(gs')
  BY DEF IInv, GoodGame, GameStates, PlaysCard, CardsPerTrick
<1> DEFINE play == [player |-> p, card |-> card]
<1>2. /\ gs'.phase = "PLAYING" /\ gs'.lead_player = gs.lead_player
      /\ gs'.round_points = gs.round_points /\ gs'.total_score = gs.total_score
      /\ gs'.hand = [gs.hand EXCEPT ![p] = gs.hand[p] \ {card}]
      /\ gs'.trick = Append(gs.trick, play)
      /\ gs'.hearts_broken = (gs.hearts_broken \/ card[1] = Hearts)
  BY <1>1 DEF game_state_play_card, GameStates
<1>3. card \in Rules!Allowed(p)
  BY <1>1, LegalIsAllowed
<1>4. /\ RoundStage = "play" /\ RoundStage' = "play" /\ Leader = gs.lead_player /\ Leader' = Leader
  BY <1>1, <1>2 DEF RoundStage, Leader, Playing
<1>5. /\ Rules!Turn = p /\ DOMAIN Table # Players /\ p \notin DOMAIN Table
  <2>1. Cardinality(DOMAIN Table) = Len(gs.trick)
        /\ p = (gs.lead_player + Len(gs.trick)) % 4 /\ p \in Players \ DOMAIN Table
    BY <1>1, TableTurn
  <2> QED
    BY <1>4, <2>1, SameCardinality DEF Rules!Turn
<1>6. Table' = [q \in DOMAIN Table \cup {p} |-> IF q = p THEN card ELSE Table[q]]
  <2> DEFINE n == Len(gs.trick)
             next == Append(gs.trick, play)
  <2>1. /\ DOMAIN gs.trick = 1 .. n /\ DOMAIN next = 1 .. n + 1 /\ n \in Nat
        /\ \A i \in 1 .. n : next[i] = gs.trick[i]
        /\ next[n + 1] = play
    BY <1>1
  <2>2. next = gs'.trick
    BY <1>2
  <2>3. \A i \in 1 .. n : gs.trick[i].player \in DOMAIN Table
    BY <1>1, <2>1, TableOf
  <2>4. \A i \in DOMAIN next : \A j \in DOMAIN next : next[i].player = next[j].player => i = j
    <3>1. \A i \in 1 .. n : gs.trick[i].player # play.player
      BY <1>5, <2>3
    <3>2. \A i \in 1 .. n : \A j \in 1 .. n : gs.trick[i].player = gs.trick[j].player => i = j
      BY <1>1, <2>1, PlacesOf
    <3> QED
      BY <2>1, <3>1, <3>2
  <2>5. /\ DOMAIN Laid(next) = {next[i].player : i \in DOMAIN next}
        /\ Laid(next) = [q \in DOMAIN Laid(next) |-> Laid(next)[q]]
        /\ \A i \in DOMAIN next : Laid(next)[next[i].player] = next[i].card
    BY <2>4, LaidIs
  <2>6. /\ DOMAIN Table = {gs.trick[i].player : i \in 1 .. n}
        /\ \A i \in 1 .. n : Table[gs.trick[i].player] = gs.trick[i].card
    BY <1>1, <2>1, TableOf
  <2>7. Table' = Laid(next)
    BY <1>2 DEF Table
  <2> HIDE DEF n, next
  <2>8. DOMAIN Laid(next) = DOMAIN Table \cup {p}
    BY <2>1, <2>5, <2>6
  <2>9. ASSUME NEW q \in DOMAIN Table \cup {p}
        PROVE  Laid(next)[q] = IF q = p THEN card ELSE Table[q]
    BY <1>5, <2>1, <2>5, <2>6
  <2>10. Laid(next) = [q \in DOMAIN Table \cup {p} |-> Laid(next)[q]]
    BY <2>5, <2>8
  <2> QED
    BY <2>7, <2>9, <2>10
<1>7. /\ (gs.hand)' = [gs.hand EXCEPT ![Rules!Turn] = @ \ {card}]
      /\ Table' = [q \in DOMAIN Table \cup {Rules!Turn} |-> IF q = Rules!Turn THEN card ELSE Table[q]]
  BY <1>2, <1>5, <1>6
<1>8. (gs.hearts_broken)' = (gs.hearts_broken \/ Rules!IsHeart(card))
  BY <1>2, SameWorth
<1>9. UNCHANGED <<Leader, gs.round_points, gs.total_score, RoundStage>>
  BY <1>2, <1>4
<1>10. RoundStage = "play" /\ DOMAIN Table # Rules!Seats /\ card \in Rules!Allowed(Rules!Turn)
  BY <1>3, <1>4, <1>5, FourSeats
<1> QED
  BY <1>7, <1>8, <1>9, <1>10, Zenon DEF Rules!PlayOne

-----------------------------------------------------------------------------
(* The end of a trick *)

\* The sum of the community modules, for the worth of the table's rules.
LEMMA SumOfWorth ==
  ASSUME NEW S \in SUBSET Deck
  PROVE  Rules!MapThenSumSet(Rules!Worth, S) = Points(S)
<1> DEFINE Recurs(f) ==
      f = [s \in SUBSET S |-> IF s = {} THEN 0
                              ELSE Rules!Worth(CHOOSE x \in s : TRUE) + f[s \ {CHOOSE x \in s : TRUE}]]
<1>1. Rules!MapThenSumSet(Rules!Worth, S) = (CHOOSE f : Recurs(f))[S]
  BY DEF Rules!MapThenSumSet, Rules!MapThenFoldSet
<1>2. IsFiniteSet(S) /\ S \in SUBSET S
  BY CardsFinite
<1>3. ASSUME NEW f PROVE Recurs(f) <=> IsSum(weight, f, S)
  <2> DEFINE P(s) == IF s = {} THEN 0
                     ELSE Rules!Worth(CHOOSE x \in s : TRUE) + f[s \ {CHOOSE x \in s : TRUE}]
             Q(s) == IF s = {} THEN 0 ELSE weight[Any(s)] + f[s \ {Any(s)}]
  <2>1. \A s \in SUBSET S : P(s) = Q(s)
    <3> SUFFICES ASSUME NEW s \in SUBSET S, s # {} PROVE P(s) = Q(s)
      OBVIOUS
    <3>1. Any(s) \in s /\ (CHOOSE x \in s : TRUE) = Any(s)
      BY DEF Any
    <3>2. weight[Any(s)] = Rules!Worth(Any(s))
      BY <3>1, SameWorth DEF weight
    <3> QED
      BY <3>1, <3>2
  <2> HIDE DEF P, Q
  <2>2. [s \in SUBSET S |-> P(s)] = [s \in SUBSET S |-> Q(s)]
    BY <2>1
  <2> QED
    BY <2>2, Zenon DEF P, Q, IsSum
<1> HIDE DEF Recurs
<1>4. \E f : Recurs(f)
  BY <1>2, <1>3, SumExists
<1>5. Recurs(CHOOSE f : Recurs(f))
  BY <1>4
<1>6. IsSum(weight, CHOOSE f : Recurs(f), S)
  BY <1>3, <1>5
<1> QED
  BY <1>1, <1>2, <1>6, TotalIs DEF Points

\* The points of four different cards.
LEMMA PointsOfFour ==
  ASSUME NEW a \in Deck, NEW b \in Deck, NEW c \in Deck, NEW d \in Deck,
         a # b, a # c, a # d, b # c, b # d, c # d
  PROVE  Points({a, b, c, d}) = card_points(a) + card_points(b) + card_points(c) + card_points(d)
<1>1. /\ {a, b, c, d} \ {a} = {b, c, d} /\ {b, c, d} \ {b} = {c, d}
      /\ {c, d} \ {c} = {d} /\ {d} \ {d} = {}
  OBVIOUS
<1>2. Points({a, b, c, d}) = card_points(a) + Points({b, c, d})
  <2>1. {a, b, c, d} \in SUBSET Deck /\ a \in {a, b, c, d}
    OBVIOUS
  <2> QED
    BY <1>1, <2>1, PointsOf
<1>3. Points({b, c, d}) = card_points(b) + Points({c, d})
  <2>1. {b, c, d} \in SUBSET Deck /\ b \in {b, c, d}
    OBVIOUS
  <2> QED
    BY <1>1, <2>1, PointsOf
<1>4. Points({c, d}) = card_points(c) + Points({d})
  <2>1. {c, d} \in SUBSET Deck /\ c \in {c, d}
    OBVIOUS
  <2> QED
    BY <1>1, <2>1, PointsOf
<1>5. Points({d}) = card_points(d) + Points({}) /\ Points({}) = 0
  <2>1. {d} \in SUBSET Deck /\ d \in {d} /\ {} \in SUBSET Deck
    OBVIOUS
  <2> QED
    BY <1>1, <2>1, PointsOf
<1>6. \A x : card_points(x) \in Nat
  BY DEF card_points
<1> QED
  BY <1>2, <1>3, <1>4, <1>5, <1>6

\* A full trick: what lies on the table, what it is worth and who takes it.
LEMMA FullTable ==
  ASSUME GoodGame(gs), gs.phase = "PLAYING", Len(gs.trick) = CardsPerTrick
  PROVE  /\ DOMAIN Table = Players
         /\ Rules!Winner = trick_get_winner(gs.trick)
         /\ Rules!MapThenSumSet(Rules!Worth, Rules!OnTable) = trick_count_points(gs.trick)
<1> DEFINE trick == gs.trick
           lead == gs.lead_player
<1>1. /\ DOMAIN trick = 1 .. 4 /\ lead \in 0 .. 3
      /\ \A i \in 1 .. 4 : trick[i] \in Play /\ trick[i].player = (lead + (i - 1)) % 4
      /\ \A i \in 1 .. 4 : \A j \in 1 .. 4 : trick[i].player = trick[j].player => i = j
      /\ \A i \in 1 .. 4 : \A j \in 1 .. 4 : i # j => trick[i].card # trick[j].card
      /\ \A i \in 1 .. 4 : Table[trick[i].player] = trick[i].card
      /\ DOMAIN Table = {trick[i].player : i \in 1 .. 4}
  <2>1. Len(trick) = 4
    BY DEF CardsPerTrick
  <2>2. DOMAIN trick = 1 .. 4
    BY <2>1, PlacesOf
  <2>3. CardsOnce(gs)
    BY DEF GoodGame
  <2> QED
    BY <2>2, <2>3, PlacesOf, TableOf DEF CardsOnce
<1>2. DOMAIN Table = Players
  BY TableTurn DEF CardsPerTrick
<1>3. \A i \in 1 .. 4 : /\ trick[i].player \in Players /\ trick[i].card \in Deck
                        /\ trick[i].card \in (0 .. 3) \X (0 .. 12)
  BY <1>1, DeckAssumption DEF Play
<1>4. trick[1].player = lead
  <2>1. trick[1].player = (lead + (1 - 1)) % 4
    BY <1>1
  <2>2. (lead + (1 - 1)) % 4 = lead
    BY <1>1
  <2> QED
    BY <2>1, <2>2
<1>5. Leader = lead /\ Table[Leader][1] = LeadSuit(trick)
  BY <1>1, <1>4 DEF Leader, Playing, LeadSuit
<1> HIDE DEF trick, lead
<1>6. Rules!OnTable = {trick[1].card, trick[2].card, trick[3].card, trick[4].card}
  <2>1. Rules!OnTable = {Table[p] : p \in DOMAIN Table}
    BY DEF Rules!OnTable
  <2>2. Rules!OnTable = {trick[i].card : i \in 1 .. 4}
    BY <1>1, <2>1
  <2> QED
    BY <2>2
<1>7. Rules!MapThenSumSet(Rules!Worth, Rules!OnTable) = trick_count_points(trick)
  <2>1. Rules!OnTable \in SUBSET Deck
    BY <1>3, <1>6
  <2>2. Rules!MapThenSumSet(Rules!Worth, Rules!OnTable) = Points(Rules!OnTable)
    BY <2>1, SumOfWorth
  <2> DEFINE a == trick[1].card
             b == trick[2].card
             c == trick[3].card
             d == trick[4].card
  <2>3. /\ a \in Deck /\ b \in Deck /\ c \in Deck /\ d \in Deck
        /\ a # b /\ a # c /\ a # d /\ b # c /\ b # d /\ c # d
    BY <1>1, <1>3
  <2>4. trick_count_points(trick) = card_points(a) + card_points(b) + card_points(c) + card_points(d)
    BY <1>1 DEF trick_count_points, PointsAt
  <2>5. Rules!OnTable = {a, b, c, d}
    BY <1>6
  <2> HIDE DEF a, b, c, d
  <2>6. Points({a, b, c, d}) = card_points(a) + card_points(b) + card_points(c) + card_points(d)
    BY <2>3, PointsOfFour
  <2> QED
    BY <2>2, <2>4, <2>5, <2>6
<1> DEFINE suited == {i \in DOMAIN trick : trick[i].card[1] = LeadSuit(trick)}
           Best(i) == \A j \in suited : trick[j].card[2] <= trick[i].card[2]
           best == CHOOSE i \in suited : Best(i)
           Takes(p) == /\ Table[p][1] = Table[Leader][1]
                       /\ \A q \in Rules!Seats : Table[q][1] = Table[Leader][1] => Table[q][2] <= Table[p][2]
<1>8. best \in suited /\ Best(best) /\ trick_get_winner(trick) = trick[best].player
  <2> DEFINE rank == [i \in 1 .. 4 |-> trick[i].card[2]]
  <2>1. 1 \in suited /\ suited \in SUBSET (1 .. 4)
    BY <1>1 DEF LeadSuit
  <2>2. rank \in [1 .. 4 -> Int]
    BY <1>3
  <2>3. \E i \in suited : \A j \in suited : rank[j] <= rank[i]
    <3> HIDE DEF rank, suited
    <3> QED
      BY <2>1, <2>2, HighestPlace
  <2>4. \E i \in suited : Best(i)
    BY <2>1, <2>3
  <2>5. best \in suited /\ Best(best)
    BY <2>4
  <2> QED
    BY <2>5 DEF trick_get_winner
<1>9. \A i \in 1 .. 4 : Takes(trick[i].player) <=> i \in suited /\ Best(i)
  <2>1. \A p \in Rules!Seats : \E i \in 1 .. 4 : p = trick[i].player
    BY <1>1, <1>2, FourSeats
  <2>2. \A i \in 1 .. 4 : trick[i].player \in Rules!Seats
    BY <1>3, FourSeats
  <2> QED
    BY <1>1, <1>5, <2>1, <2>2
<1>10. \A i \in suited : \A j \in suited : Best(i) /\ Best(j) => i = j
  <2> SUFFICES ASSUME NEW i \in suited, NEW j \in suited, Best(i), Best(j) PROVE i = j
    OBVIOUS
  <2>1. i \in 1 .. 4 /\ j \in 1 .. 4 /\ trick[i].card[1] = trick[j].card[1]
    BY <1>1
  <2>2. trick[i].card[2] <= trick[j].card[2] /\ trick[j].card[2] <= trick[i].card[2]
    OBVIOUS
  <2>3. trick[i].card = trick[j].card
    <3> DEFINE a == trick[i].card
               b == trick[j].card
    <3>1. /\ a \in (0 .. 3) \X (0 .. 12) /\ b \in (0 .. 3) \X (0 .. 12)
          /\ a[1] = b[1] /\ a[2] <= b[2] /\ b[2] <= a[2]
      BY <1>3, <2>1, <2>2
    <3> HIDE DEF a, b
    <3>2. a = <<a[1], a[2]>> /\ b = <<b[1], b[2]>> /\ a[2] \in 0 .. 12 /\ b[2] \in 0 .. 12
      BY <3>1
    <3>3. a[2] = b[2]
      BY <3>1, <3>2
    <3> QED
      BY <3>1, <3>2, <3>3 DEF a, b
  <2> QED
    BY <1>1, <2>1, <2>3
<1>11. Rules!Winner = CHOOSE p \in Rules!Seats : Takes(p)
  BY DEF Rules!Winner
<1> HIDE DEF Takes, Best, suited, best
<1>12. \A p \in Rules!Seats : Takes(p) <=> p = trick[best].player
  <2>1. \A p \in Rules!Seats : \E i \in 1 .. 4 : p = trick[i].player
    BY <1>1, <1>2, FourSeats
  <2>2. suited \subseteq 1 .. 4
    BY <1>1 DEF suited
  <2> QED
    BY <1>8, <1>9, <1>10, <2>1, <2>2
<1>13. trick[best].player \in Rules!Seats
  BY <1>1, <1>3, <1>8, FourSeats DEF suited
<1>14. Rules!Winner = trick[best].player
  BY <1>11, <1>12, <1>13
<1> QED
  BY <1>2, <1>7, <1>8, <1>14 DEF trick

\* A trick that is not the last is taken.
LEMMA TrickIsTaken ==
  ASSUME IInv, SumsUp(gs), TickTrickDone
  PROVE  Rules!Take \/ Rules!TakeLast
<1> DEFINE winner == trick_get_winner(gs.trick)
           points == trick_count_points(gs.trick)
           taken == [gs.round_points EXCEPT ![winner] = @ + points]
           shooter == MoonShooter(taken, winner)
           final == IF shooter = NoPlayer THEN taken
                    ELSE [p \in Players |-> IF p = shooter THEN 0 ELSE taken[shooter]]
           total == [p \in Players |-> gs.total_score[p] + final[p]]
           last == gs.tricks_played + 1 >= TricksPerRound
<1>1. /\ GoodGame(gs) /\ gs \in GameStates /\ gs.phase = "PLAYING" /\ Len(gs.trick) = CardsPerTrick
      /\ gs.trick \in Seq(Play) /\ gs.round_points \in [Players -> Nat]
      /\ gs.hand \in [Players -> SUBSET Deck] /\ sg \in ServerGames
      /\ gs' = game_state_complete_trick(gs) /\ sg.pass_substate = "IDLE" /\ sg'.pass_substate = "IDLE"
  BY DEF IInv, GoodGame, GameStates, PlayLink, PassLink, TickTrickDone, ServerGames
<1>2. /\ DOMAIN Table = Rules!Seats /\ Rules!Winner = winner
      /\ Rules!MapThenSumSet(Rules!Worth, Rules!OnTable) = points
  BY <1>1, FullTable, FourSeats
<1>3. winner \in Players /\ points \in Nat
  BY <1>1, WinnerIsPlayer
<1>4. Rules!TakenNow = taken
  BY <1>2 DEF Rules!TakenNow
<1>5. Rules!Unplayed = InHands(gs) /\ (last <=> Rules!Unplayed = {})
  <2>1. Rules!Unplayed = InHands(gs)
    BY FourSeats DEF Rules!Unplayed, InHands
  <2> QED
    BY <1>1, <2>1, LastTrick
<1>6. RoundStage = "play"
  BY <1>1 DEF RoundStage, Playing
<1>7. gs' = IF last
            THEN [gs EXCEPT !.tricks_played = @ + 1, !.round_points = final,
                            !.total_score = total, !.moon_shooter = shooter, !.phase = "SCORING"]
            ELSE [gs EXCEPT !.tricks_played = @ + 1, !.round_points = taken,
                            !.lead_player = winner, !.trick = <<>>]
  BY <1>1 DEF game_state_complete_trick, game_state_complete_trick_with, GameStates
<1>8. taken \in [Players -> Nat] /\ Four(taken) = Four(gs.round_points) + points
  BY <1>1, <1>3, FourMore
<1> HIDE DEF winner, points, taken, shooter, final, total, last
<1>9. CASE ~last
  <2>1. /\ gs'.phase = "PLAYING" /\ gs'.trick = <<>> /\ gs'.lead_player = winner
        /\ gs'.round_points = taken /\ gs'.hand = gs.hand
        /\ gs'.hearts_broken = gs.hearts_broken /\ gs'.total_score = gs.total_score
    BY <1>1, <1>7, <1>9 DEF GameStates
  <2>2. Table' = Rules!Empty
    BY <2>1 DEF Table, Laid, Rules!Empty
  <2>3. Leader' = winner /\ RoundStage' = RoundStage
    BY <1>6, <2>1 DEF Leader, RoundStage, Playing
  <2>4. Rules!Take
    BY <1>2, <1>4, <1>5, <1>6, <1>9, <2>1, <2>2, <2>3 DEF Rules!Take
  <2> QED
    BY <2>4
<1>10. CASE last
  <2>1. /\ gs'.phase = "SCORING" /\ gs'.round_points = final /\ gs'.total_score = total
        /\ gs'.hand = gs.hand /\ gs'.hearts_broken = gs.hearts_broken
    BY <1>1, <1>7, <1>10 DEF GameStates
  <2>2. Table' = Rules!Empty /\ Leader' = Rules!Nobody /\ RoundStage' = "score"
    BY <1>1, <2>1 DEF Table, Rules!Empty, Leader, Rules!Nobody, NoPlayer, RoundStage, Playing
  <2>3. Four(taken) = Points(Deck)
    <3>1. Points(InHands(gs)) = 0
      BY <1>1, <1>5, <1>10, PartsTyped, PointsOf
    <3>2. Four(gs.round_points) + points + Points(InHands(gs)) = Points(Deck)
      BY <1>1 DEF SumsUp, points
    <3>3. Four(gs.round_points) \in Nat
      BY <1>1, PartsTyped
    <3> QED
      BY <1>3, <1>8, <3>1, <3>2, <3>3
  <2> DEFINE all == Points(Deck)
             moon == {p \in Rules!Seats : taken[p] = all}
  <2>4. Rules!MapThenSumSet(Rules!Worth, Deck) = all
    BY SumOfWorth
  <2>5. all \in Nat
    BY <1>1, PartsTyped
  <2> HIDE DEF all
  <2>6. final = IF moon = {} THEN taken ELSE [p \in Rules!Seats |-> IF p \in moon THEN 0 ELSE all]
    <3>1. \A p \in Players : taken[p] \in Nat
      BY <1>8
    <3>2. taken[0] + taken[1] + taken[2] + taken[3] = all
      BY <2>3 DEF Four, all
    <3>3. \A p \in Players : taken[p] = all => \A q \in Players : q # p => taken[q] = 0
      BY <1>8, <2>3, FourParts DEF all
    <3>4. CASE shooter # NoPlayer
      <4>1. /\ shooter \in Players /\ taken[shooter] > 0
            /\ \A p \in Players : taken[p] > 0 => p = shooter
        BY <1>8, <3>4, ShooterIs DEF shooter
      <4>2. \A p \in Players : p # shooter => taken[p] = 0
        BY <3>1, <4>1
      <4>3. taken[shooter] = all
        BY <3>1, <3>2, <4>1, <4>2 DEF Players
      <4>4. moon = {shooter}
        BY <4>1, <4>2, <4>3, FourSeats
      <4>5. final = [p \in Players |-> IF p = shooter THEN 0 ELSE all]
        BY <3>4, <4>3 DEF final
      <4> HIDE DEF moon
      <4> QED
        BY <4>4, <4>5, FourSeats
    <3>5. CASE shooter = NoPlayer
      <4>1. final = taken
        BY <3>5 DEF final
      <4>2. ASSUME NEW p \in moon PROVE all = 0
        <5>1. SUFFICES ASSUME all > 0 PROVE FALSE
          BY <2>5
        <5>2. p \in Players /\ taken[p] = all
          BY <4>2, FourSeats
        <5>3. {q \in Players : taken[q] > 0} = {p}
          BY <3>1, <3>3, <5>1, <5>2
        <5>4. shooter = p
          <6>1. IsFiniteSet({p}) /\ Cardinality({p}) = 1
            BY FS_Singleton
          <6> QED
            BY <5>3, <6>1 DEF shooter, MoonShooter
        <5> QED
          BY <3>5, <5>2, <5>4 DEF Players, NoPlayer
      <4>3. CASE moon = {}
        BY <4>1, <4>3
      <4>4. CASE moon # {}
        <5>1. all = 0
          BY <4>2, <4>4
        <5>2. \A p \in Players : taken[p] = 0
          BY <1>8, <2>3, <5>1, FourParts DEF all
        <5>3. taken = [p \in Players |-> taken[p]]
          BY <1>8
        <5>4. taken = [p \in Players |-> 0]
          BY <5>2, <5>3
        <5>5. [p \in Rules!Seats |-> IF p \in moon THEN 0 ELSE all] = [p \in Players |-> 0]
          BY <5>1, FourSeats
        <5> QED
          BY <4>1, <4>4, <5>4, <5>5
      <4> QED
        BY <4>3, <4>4
    <3> QED
      BY <3>4, <3>5
  <2>7. total = [p \in Rules!Seats |-> gs.total_score[p] + final[p]]
    BY FourSeats DEF total
  <2> HIDE DEF moon
  <2>8. /\ (gs.round_points)' = final
        /\ (gs.total_score)' = [p \in Rules!Seats |-> gs.total_score[p] + (gs.round_points)'[p]]
        /\ UNCHANGED <<gs.hand, gs.hearts_broken>>
    BY <2>1, <2>7
  <2>9. Rules!TakeLast
    BY <1>2, <1>4, <1>5, <1>6, <1>10, <2>2, <2>4, <2>6, <2>8 DEF Rules!TakeLast, moon
  <2> QED
    BY <2>9
<1> QED
  BY <1>9, <1>10

-----------------------------------------------------------------------------
(* Before and after the play *)

\* Who is found with the two of clubs holds it.
LEMMA FoundHolds ==
  ASSUME NEW hands, \/ game_state_find_two_of_clubs(hands) \in Players
                    \/ \E p \in Players : TwoOfClubs \in hands[p]
  PROVE  /\ game_state_find_two_of_clubs(hands) \in Players
         /\ TwoOfClubs \in hands[game_state_find_two_of_clubs(hands)]
         /\ Rules!Holder(hands) = game_state_find_two_of_clubs(hands)
<1>1. \E p \in Players : TwoOfClubs \in hands[p]
  BY DEF game_state_find_two_of_clubs, NoPlayer, Players
<1>2. game_state_find_two_of_clubs(hands) = CHOOSE p \in Players : TwoOfClubs \in hands[p]
  BY <1>1 DEF game_state_find_two_of_clubs
<1>3. Rules!Holder(hands) = CHOOSE p \in Players : TwoOfClubs \in hands[p]
  BY FourSeats, SameWorth DEF Rules!Holder
<1> QED
  BY <1>1, <1>2, <1>3

LEMMA LeadHoldsStep ==
  ASSUME IInv, IInv', LeadHolds, [Next]_vars PROVE LeadHolds'
<1>1. GoodGame(gs) /\ gs \in GameStates /\ PassLink /\ sg \in ServerGames
  BY DEF IInv, GoodGame
<1>2. CASE GameKept
  BY <1>2 DEF GameKept, Exchanged, LeadHolds, Playing
<1>3. CASE ChoosesPass /\ ~Exchanged'
  <2>1. gs'.phase = "PASSING"
    BY <1>1, <1>3 DEF ChoosesPass, GameStates
  <2> QED
    BY <1>3, <2>1 DEF LeadHolds, Playing, Exchanged
<1>4. CASE \E p \in Players : \E card \in gs.hand[p] : PlaysCard(p, card)
  <2>1. PICK p \in Players : \E card \in gs.hand[p] : PlaysCard(p, card)
    BY <1>4
  <2>2. PICK card \in gs.hand[p] : PlaysCard(p, card)
    BY <2>1
  <2> DEFINE play == [player |-> p, card |-> card]
  <2>3. gs'.trick = Append(gs.trick, play) /\ gs.trick \in Seq(Play)
    BY <1>1, <2>2 DEF PlaysCard, game_state_play_card, GameStates
  <2>4. gs'.trick # <<>>
    BY <2>3
  <2> QED
    BY <2>4 DEF LeadHolds
<1>5. CASE DealNoPass
  <2>1. gs'.hand = gs.hand /\ gs'.lead_player = game_state_find_two_of_clubs(gs.hand)
    BY <1>1, <1>5 DEF DealNoPass, GameStates
  <2>2. \E p \in Players : TwoOfClubs \in gs.hand[p]
    BY <1>1, <1>5 DEF DealNoPass, PassLink, Opening
  <2> QED
    BY <2>1, <2>2, FoundHolds DEF LeadHolds
<1>6. CASE DealPass
  <2>1. gs'.phase = "PASSING"
    BY <1>1, <1>6 DEF DealPass, GameStates
  <2>2. sg'.pass_substate = "CARD_SELECT"
    BY <1>1, <1>6 DEF DealPass, ServerGames
  <2> QED
    BY <2>1, <2>2 DEF LeadHolds, Playing
<1>7. CASE TickExecute
  <2>1. gs' = game_state_execute_pass(gs)
    BY <1>7 DEF TickExecute
  <2>2. gs'.lead_player = game_state_find_two_of_clubs(gs'.hand)
    BY <1>1, <2>1 DEF game_state_execute_pass, GameStates
  <2>3. sg'.pass_substate = "TRANSMUTE"
    BY <1>1, <1>7 DEF TickExecute, ServerGames
  <2>4. gs'.lead_player \in Players
    BY <2>3 DEF IInv, PassLink
  <2> QED
    BY <2>2, <2>4, FoundHolds DEF LeadHolds
<1>8. CASE TickTransmute
  <2>1. /\ gs'.hand = gs.hand /\ gs'.lead_player = gs.lead_player /\ gs'.trick = gs.trick
        /\ gs'.tricks_played = gs.tricks_played
    BY <1>1, <1>8 DEF TickTransmute, GameStates
  <2>2. Playing
    BY <1>8 DEF TickTransmute, Playing
  <2> QED
    BY <2>1, <2>2 DEF LeadHolds
<1>9. CASE TickTrickDone
  <2>1. gs'.tricks_played = gs.tricks_played + 1
    BY <1>1, <1>9 DEF TickTrickDone, game_state_complete_trick, game_state_complete_trick_with, GameStates
  <2>2. gs.tricks_played \in Nat
    BY <1>1 DEF GameStates
  <2> QED
    BY <2>1, <2>2 DEF LeadHolds
<1>10. CASE TickAdvance
  <2>1. PICK hands \in Dealings : gs' = game_state_advance_scoring(gs, hands)
    BY <1>10, DealAssumption DEF TickAdvance
  <2>2. gs'.phase \in {"GAME_OVER", "DEALING"}
    BY <1>1, <2>1 DEF game_state_advance_scoring, game_state_new_round, GameStates
  <2>3. sg'.pass_substate = "IDLE"
    BY <1>1, <1>10 DEF TickAdvance, ServerGames
  <2> QED
    BY <2>2, <2>3 DEF LeadHolds, Playing
<1> QED
  BY <1>2, <1>3, <1>4, <1>5, <1>6, <1>7, <1>8, <1>9, <1>10, GameSteps DEF GameStep

LEMMA StartIsDealt == Init => LeadHolds /\ Rules!Init
<1> SUFFICES ASSUME Init PROVE LeadHolds /\ Rules!Init
  OBVIOUS
<1>1. PICK hands \in Dealings : gs = NewGame(hands)
  BY DealAssumption DEF Init
<1>2. /\ gs.hand = hands /\ gs.phase = "DEALING" /\ gs.hearts_broken = FALSE
      /\ gs.round_points = [p \in Players |-> 0] /\ gs.total_score = [p \in Players |-> 0]
      /\ sg.pass_substate = "IDLE"
  BY <1>1 DEF NewGame, Init
<1>3. ~Playing
  BY <1>2 DEF Playing
<1>4. Rules!Dealt(gs.hand)
  BY <1>2, FourSeats, SameCardinality DEF Dealings, Rules!Dealt
<1>5. /\ RoundStage = "pass" /\ Table = Rules!Empty /\ Leader = Rules!Nobody
  BY <1>2, <1>3 DEF RoundStage, Table, Leader, Rules!Empty, Rules!Nobody, NoPlayer
<1>6. gs.round_points = Rules!Nothing /\ gs.total_score = Rules!Nothing
  BY <1>2, FourSeats DEF Rules!Nothing
<1> QED
  BY <1>2, <1>3, <1>4, <1>5, <1>6 DEF LeadHolds, Rules!Init

\* Without a pass the hands stay, and the holder of the two of clubs leads.
LEMMA NoPassIsExchange ==
  ASSUME IInv, DealNoPass PROVE Rules!Exchange
<1>1. GoodGame(gs) /\ gs \in GameStates /\ PassLink /\ sg \in ServerGames /\ gs.phase = "DEALING"
  BY DEF IInv, GoodGame, DealNoPass
<1>2. /\ gs'.hand = gs.hand /\ gs'.lead_player = game_state_find_two_of_clubs(gs.hand)
      /\ gs'.phase = "PLAYING" /\ gs'.trick = <<>> /\ gs'.hearts_broken = gs.hearts_broken
      /\ gs'.round_points = gs.round_points /\ gs'.total_score = gs.total_score
  BY <1>1 DEF DealNoPass, GameStates
<1>3. \E p \in Players : TwoOfClubs \in gs.hand[p]
  BY <1>1 DEF PassLink, Opening
<1>4. sg.pass_substate = "IDLE" /\ ~Playing /\ RoundStage = "pass"
  BY <1>1 DEF PassLink, Playing, RoundStage
<1>5. Leader' = Rules!Holder((gs.hand)') /\ RoundStage' = "play"
  BY <1>2, <1>3, FoundHolds DEF Leader, RoundStage, Playing
<1>6. Table' = Table
  BY <1>1, <1>2 DEF Table, Laid
<1>7. 0 \in 0 .. 3
  OBVIOUS
<1> QED
  BY <1>2, <1>4, <1>5, <1>6, <1>7 DEF Rules!Exchange

\* Whoever gives to the seat that is to places on gets from the one that is to places back.
LEMMA NeighboursMatch ==
  ASSUME NEW to \in 0 .. 3, NEW p \in Players
  PROVE  /\ (p + to) % 4 \in Players
         /\ (((p + to) % 4) + 4 - to) % 4 = p
         /\ to # 0 => (p + to) % 4 # p
<1>1. p \in 0 .. 3
  BY DEF Players
<1>2. (p + to) % 4 = IF p + to < 4 THEN p + to ELSE p + to - 4
  BY <1>1
<1> DEFINE q == (p + to) % 4
<1>3. q \in 0 .. 3 /\ (to # 0 => q # p) /\ (q + 4 - to = p \/ q + 4 - to = p + 4)
  BY <1>1, <1>2
<1>4. p % 4 = p /\ (p + 4) % 4 = p
  BY <1>1
<1> QED
  BY <1>3, <1>4 DEF Players

\* The exchange: what a neighbour holds afterwards of what a player held is what that
\* player chose to give.
LEMMA PassIsExchange ==
  ASSUME IInv, IInv', TickExecute PROVE Rules!Exchange
<1>1. /\ GoodGame(gs) /\ gs \in GameStates /\ sg \in ServerGames /\ gs.phase = "PASSING"
      /\ gs' = game_state_execute_pass(gs) /\ sg.pass_substate = "EXECUTE"
      /\ game_state_all_passes_ready(gs) /\ CardsOnce(gs) /\ ChosenHeld(gs)
      /\ gs.hand \in [Players -> SUBSET Deck] /\ gs.pass_selections \in [Players -> SUBSET Deck]
      /\ gs.pass_direction \in PassDirections
  BY DEF IInv, GoodGame, FitsPhase, GameStates, TickExecute, PassLink
<1> DEFINE to == PassOffset(gs.pass_direction)
           from(p) == (p + 4 - to) % 4
           hands == [p \in Players |-> (gs.hand[p] \ gs.pass_selections[p]) \cup gs.pass_selections[from(p)]]
<1>2. /\ gs'.hand = hands /\ gs'.lead_player = game_state_find_two_of_clubs(hands)
      /\ gs'.phase = "PASSING" /\ gs'.trick = <<>> /\ gs'.hearts_broken = gs.hearts_broken
      /\ gs'.round_points = gs.round_points /\ gs'.total_score = gs.total_score
  BY <1>1 DEF game_state_execute_pass, GameStates
<1>3. sg'.pass_substate = "TRANSMUTE" /\ gs'.lead_player \in Players
  BY <1>1 DEF IInv, PassLink, TickExecute, ServerGames
<1>4. ~Playing /\ RoundStage = "pass" /\ Playing' /\ RoundStage' = "play"
  BY <1>1, <1>2, <1>3 DEF Playing, RoundStage
<1>5. Leader' = Rules!Holder((gs.hand)')
  BY <1>2, <1>3, <1>4, FoundHolds DEF Leader
<1>6. Table' = Table
  BY <1>1, <1>2 DEF Table
<1>7. to \in 0 .. 3
  BY <1>1 DEF PassOffset, PassDirections
<1> HIDE DEF to
<1> DEFINE next(p) == (p + to) % 4
           given(p) == gs.hand[p] \cap hands[next(p)]
<1>8. \A p \in Players : next(p) \in Players /\ from(next(p)) = p /\ (to # 0 => next(p) # p)
  BY <1>7, NeighboursMatch
<1>9. \A p \in Players : gs.pass_selections[p] \subseteq gs.hand[p]
  BY <1>1 DEF ChosenHeld
<1>10. \A p \in Players : \A q \in Players : p # q => gs.hand[p] \cap gs.hand[q] = {}
  BY <1>1 DEF CardsOnce
<1>11. CASE to = 0
  <2>1. \A p \in Players : from(p) = p
    <3>1. \A p \in 0 .. 3 : (p + 4 - 0) % 4 = p
      OBVIOUS
    <3> QED
      BY <1>11, <3>1 DEF Players
  <2>2. \A p \in Players : hands[p] = gs.hand[p]
    BY <1>9, <2>1
  <2>3. gs.hand = [p \in Players |-> gs.hand[p]] /\ hands = [p \in Players |-> hands[p]]
    BY <1>1
  <2> HIDE DEF hands, from, next
  <2>4. (gs.hand)' = gs.hand
    BY <1>2, <2>2, <2>3
  <2>5. 0 \in 0 .. 3
    OBVIOUS
  <2> QED
    BY <1>2, <1>4, <1>5, <1>6, <2>4, <2>5 DEF Rules!Exchange
<1>12. CASE to # 0
  <2> HIDE DEF from, next
  <2>1. \A p \in Players : hands[next(p)] =
          (gs.hand[next(p)] \ gs.pass_selections[next(p)]) \cup gs.pass_selections[p]
    BY <1>8
  <2>2. \A p \in Players : given(p) = gs.pass_selections[p]
    BY <1>8, <1>9, <1>10, <1>12, <2>1
  <2>3. \A p \in Players : Cardinality(given(p)) = gs.pass_card_count
    <3>1. \A p \in Players : Cardinality(gs.pass_selections[p]) = gs.pass_card_count
      BY <1>1 DEF ChosenHeld, game_state_all_passes_ready
    <3> HIDE DEF given
    <3> QED
      BY <2>2, <3>1
  <2>4. \A p \in Players : hands[next(p)] = (gs.hand[next(p)] \ given(next(p))) \cup given(p)
    BY <1>8, <2>1, <2>2
  <2>5. /\ \A p, q \in Players : Cardinality(given(p)) = Cardinality(given(q))
        /\ \A p \in Players : hands[next(p)] = (gs.hand[next(p)] \ given(next(p))) \cup given(p)
    BY <2>3, <2>4
  <2> HIDE DEF hands
  <2>6. \E k \in 0 .. 3 :
          /\ k # 0
          /\ \A p, q \in Rules!Seats :
               Rules!Cardinality(gs.hand[p] \cap (gs.hand)'[(p + k) % 4])
                 = Rules!Cardinality(gs.hand[q] \cap (gs.hand)'[(q + k) % 4])
          /\ \A p \in Rules!Seats : (gs.hand)'[(p + k) % 4] =
               (gs.hand[(p + k) % 4] \ (gs.hand[(p + k) % 4] \cap (gs.hand)'[(((p + k) % 4) + k) % 4]))
                  \cup (gs.hand[p] \cap (gs.hand)'[(p + k) % 4])
    BY <1>2, <1>7, <1>12, <2>5, FourSeats, SameCardinality DEF next
  <2>7. UNCHANGED <<Table, gs.hearts_broken, gs.round_points, gs.total_score>>
    BY <1>2, <1>6
  <2> QED
    BY <1>4, <1>5, <2>6, <2>7 DEF Rules!Exchange
<1> QED
  BY <1>11, <1>12

\* After the scores the game is over or the next round is dealt.
LEMMA AdvanceIsNext ==
  ASSUME IInv, TickAdvance PROVE Rules!NextRound \/ Rules!Finish
<1>1. GoodGame(gs) /\ gs \in GameStates /\ PassLink /\ sg \in ServerGames /\ gs.phase = "SCORING"
  BY DEF IInv, GoodGame, TickAdvance
<1>2. PICK hands \in Dealings : gs' = game_state_advance_scoring(gs, hands)
  BY DealAssumption DEF TickAdvance
<1>3. sg'.pass_substate = "IDLE" /\ sg.pass_substate = "IDLE"
  BY <1>1 DEF TickAdvance, ServerGames, PassLink
<1>4. /\ RoundStage = "score" /\ Leader = NoPlayer /\ Table = [p \in {} |-> 0]
  BY <1>1, <1>3 DEF RoundStage, Leader, Table, Playing
<1>5. CASE game_state_is_game_over(gs)
  <2>1. /\ gs'.phase = "GAME_OVER" /\ gs'.hand = gs.hand /\ gs'.hearts_broken = gs.hearts_broken
        /\ gs'.round_points = gs.round_points /\ gs'.total_score = gs.total_score
    BY <1>1, <1>2, <1>5 DEF game_state_advance_scoring, GameStates
  <2>2. RoundStage' = "over" /\ Leader' = Leader /\ Table' = Table
    BY <1>3, <1>4, <2>1 DEF RoundStage, Leader, Table, Playing
  <2>3. \E p \in Rules!Seats : gs.total_score[p] >= ScoreLimit
    BY <1>5, FourSeats DEF game_state_is_game_over
  <2>4. Rules!Finish
    BY <1>4, <2>1, <2>2, <2>3 DEF Rules!Finish
  <2> QED
    BY <2>4
<1>6. CASE ~game_state_is_game_over(gs)
  <2>1. /\ gs'.phase = "DEALING" /\ gs'.hand = hands /\ gs'.hearts_broken = FALSE
        /\ gs'.round_points = [p \in Players |-> 0] /\ gs'.total_score = gs.total_score
    BY <1>1, <1>2, <1>6 DEF game_state_advance_scoring, game_state_new_round, GameStates
  <2>2. RoundStage' = "pass" /\ Leader' = Leader /\ Table' = Table
    BY <1>3, <1>4, <2>1 DEF RoundStage, Leader, Table, Playing
  <2>3. \A p \in Rules!Seats : gs.total_score[p] < ScoreLimit
    BY <1>1, <1>6, OptionAssumption, FourSeats DEF game_state_is_game_over, GameStates
  <2>4. Rules!Dealt((gs.hand)')
    BY <2>1, FourSeats, SameCardinality DEF Dealings, Rules!Dealt
  <2>5. (gs.round_points)' = Rules!Nothing
    BY <2>1, FourSeats DEF Rules!Nothing
  <2>6. Rules!NextRound
    BY <1>4, <2>1, <2>2, <2>3, <2>4, <2>5 DEF Rules!NextRound
  <2> QED
    BY <2>6
<1> QED
  BY <1>5, <1>6

\* The rest is nothing the players see of the table.
LEMMA UnseenByTable ==
  ASSUME IInv, \/ GameKept \/ (ChoosesPass /\ ~Exchanged /\ ~Exchanged')
               \/ DealPass \/ TickTransmute
  PROVE  UNCHANGED Rules!tableVars
<1>1. GoodGame(gs) /\ gs \in GameStates /\ PassLink /\ sg \in ServerGames
  BY DEF IInv, GoodGame
<1>2. /\ gs'.hand = gs.hand /\ gs'.hearts_broken = gs.hearts_broken
      /\ gs'.round_points = gs.round_points /\ gs'.total_score = gs.total_score
  BY <1>1 DEF GameKept, ChoosesPass, DealPass, TickTransmute, GameStates
<1>3. Table' = Table /\ Leader' = Leader /\ RoundStage' = RoundStage
  <2>1. CASE GameKept
    BY <2>1 DEF GameKept, Exchanged, Table, Leader, RoundStage, Playing
  <2>2. CASE ChoosesPass /\ ~Exchanged /\ ~Exchanged'
    <3>1. gs.phase = "PASSING" /\ gs'.phase = "PASSING"
      BY <1>1, <2>2 DEF ChoosesPass, GameStates
    <3> QED
      BY <2>2, <3>1 DEF Exchanged, Table, Leader, RoundStage, Playing
  <2>3. CASE DealPass
    <3>1. gs.phase = "DEALING" /\ gs'.phase = "PASSING"
      BY <1>1, <2>3 DEF DealPass, GameStates
    <3>2. sg.pass_substate = "IDLE" /\ sg'.pass_substate = "CARD_SELECT"
      BY <1>1, <2>3, <3>1 DEF DealPass, ServerGames, PassLink
    <3> QED
      BY <3>1, <3>2 DEF Table, Leader, RoundStage, Playing
  <2>4. CASE TickTransmute
    <3>1. /\ gs.phase = "PASSING" /\ gs'.phase = "PLAYING" /\ sg.pass_substate = "TRANSMUTE"
          /\ gs'.lead_player = gs.lead_player /\ gs'.trick = gs.trick
      BY <1>1, <2>4 DEF TickTransmute, GameStates
    <3>2. gs.trick = <<>>
      BY <1>1, <3>1 DEF GoodGame, FitsPhase
    <3> QED
      BY <3>1, <3>2 DEF Table, Laid, Leader, RoundStage, Playing
  <2> QED
    BY <2>1, <2>2, <2>3, <2>4
<1> QED
  BY <1>2, <1>3 DEF Rules!tableVars

LEMMA RInvStep == RInv /\ [Next]_vars => RInv'
<1> SUFFICES ASSUME RInv, [Next]_vars PROVE RInv'
  OBVIOUS
<1>1. IInv'
  BY NextGood DEF RInv
<1>2. SumsUp(gs)'
  <2>1. SumsUp(gs')
    BY SumsStep DEF RInv
  <2> QED
    BY <2>1 DEF SumsUp, InHands
<1>3. LeadHolds'
  BY <1>1, LeadHoldsStep DEF RInv
<1> QED
  BY <1>1, <1>2, <1>3 DEF RInv

LEMMA RulesStep ==
  ASSUME RInv, [Next]_vars PROVE [Rules!Next]_(Rules!tableVars)
<1>1. IInv /\ IInv' /\ SumsUp(gs) /\ LeadHolds
  BY RInvStep DEF RInv
<1>2. CASE GameKept \/ (ChoosesPass /\ ~Exchanged /\ ~Exchanged') \/ DealPass \/ TickTransmute
  BY <1>1, <1>2, UnseenByTable
<1>3. CASE \E p \in Players : \E card \in gs.hand[p] : PlaysCard(p, card)
  BY <1>1, <1>3, PlayIsPlay DEF Rules!Next
<1>4. CASE DealNoPass \/ TickExecute
  BY <1>1, <1>4, NoPassIsExchange, PassIsExchange DEF Rules!Next
<1>5. CASE TickTrickDone
  BY <1>1, <1>5, TrickIsTaken DEF Rules!Next
<1>6. CASE TickAdvance
  BY <1>1, <1>6, AdvanceIsNext DEF Rules!Next
<1> QED
  BY <1>1, <1>2, <1>3, <1>4, <1>5, <1>6, GameSteps DEF GameStep

\* The server keeps the rules of Hearts: whatever order commands, drops, takeovers and
\* timeouts come in, what the players see is a game in which every card is played in turn
\* and allowed, every trick goes to its highest card of the suit led and every moon is paid.
THEOREM HeartsIsPlayed == Spec => RulesKept
<1>1. Init => RInv /\ Rules!Init
  BY InitGood, SumsInit, StartIsDealt DEF RInv
<1>2. RInv /\ [Next]_vars => RInv'
  BY RInvStep
<1>3. RInv /\ [Next]_vars => [Rules!Next]_(Rules!tableVars)
  BY RulesStep
<1> QED
  BY <1>1, <1>2, <1>3, PTL DEF Spec, RulesKept, Rules!Spec

=============================================================================
