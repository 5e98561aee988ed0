--------------------------- MODULE TransmutedProofs ---------------------------
(*****************************************************************************)
(* What holds of TransmutedGame for all definitions, deals, pools of pairs   *)
(* and numbers of tricks.                                                    *)
(*****************************************************************************)
EXTENDS TransmutedGame, FiniteSetTheorems, TLAPS

-----------------------------------------------------------------------------
(* The pairs of a draft *)

Pairs == [contract : DOMAIN ContractDefs, id : DOMAIN Defs]
Boards == [Players -> Seq(Pairs)]
Drafts == [available : Boards, picked : Boards, has_picked : [Players -> BOOLEAN],
           round : Nat, active : BOOLEAN]

\* In round n of a draft every player has picked n pairs, or one more, and the rest is left.
Counted(draft, n) ==
  \A p \in Players :
    LET picked == n + IF draft.has_picked[p] THEN 1 ELSE 0
    IN  Len(draft.picked[p]) = picked /\ Len(draft.available[p]) = GroupSize - picked

\* No contract is at two places of a board, or on two boards.
OnceOn(board) ==
  \A p, q \in Players : \A i \in DOMAIN board[p], j \in DOMAIN board[q] :
    board[p][i].contract = board[q][j].contract => p = q /\ i = j
Apart(board, other) ==
  \A p, q \in Players : \A i \in DOMAIN board[p], j \in DOMAIN other[q] :
    board[p][i].contract # other[q][j].contract

\* A draft in its round n.
Drafted(draft, n) ==
  /\ draft \in Drafts /\ Counted(draft, n)
  /\ OnceOn(draft.available) /\ OnceOn(draft.picked) /\ Apart(draft.available, draft.picked)

\* What RemoveAt leaves of a sequence.
LEMMA Removed ==
  ASSUME NEW S, NEW s \in Seq(S), NEW i \in DOMAIN s
  PROVE  /\ RemoveAt(s, i) \in Seq(S) /\ Len(RemoveAt(s, i)) = Len(s) - 1
         /\ DOMAIN RemoveAt(s, i) = 1 .. Len(s) - 1
         /\ \A k \in 1 .. Len(s) - 1 : RemoveAt(s, i)[k] = s[IF k < i THEN k ELSE k + 1]
<1>1. i \in 1 .. Len(s) /\ Len(s) \in Nat
  OBVIOUS
<1> DEFINE before == SubSeq(s, 1, i - 1)
           after == SubSeq(s, i + 1, Len(s))
<1>2. before \in Seq(S) /\ Len(before) = i - 1 /\ \A k \in 1 .. i - 1 : before[k] = s[k]
  BY <1>1
<1>3. after \in Seq(S) /\ Len(after) = Len(s) - i /\ \A k \in 1 .. Len(s) - i : after[k] = s[k + i]
  BY <1>1
<1>4. RemoveAt(s, i) = before \o after
  BY DEF RemoveAt
<1> HIDE DEF before, after
<1>5. before \o after \in Seq(S) /\ Len(before \o after) = Len(s) - 1
  BY <1>1, <1>2, <1>3
<1>6. ASSUME NEW k \in 1 .. Len(s) - 1
      PROVE  (before \o after)[k] = s[IF k < i THEN k ELSE k + 1]
  <2>1. CASE k < i
    BY <1>1, <1>2, <1>3, <2>1
  <2>2. CASE k >= i
    <3>1. (before \o after)[k] = after[k - (i - 1)] /\ k - (i - 1) \in 1 .. Len(s) - i
      BY <1>1, <1>2, <1>3, <2>2
    <3> QED
      BY <1>1, <1>3, <2>2, <3>1
  <2>3. k < i \/ k >= i
    BY <1>1
  <2> QED
    BY <2>1, <2>2, <2>3
<1>7. DOMAIN (before \o after) = 1 .. Len(s) - 1
  BY <1>5
<1> QED
  BY <1>4, <1>5, <1>6, <1>7

\* What a pick does to a draft, whether it goes on or not.
LEMMA PickFields ==
  ASSUME NEW d \in Drafts, NEW p \in Players, NEW i \in DOMAIN d.available[p]
  PROVE  LET e == draft_pick(d, p, i)
             here == d.available[p]
         IN  /\ e.available = [d.available EXCEPT ![p] = RemoveAt(here, i)]
             /\ e.picked = [d.picked EXCEPT ![p] = Append(@, here[i])]
             /\ e.has_picked = [d.has_picked EXCEPT ![p] = TRUE]
             /\ e.round = d.round /\ e.active = d.active
             /\ e \in Drafts
<1> DEFINE e == draft_pick(d, p, i)
           here == d.available[p]
<1>1. d \in Drafts /\ here \in Seq(Pairs) /\ here[i] \in Pairs
  BY DEF Drafts, Boards
<1>2. /\ e.available = [d.available EXCEPT ![p] = RemoveAt(here, i)]
      /\ e.picked = [d.picked EXCEPT ![p] = Append(@, here[i])]
      /\ e.has_picked = [d.has_picked EXCEPT ![p] = TRUE]
      /\ e.round = d.round /\ e.active = d.active
  BY <1>1 DEF draft_pick, Drafts
<1>3. RemoveAt(here, i) \in Seq(Pairs)
  BY <1>1, Removed
<1>4. d.picked[p] \in Seq(Pairs) /\ Append(d.picked[p], here[i]) \in Seq(Pairs)
  BY <1>1 DEF Drafts, Boards
<1> HIDE DEF e
<1>5. e \in Drafts
  <2>1. [d.available EXCEPT ![p] = RemoveAt(here, i)] \in Boards
    BY <1>1, <1>3 DEF Boards, Drafts
  <2>2. [d.picked EXCEPT ![p] = Append(@, here[i])] \in Boards
    BY <1>1, <1>4 DEF Boards, Drafts
  <2>3. [d.has_picked EXCEPT ![p] = TRUE] \in [Players -> BOOLEAN]
    BY <1>1 DEF Drafts
  <2> QED
    BY <1>1, <2>1, <2>2, <2>3 DEF Drafts, draft_pick, e
<1> QED
  BY <1>2, <1>5 DEF e

\* A pick of a player who has not picked yet.
LEMMA PickKeeps ==
  ASSUME NEW d, NEW n \in Nat, Drafted(d, n), NEW p \in Players, ~d.has_picked[p],
         NEW i \in DOMAIN d.available[p]
  PROVE  /\ Drafted(draft_pick(d, p, i), n)
         /\ draft_pick(d, p, i).active = d.active /\ draft_pick(d, p, i).round = d.round
         /\ \A q \in Players \ {p} : /\ draft_pick(d, p, i).available[q] = d.available[q]
                                     /\ draft_pick(d, p, i).has_picked[q] = d.has_picked[q]
<1> DEFINE e == draft_pick(d, p, i)
           here == d.available[p]
<1>1. d \in Drafts /\ here \in Seq(Pairs) /\ here[i] \in Pairs
  BY DEF Drafted, Drafts, Boards
<1>2. /\ e.available = [d.available EXCEPT ![p] = RemoveAt(here, i)]
      /\ e.picked = [d.picked EXCEPT ![p] = Append(@, here[i])]
      /\ e.has_picked = [d.has_picked EXCEPT ![p] = TRUE]
      /\ e.round = d.round /\ e.active = d.active /\ e \in Drafts
  BY <1>1, PickFields
<1>3. /\ RemoveAt(here, i) \in Seq(Pairs) /\ Len(RemoveAt(here, i)) = Len(here) - 1
      /\ DOMAIN RemoveAt(here, i) = 1 .. Len(here) - 1
      /\ \A k \in 1 .. Len(here) - 1 : RemoveAt(here, i)[k] = here[IF k < i THEN k ELSE k + 1]
  BY <1>1, Removed
<1>4. d.picked[p] \in Seq(Pairs) /\ Append(d.picked[p], here[i]) \in Seq(Pairs)
  BY <1>1 DEF Drafts, Boards
<1> HIDE DEF e
<1>5. e \in Drafts
  BY <1>2
<1>6. Counted(e, n)
  <2> SUFFICES ASSUME NEW q \in Players
               PROVE  LET many == n + IF e.has_picked[q] THEN 1 ELSE 0
                      IN  Len(e.picked[q]) = many /\ Len(e.available[q]) = GroupSize - many
    BY DEF Counted
  <2>1. CASE q = p
    <3>0. e.has_picked[q] = TRUE
      BY <1>1, <1>2, <2>1 DEF Drafts
    <3>a. e.picked[q] = Append(d.picked[p], here[i]) /\ e.available[q] = RemoveAt(here, i)
      BY <1>1, <1>2, <2>1 DEF Drafts, Boards
    <3>1. Len(e.picked[q]) = Len(d.picked[p]) + 1 /\ Len(e.available[q]) = Len(here) - 1
      BY <1>1, <1>3, <1>4, <3>a
    <3>2. Len(d.picked[p]) = n /\ Len(here) = GroupSize - n
      BY DEF Drafted, Counted
    <3> QED
      BY <3>0, <3>1, <3>2, PoolAssumption
  <2>2. CASE q # p
    BY <1>1, <1>2, <2>2 DEF Drafts, Boards, Drafted, Counted
  <2> QED
    BY <2>1, <2>2
\* Where what is at a place now was before.
<1>7. /\ OnceOn(d.available) /\ OnceOn(d.picked) /\ Apart(d.available, d.picked)
  BY DEF Drafted
<1>8. ASSUME NEW q \in Players, NEW k \in DOMAIN e.available[q]
      PROVE  LET b == IF q = p /\ k >= i THEN k + 1 ELSE k
             IN  b \in DOMAIN d.available[q] /\ e.available[q][k] = d.available[q][b] /\ (q = p => b # i)
  <2>1. CASE q = p
    <3>1. e.available[q] = RemoveAt(here, i)
      BY <1>1, <1>2, <2>1 DEF Drafts, Boards
    <3>2. k \in 1 .. Len(here) - 1 /\ DOMAIN here = 1 .. Len(here) /\ Len(here) \in Nat
      BY <1>1, <1>3, <3>1
    <3> QED
      BY <1>3, <2>1, <3>1, <3>2
  <2>2. CASE q # p
    BY <1>1, <1>2, <2>2 DEF Drafts, Boards
  <2> QED
    BY <2>1, <2>2
<1>9. ASSUME NEW q \in Players, NEW k \in DOMAIN e.picked[q]
      PROVE  \/ k \in DOMAIN d.picked[q] /\ e.picked[q][k] = d.picked[q][k]
             \/ q = p /\ k = Len(d.picked[p]) + 1 /\ e.picked[q][k] = here[i]
  <2>1. CASE q = p
    <3>1. e.picked[q] = Append(d.picked[p], here[i])
      BY <1>1, <1>2, <2>1 DEF Drafts, Boards
    <3> QED
      BY <1>4, <2>1, <3>1
  <2>2. CASE q # p
    BY <1>1, <1>2, <2>2 DEF Drafts, Boards
  <2> QED
    BY <2>1, <2>2
<1>10. i \in Int /\ \A q \in Players : DOMAIN d.available[q] \subseteq Int /\ DOMAIN e.available[q] \subseteq Int
  BY <1>1, <1>5 DEF Drafts, Boards
<1>11. OnceOn(e.available)
  <2> SUFFICES ASSUME NEW q \in Players, NEW r \in Players, NEW k \in DOMAIN e.available[q],
                      NEW l \in DOMAIN e.available[r],
                      e.available[q][k].contract = e.available[r][l].contract
               PROVE  q = r /\ k = l
    BY DEF OnceOn
  <2> DEFINE bk == IF q = p /\ k >= i THEN k + 1 ELSE k
             bl == IF r = p /\ l >= i THEN l + 1 ELSE l
  <2>1. bk \in DOMAIN d.available[q] /\ e.available[q][k] = d.available[q][bk]
    BY <1>8
  <2>2. bl \in DOMAIN d.available[r] /\ e.available[r][l] = d.available[r][bl]
    BY <1>8
  <2>3. q = r /\ bk = bl
    BY <1>7, <2>1, <2>2 DEF OnceOn
  <2> QED
    BY <2>3, <1>10
<1>12. OnceOn(e.picked)
  <2> SUFFICES ASSUME NEW q \in Players, NEW r \in Players, NEW k \in DOMAIN e.picked[q],
                      NEW l \in DOMAIN e.picked[r],
                      e.picked[q][k].contract = e.picked[r][l].contract
               PROVE  q = r /\ k = l
    BY DEF OnceOn
  <2> QED
    BY <1>7, <1>9 DEF OnceOn, Apart
<1>13. Apart(e.available, e.picked)
  <2> SUFFICES ASSUME NEW q \in Players, NEW r \in Players, NEW k \in DOMAIN e.available[q],
                      NEW l \in DOMAIN e.picked[r]
               PROVE  e.available[q][k].contract # e.picked[r][l].contract
    BY DEF Apart
  <2> DEFINE bk == IF q = p /\ k >= i THEN k + 1 ELSE k
  <2>1. bk \in DOMAIN d.available[q] /\ e.available[q][k] = d.available[q][bk] /\ (q = p => bk # i)
    BY <1>8
  <2> HIDE DEF bk
  <2> QED
    BY <1>7, <1>9, <2>1 DEF OnceOn, Apart
<1>14. \A q \in Players \ {p} : e.available[q] = d.available[q] /\ e.has_picked[q] = d.has_picked[q]
  BY <1>1, <1>2 DEF Drafts, Boards
<1> QED
  BY <1>2, <1>5, <1>6, <1>11, <1>12, <1>13, <1>14 DEF Drafted, e

\* One player's turn to pick.
PickOf(d, choice, p) == IF p \in DOMAIN choice THEN draft_pick(d, p, choice[p]) ELSE d
MayPick(d, choice, p) ==
  p \in DOMAIN choice => ~d.has_picked[p] /\ choice[p] \in DOMAIN d.available[p]

\* A player who is due picks, and the others are left as they are.
LEMMA PickOfKeeps ==
  ASSUME NEW d, NEW n \in Nat, Drafted(d, n), NEW choice, NEW p \in Players, MayPick(d, choice, p)
  PROVE  /\ Drafted(PickOf(d, choice, p), n)
         /\ PickOf(d, choice, p).active = d.active /\ PickOf(d, choice, p).round = d.round
         /\ \A q \in Players \ {p} :
              MayPick(d, choice, q) => MayPick(PickOf(d, choice, p), choice, q)
  BY PickKeeps DEF PickOf, MayPick

\* The picks of all the players who are due keep the pairs whole.
LEMMA InTurnKeeps ==
  ASSUME NEW d, NEW n \in Nat, Drafted(d, n), NEW choice, \A p \in Players : MayPick(d, choice, p)
  PROVE  /\ Drafted(InTurn(d, choice), n)
         /\ InTurn(d, choice).active = d.active /\ InTurn(d, choice).round = d.round
<1> DEFINE a == PickOf(d, choice, 0)
           b == PickOf(a, choice, 1)
           c == PickOf(b, choice, 2)
           e == PickOf(c, choice, 3)
<1>0. 0 \in Players /\ 1 \in Players /\ 2 \in Players /\ 3 \in Players
  BY DEF Players
<1>1. /\ Drafted(a, n) /\ a.active = d.active /\ a.round = d.round
      /\ MayPick(a, choice, 1) /\ MayPick(a, choice, 2) /\ MayPick(a, choice, 3)
  BY <1>0, PickOfKeeps
<1> HIDE DEF a
<1>2. /\ Drafted(b, n) /\ b.active = a.active /\ b.round = a.round
      /\ MayPick(b, choice, 2) /\ MayPick(b, choice, 3)
  BY <1>0, <1>1, PickOfKeeps
<1> HIDE DEF b
<1>3. /\ Drafted(c, n) /\ c.active = b.active /\ c.round = b.round
      /\ MayPick(c, choice, 3)
  BY <1>0, <1>2, PickOfKeeps
<1> HIDE DEF c
<1>4. Drafted(e, n) /\ e.active = c.active /\ e.round = c.round
  BY <1>0, <1>3, PickOfKeeps
<1> HIDE DEF e
<1>5. e = InTurn(d, choice)
  BY DEF e, c, b, a, PickOf, InTurn
<1> QED
  BY <1>1, <1>2, <1>3, <1>4, <1>5

\* A new draft is in its round 0.
LEMMA PoolDrafted ==
  ASSUME NEW pool \in Pools
  PROVE  /\ Drafted(draft_generate_pool(pool), 0)
         /\ draft_generate_pool(pool).active /\ draft_generate_pool(pool).round = 0
<1> DEFINE d == draft_generate_pool(pool)
<1>1. /\ pool \in [Players -> [1 .. GroupSize -> Pairs]]
      /\ \A p, q \in Players : \A i, j \in 1 .. GroupSize :
           <<p, i>> # <<q, j>> => pool[p][i].contract # pool[q][j].contract
  BY PoolAssumption DEF Pairs
<1>2. GroupSize \in Nat
  BY PoolAssumption
<1>3. /\ d.available = pool /\ d.picked = [p \in Players |-> <<>>]
      /\ d.has_picked = [p \in Players |-> FALSE] /\ d.round = 0 /\ d.active = TRUE
  BY DEF draft_generate_pool
<1>4. \A p \in Players : pool[p] \in Seq(Pairs) /\ Len(pool[p]) = GroupSize /\ DOMAIN pool[p] = 1 .. GroupSize
  BY <1>1, <1>2
<1>5. d \in Drafts
  BY <1>1, <1>4 DEF draft_generate_pool, Drafts, Boards
<1>6. Counted(d, 0)
  BY <1>2, <1>3, <1>4 DEF Counted
<1>7. OnceOn(d.available)
  BY <1>1, <1>3, <1>4 DEF OnceOn
<1>8. OnceOn(d.picked) /\ Apart(d.available, d.picked)
  BY <1>3 DEF OnceOn, Apart
<1> QED
  BY <1>3, <1>5, <1>6, <1>7, <1>8 DEF Drafted

\* When everybody has picked, the pairs that are left go round and the next round begins.
LEMMA AdvanceKeeps ==
  ASSUME NEW d, NEW n \in Nat, Drafted(d, n), d.round = n, n + 1 < DraftRounds, draft_all_picked(d)
  PROVE  /\ Drafted(draft_advance_round(d), n + 1)
         /\ draft_advance_round(d).active = d.active /\ draft_advance_round(d).round = n + 1
<1> DEFINE e == draft_advance_round(d)
<1>1. /\ d \in Drafts /\ OnceOn(d.available) /\ OnceOn(d.picked) /\ Apart(d.available, d.picked)
      /\ \A p \in Players : d.has_picked[p]
  BY DEF Drafted, draft_all_picked
<1>2. \A p \in Players : Left(p) \in Players
  BY DEF Players, Left
<1>3. \A p, q \in Players : Left(p) = Left(q) => p = q
  BY DEF Players, Left
<1>4. DraftRounds \in Nat /\ GroupSize \in Nat
  BY PoolAssumption
<1>0. e = [d EXCEPT !.round = @ + 1, !.has_picked = [p \in Players |-> FALSE],
                     !.available = [p \in Players |-> d.available[Left(p)]]]
  <2>1. ~(d.round + 1 >= DraftRounds)
    BY <1>4
  <2> QED
    BY <2>1 DEF draft_advance_round
<1>5. /\ e.available = [p \in Players |-> d.available[Left(p)]] /\ e.picked = d.picked
      /\ e.has_picked = [p \in Players |-> FALSE] /\ e.round = n + 1 /\ e.active = d.active
  BY <1>1, <1>0 DEF Drafts
<1>6. e \in Drafts
  <2>1. [p \in Players |-> d.available[Left(p)]] \in Boards
    BY <1>1, <1>2 DEF Drafts, Boards
  <2>2. [p \in Players |-> FALSE] \in [Players -> BOOLEAN] /\ d.round + 1 \in Nat
    OBVIOUS
  <2> QED
    BY <1>1, <1>0, <2>1, <2>2 DEF Drafts
<1> HIDE DEF e
<1>7. Counted(e, n + 1)
  <2> SUFFICES ASSUME NEW p \in Players
               PROVE  Len(e.picked[p]) = n + 1 /\ Len(e.available[p]) = GroupSize - (n + 1)
    BY <1>5 DEF Counted
  <2>1. Len(d.picked[p]) = n + 1 /\ Len(d.available[Left(p)]) = GroupSize - (n + 1)
    BY <1>1, <1>2 DEF Drafted, Counted
  <2> QED
    BY <1>5, <2>1
<1>8. OnceOn(e.available)
  BY <1>1, <1>2, <1>3, <1>5 DEF OnceOn
<1>9. Apart(e.available, e.picked) /\ OnceOn(e.picked)
  BY <1>1, <1>2, <1>5 DEF Apart
<1> QED
  BY <1>5, <1>6, <1>7, <1>8, <1>9 DEF Drafted, e

\* The contracts of all the players are different ones, DraftRounds of each player.
Drawn(contracts) ==
  /\ DOMAIN contracts = Players /\ \A p \in Players : DOMAIN contracts[p] = 1 .. DraftRounds
  /\ OnceOn(contracts)

\* When the last round has been picked the contracts are made of what was picked.
LEMMA FinalizeDraws ==
  ASSUME NEW d, NEW n \in Nat, Drafted(d, n), n + 1 = DraftRounds, draft_all_picked(d),
         NEW p2_, {"contracts", "draft"} \subseteq DOMAIN p2_
  PROVE  /\ Drawn(draft_finalize(d, p2_).contracts)
         /\ draft_finalize(d, p2_).draft \in Drafts /\ ~draft_finalize(d, p2_).draft.active
<1> DEFINE cs == [p \in Players |-> [i \in DOMAIN d.picked[p] |-> NewContract(d.picked[p][i])]]
<1>1. d \in Drafts /\ OnceOn(d.picked) /\ \A p \in Players : Len(d.picked[p]) = n + 1
  BY DEF Drafted, Counted, draft_all_picked
<1>2. draft_finalize(d, p2_).contracts = cs /\ draft_finalize(d, p2_).draft = [d EXCEPT !.active = FALSE]
  BY DEF draft_finalize
<1>3. [d EXCEPT !.active = FALSE] \in Drafts /\ ~[d EXCEPT !.active = FALSE].active
  BY <1>1 DEF Drafts
<1>4. \A p \in Players : DOMAIN d.picked[p] = 1 .. DraftRounds
  BY <1>1 DEF Drafts, Boards
<1>5. \A p \in Players : \A i \in DOMAIN cs[p] : cs[p][i].contract = d.picked[p][i].contract
  BY DEF NewContract
<1>6. OnceOn(cs)
  <2>1. \A p \in Players : DOMAIN cs[p] = DOMAIN d.picked[p]
    OBVIOUS
  <2> HIDE DEF cs
  <2> QED
    BY <1>1, <1>5, <2>1 DEF OnceOn
<1> QED
  BY <1>2, <1>3, <1>4, <1>6 DEF Drawn

-----------------------------------------------------------------------------
(* The inductive invariant *)

\* What the proofs read of the three records is there.
Shape ==
  /\ {"phase", "tricks_played", "trick", "lead_player", "round_points", "moon_shooter",
      "pass_direction"} \subseteq DOMAIN gs
  /\ {"pass_substate", "play_substate", "draft_initialized", "draft_round", "tti"} \subseteq DOMAIN sg
  /\ {"draft", "contracts"} \subseteq DOMAIN p2
  /\ gs.phase \in Phases /\ sg.draft_initialized \in BOOLEAN /\ p2.draft \in Drafts

\* A draft goes on in its sub-state and nowhere else, in the round the game is in.
DraftGoesOn ==
  /\ p2.draft.active =>
       /\ gs.phase = "PASSING" /\ sg.pass_substate = "CONTRACT_DRAFT" /\ sg.draft_initialized
       /\ sg.draft_round \in Nat /\ p2.draft.round = sg.draft_round /\ sg.draft_round < DraftRounds
       /\ Drafted(p2.draft, sg.draft_round)
  /\ gs.phase = "PASSING" /\ sg.pass_substate = "CONTRACT_DRAFT" =>
       IF sg.draft_initialized THEN p2.draft.active ELSE sg.draft_round = 0
  /\ sg.pass_substate = "CARD_SELECT" => gs.phase = "PASSING"

TrickOfPlayers(trick) ==
  /\ trick \in Seq(Range(trick))
  /\ \A i \in DOMAIN trick : "player" \in DOMAIN trick[i] /\ trick[i].player \in Players

\* What is on the table.
OnTheTable ==
  /\ TrickOfPlayers(gs.trick)
  /\ gs.lead_player \in Int /\ DOMAIN sg.tti = 1 .. CardsPerTrick
  /\ gs.phase \in {"DEALING", "PASSING"} => gs.trick = <<>> /\ gs.tricks_played = 0
  /\ gs.phase = "PLAYING" =>
       /\ sg.play_substate \in {"WAIT_TURN", "TRICK_DONE", "ROGUE_WAIT"}
       /\ IF sg.play_substate = "TRICK_DONE" THEN Len(gs.trick) = CardsPerTrick
          ELSE Len(gs.trick) < CardsPerTrick
  /\ gs.tricks_played \in Nat
  /\ gs.phase \in {"DEALING", "PASSING", "PLAYING"} => gs.round_points \in [Players -> Int]

\* After t tricks, won are the numbers of those a player took: s of them in a row up to the
\* last one, and m in the longest run.
Runs(s, m, won, t) ==
  /\ s \in 0 .. t /\ t - s .. t - 1 \subseteq won /\ (s < t => t - s - 1 \notin won)
  /\ m \in 0 .. t /\ (m > 0 => \E a \in 0 .. t - 1 : a .. a + m - 1 \subseteq won)
  /\ \A a \in 0 .. t - 1, n \in 0 .. t : a .. a + n - 1 \subseteq won => n <= m

\* A contract has counted the first t tricks.
Logged(contract, won, t) ==
  /\ {"contract", "tricks", "streak", "max_streak"} \subseteq DOMAIN contract
  /\ contract.tricks = won /\ Runs(contract.streak, contract.max_streak, won, t)

WonBy(contracts, p) == contracts[p][1].tricks

\* The contracts after the first t tricks.
Entered(contracts, t) ==
  /\ Drawn(contracts)
  /\ UNION {WonBy(contracts, p) : p \in Players} = 0 .. t - 1
  /\ Sum([p \in Players |-> Cardinality(WonBy(contracts, p))]) = t
  /\ \A p \in Players : \A c \in 1 .. DraftRounds : Logged(contracts[p][c], WonBy(contracts, p), t)

\* From the end of the draft to the last trick.
ContractsCount ==
  \/ gs.phase = "PASSING" /\ sg.pass_substate \in {"CARD_SELECT", "EXECUTE", "TRANSMUTE"}
  \/ gs.phase = "PLAYING"
  => Entered(p2.contracts, gs.tricks_played)

Inv == Shape /\ DraftGoesOn /\ OnTheTable /\ ContractsCount

-----------------------------------------------------------------------------
(* The winner of a trick *)

\* Among places of a trick there is a first and a last one.
LEMMA MaxMinOfPlaces ==
  ASSUME NEW S \in SUBSET (1 .. 4), S # {}
  PROVE  Max(S) \in S /\ Min(S) \in S
<1>0. PICK some \in S : TRUE
  OBVIOUS
<1>a. \A x \in S : x = 1 \/ x = 2 \/ x = 3 \/ x = 4
  OBVIOUS
<1>1. \E x \in S : \A y \in S : x >= y
  <2>1. CASE 4 \in S
    BY <1>a, <2>1
  <2>2. CASE 4 \notin S /\ 3 \in S
    BY <1>a, <2>2
  <2>3. CASE 4 \notin S /\ 3 \notin S /\ 2 \in S
    BY <1>a, <2>3
  <2>4. CASE 4 \notin S /\ 3 \notin S /\ 2 \notin S
    BY <1>0, <1>a, <2>4
  <2> QED
    BY <2>1, <2>2, <2>3, <2>4
<1>2. \E x \in S : \A y \in S : x =< y
  <2>1. CASE 1 \in S
    BY <1>a, <2>1
  <2>2. CASE 1 \notin S /\ 2 \in S
    BY <1>a, <2>2
  <2>3. CASE 1 \notin S /\ 2 \notin S /\ 3 \in S
    BY <1>a, <2>3
  <2>4. CASE 1 \notin S /\ 2 \notin S /\ 3 \notin S
    BY <1>0, <1>a, <2>4
  <2> QED
    BY <2>1, <2>2, <2>3, <2>4
<1> QED
  BY <1>1, <1>2 DEF Max, Min

\* FirstHighest finds one of the places, if there is one.
LEMMA FirstHighestIsOne ==
  ASSUME NEW trick, NEW places \in SUBSET (1 .. 4), places # {}
  PROVE  FirstHighest(trick, places) \in places
<1>0. PICK some \in places : TRUE
  OBVIOUS
<1>1. 1 \in places \/ 2 \in places \/ 3 \in places \/ 4 \in places
  <2>1. some = 1 \/ some = 2 \/ some = 3 \/ some = 4
    OBVIOUS
  <2> QED
    BY <2>1
<1> QED
  BY <1>1 DEF FirstHighest

\* Whatever the effects of its cards, one of the four players takes a full trick.
LEMMA WinnerIsAPlayer ==
  ASSUME NEW played, TrickOfPlayers(played), Len(played) = CardsPerTrick,
         NEW tti, DOMAIN tti = 1 .. CardsPerTrick, NEW state
  PROVE  transmute_trick_get_winner(played, tti, state) \subseteq Players
<1> DEFINE trick == [i \in DOMAIN played |-> Resolved(played[i], tti[i])]
           led == {i \in DOMAIN trick : trick[i].card[1] = LeadSuit(trick)}
           wins == {i \in DOMAIN trick : SpecialAt(tti, i) = "ALWAYS_WIN"}
           bound == {i \in DOMAIN trick : state.binding[trick[i].player]
                                          /\ ~(i > 1 /\ tti[i].effect = "JOKER")}
<1>1. DOMAIN played = 1 .. 4 /\ DOMAIN trick = 1 .. 4 /\ DOMAIN tti = 1 .. 4
  BY DEF TrickOfPlayers, CardsPerTrick
<1>2. \A i \in 1 .. 4 : trick[i].player \in Players
  BY <1>1 DEF TrickOfPlayers, Resolved
<1>3. led \in SUBSET (1 .. 4) /\ 1 \in led
  BY <1>1 DEF LeadSuit
<1>4. wins \in SUBSET (1 .. 4) /\ bound \in SUBSET (1 .. 4) /\ Contenders(tti) \in SUBSET (1 .. 4)
  BY <1>1 DEF Contenders
<1>5. wins # {} => Max(wins) \in 1 .. 4
  BY <1>4, MaxMinOfPlaces
<1>6. bound # {} => Min(bound) \in 1 .. 4
  BY <1>4, MaxMinOfPlaces
<1>7. Contenders(tti) # {} => FirstHighest(trick, Contenders(tti)) \in 1 .. 4
  BY <1>4, FirstHighestIsOne
<1>8. led \cap Contenders(tti) # {} => FirstHighest(trick, led \cap Contenders(tti)) \in 1 .. 4
  <2>1. \A places \in SUBSET (1 .. 4) : places # {} => FirstHighest(trick, places) \in places
    BY FirstHighestIsOne
  <2>2. led \cap Contenders(tti) \in SUBSET (1 .. 4)
    BY <1>3
  <2> HIDE DEF trick, led
  <2> QED
    BY <2>1, <2>2
<1>9. FirstHighest(trick, led) \in 1 .. 4
  BY <1>3, FirstHighestIsOne
<1>10. transmute_trick_get_winner(played, tti, state) =
         IF tti[1].effect = "JOKER" THEN {trick[1].player}
         ELSE IF wins # {} THEN {trick[Max(wins)].player}
         ELSE IF bound # {} THEN {trick[Min(bound)].player}
         ELSE IF HasEffect(tti, "ROULETTE") /\ Contenders(tti) # {}
              THEN {trick[i].player : i \in Contenders(tti)}
         ELSE IF HasEffect(tti, "CROWN") /\ Contenders(tti) # {}
              THEN {trick[FirstHighest(trick, Contenders(tti))].player}
         ELSE IF led \cap Contenders(tti) # {}
              THEN {trick[FirstHighest(trick, led \cap Contenders(tti))].player}
         ELSE {trick[FirstHighest(trick, led)].player}
  BY DEF transmute_trick_get_winner
<1> HIDE DEF trick, led, wins, bound
<1> QED
  BY <1>2, <1>4, <1>5, <1>6, <1>7, <1>8, <1>9, <1>10

-----------------------------------------------------------------------------
(* The streaks *)

\* A trick more that is won, or is not.
LEMMA RunGoesOn ==
  ASSUME NEW t \in Nat, NEW won \in SUBSET (0 .. t - 1), NEW s, NEW m,
         s \in 0 .. t, t - s .. t - 1 \subseteq won, s < t => t - s - 1 \notin won,
         m \in 0 .. t, m > 0 => \E a \in 0 .. t - 1 : a .. a + m - 1 \subseteq won,
         \A a \in 0 .. t - 1, n \in 0 .. t : a .. a + n - 1 \subseteq won => n <= m
  PROVE  Runs(s + 1, Max({m, s + 1}), won \cup {t}, t + 1)
<1> DEFINE W == won \cup {t}
           top == IF m >= s + 1 THEN m ELSE s + 1
<1>1. Max({m, s + 1}) = top
  BY DEF Max
<1>2. top \in 0 .. t + 1 /\ s + 1 \in 0 .. t + 1 /\ top >= m /\ top >= s + 1
  OBVIOUS
<1>3. (t + 1) - 1 = t /\ (t + 1) - (s + 1) = t - s
  OBVIOUS
<1>4. t - s .. t \subseteq W
  <2> SUFFICES ASSUME NEW x \in t - s .. t PROVE x \in W
    OBVIOUS
  <2>1. x = t \/ x \in t - s .. t - 1
    OBVIOUS
  <2> QED
    BY <2>1
<1>5. s + 1 < t + 1 => t - s - 1 \notin W
  OBVIOUS
<1>6. \E a \in 0 .. t : a .. a + top - 1 \subseteq W
  <2>1. CASE m >= s + 1
    <3>1. m > 0 /\ top = m
      BY <2>1
    <3>2. PICK a \in 0 .. t - 1 : a .. a + m - 1 \subseteq won
      BY <3>1
    <3>3. a \in 0 .. t /\ a .. a + m - 1 \subseteq W
      BY <3>2
    <3> QED
      BY <3>1, <3>3
  <2>2. CASE ~(m >= s + 1)
    <3>1. t - s \in 0 .. t /\ t - s + top - 1 = t
      BY <2>2
    <3>2. t - s .. t - s + top - 1 \subseteq W
      BY <1>4, <3>1
    <3> QED
      BY <3>1, <3>2
  <2> QED
    BY <2>1, <2>2
<1>7. ASSUME NEW a \in 0 .. t, NEW n \in 0 .. t + 1, a .. a + n - 1 \subseteq W
      PROVE  n <= top
  <2>1. CASE n = 0
    BY <2>1
  <2>2. CASE n > 0 /\ a + n - 1 < t
    <3>1. a .. a + n - 1 \subseteq won /\ a \in 0 .. t - 1 /\ n \in 0 .. t
      BY <1>7, <2>2
    <3>2. n <= m
      BY <3>1
    <3> QED
      BY <1>2, <3>2
  <2>3. CASE n > 0 /\ a + n - 1 = t
    \* It ends with this trick, and so is no longer than the streak that does.
    <3>1. ASSUME n > s + 1
          PROVE  FALSE
      <4>1. t - s - 1 \in a .. a + n - 1 /\ t - s - 1 < t /\ s < t
        BY <2>3, <3>1
      <4>2. t - s - 1 \in won
        BY <1>7, <4>1
      <4> QED
        BY <4>1, <4>2
    <3>2. n <= s + 1
      BY <3>1
    <3> QED
      BY <1>2, <3>2
  <2>4. n > 0 => a + n - 1 \in W /\ a + n - 1 <= t
    BY <1>7
  <2> QED
    BY <2>1, <2>2, <2>3, <2>4
<1> HIDE DEF top, W
<1> SUFFICES Runs(s + 1, top, W, t + 1)
  BY <1>1 DEF W
<1>8. s + 1 \in 0 .. t + 1 /\ (t + 1) - (s + 1) .. (t + 1) - 1 \subseteq W
  BY <1>2, <1>3, <1>4
<1>9. s + 1 < t + 1 => (t + 1) - (s + 1) - 1 \notin W
  BY <1>3, <1>5
<1>10. top > 0 => \E a \in 0 .. (t + 1) - 1 : a .. a + top - 1 \subseteq W
  BY <1>3, <1>6
<1>11. \A a \in 0 .. (t + 1) - 1, n \in 0 .. t + 1 : a .. a + n - 1 \subseteq W => n <= top
  BY <1>3, <1>7
<1> QED
  BY <1>2, <1>8, <1>9, <1>10, <1>11 DEF Runs

\* After a trick somebody else took, the run is over and the longest one stays.
LEMMA RunEnds ==
  ASSUME NEW t \in Nat, NEW won \in SUBSET (0 .. t - 1), NEW m,
         m \in 0 .. t, m > 0 => \E a \in 0 .. t - 1 : a .. a + m - 1 \subseteq won,
         \A a \in 0 .. t - 1, n \in 0 .. t : a .. a + n - 1 \subseteq won => n <= m
  PROVE  Runs(0, m, won, t + 1)
<1>1. t \notin won /\ (t + 1) - 1 = t /\ (t + 1) - 0 - 1 = t /\ (t + 1) - 0 .. (t + 1) - 1 = {}
  OBVIOUS
<1>2. ASSUME NEW a \in 0 .. t, NEW n \in 0 .. t + 1, a .. a + n - 1 \subseteq won
      PROVE  n <= m
  <2>1. CASE n = 0
    BY <2>1
  <2>2. CASE n > 0
    <3>1. a \in a .. a + n - 1 /\ a + n - 1 \in a .. a + n - 1
      BY <2>2
    <3>2. a \in 0 .. t - 1 /\ a + n - 1 \in 0 .. t - 1
      BY <1>2, <3>1
    <3>3. n \in 0 .. t
      BY <2>2, <3>2
    <3> QED
      BY <1>2, <3>2, <3>3
  <2> QED
    BY <2>1, <2>2
<1>3. ASSUME m > 0
      PROVE  \E a \in 0 .. t : a .. a + m - 1 \subseteq won
  <2>1. PICK a \in 0 .. t - 1 : a .. a + m - 1 \subseteq won
    BY <1>3
  <2>2. a \in 0 .. t
    OBVIOUS
  <2> QED
    BY <2>1, <2>2
<1>4. m \in 0 .. t + 1 /\ 0 \in 0 .. t + 1
  OBVIOUS
<1> QED
  BY <1>1, <1>2, <1>3, <1>4 DEF Runs

\* A trick more is entered in a contract, of its winner or of another player.
LEMMA LoggedStep ==
  ASSUME NEW t \in Nat, NEW won \in SUBSET (0 .. t - 1), NEW before, Logged(before, won, t),
         NEW wins \in BOOLEAN, NEW after,
         {"contract", "tricks", "streak", "max_streak"} \subseteq DOMAIN after,
         after.tricks = IF wins THEN won \cup {t} ELSE won,
         after.streak = IF wins THEN before.streak + 1 ELSE 0,
         after.max_streak = IF wins THEN Max({before.max_streak, before.streak + 1})
                            ELSE before.max_streak
  PROVE  Logged(after, after.tricks, t + 1)
<1>1. Runs(before.streak, before.max_streak, won, t)
  BY DEF Logged
<1> DEFINE s == before.streak
           m == before.max_streak
<1> HIDE DEF s, m
<1>2. Runs(s, m, won, t)
  BY <1>1 DEF s, m
<1>3. Runs(s + 1, Max({m, s + 1}), won \cup {t}, t + 1)
  BY <1>2, RunGoesOn DEF Runs
<1>4. Runs(0, m, won, t + 1)
  BY <1>2, RunEnds DEF Runs
<1> QED
  BY <1>3, <1>4 DEF Logged, s, m

-----------------------------------------------------------------------------
(* A trick is entered in the contracts *)

ContractFields == {"contract", "tricks", "streak", "max_streak"}

\* What the winner's contracts gain that the invariant is about.
LEMMA WinnerGainsFields ==
  ASSUME NEW c, ContractFields \subseteq DOMAIN c, NEW trick, NEW winner, NEW number, NEW prevented
  PROVE  LET g == WinnerGains(c, trick, winner, number, prevented)
         IN  /\ DOMAIN g = DOMAIN c /\ g.contract = c.contract
             /\ g.tricks = c.tricks \cup {number} /\ g.streak = c.streak
             /\ g.max_streak = Max({c.max_streak, c.streak + 1})
  BY DEF WinnerGains, Streak, ContractFields

\* The same of what every player's contracts gain.
LEMMA PlayerGainsFields ==
  ASSUME NEW c, ContractFields \subseteq DOMAIN c, NEW trick, NEW p, NEW winner, NEW tti, NEW broken,
         NEW seen
  PROVE  LET g == PlayerGains(c, trick, p, winner, tti, broken, seen)
         IN  /\ DOMAIN g = DOMAIN c /\ g.contract = c.contract /\ g.tricks = c.tricks
             /\ g.streak = (IF p = winner THEN c.streak + 1 ELSE 0)
             /\ g.max_streak = c.max_streak
  BY DEF PlayerGains, Streak, ContractFields

\* What contract_on_trick_complete makes of a contract of player p.
EntryOf(c, p, trick, winner, number, prevented, tti, broken, seen) ==
  PlayerGains(IF p = winner THEN WinnerGains(c, trick, winner, number, prevented) ELSE c,
              trick, p, winner, tti, broken, seen)

\* Both together.
LEMMA EntryFields ==
  ASSUME NEW t \in Nat, NEW won \in SUBSET (0 .. t - 1), NEW c, Logged(c, won, t),
         NEW trick, NEW p, NEW winner, NEW prevented, NEW tti, NEW broken, NEW seen
  PROVE  LET e == EntryOf(c, p, trick, winner, t, prevented, tti, broken, seen)
         IN  /\ e.contract = c.contract /\ e.tricks = IF p = winner THEN won \cup {t} ELSE won
             /\ Logged(e, e.tricks, t + 1)
<1> DEFINE g == WinnerGains(c, trick, winner, t, prevented)
           h == IF p = winner THEN g ELSE c
           e == PlayerGains(h, trick, p, winner, tti, broken, seen)
           wins == p = winner
<1>1. ContractFields \subseteq DOMAIN c /\ c.tricks = won
  BY DEF Logged, ContractFields
<1>2. /\ DOMAIN g = DOMAIN c /\ g.contract = c.contract /\ g.tricks = won \cup {t}
      /\ g.streak = c.streak /\ g.max_streak = Max({c.max_streak, c.streak + 1})
  BY <1>1, WinnerGainsFields
<1> HIDE DEF g
<1>3. /\ DOMAIN h = DOMAIN c /\ h.contract = c.contract
      /\ h.tricks = (IF wins THEN won \cup {t} ELSE won)
      /\ h.streak = c.streak
      /\ h.max_streak = (IF wins THEN Max({c.max_streak, c.streak + 1}) ELSE c.max_streak)
  BY <1>1, <1>2
<1> HIDE DEF h
<1>4. /\ DOMAIN e = DOMAIN h /\ e.contract = h.contract /\ e.tricks = h.tricks
      /\ e.streak = (IF p = winner THEN h.streak + 1 ELSE 0) /\ e.max_streak = h.max_streak
  BY <1>1, <1>3, PlayerGainsFields
<1>5. e = EntryOf(c, p, trick, winner, t, prevented, tti, broken, seen)
  BY DEF EntryOf, h, g
<1> HIDE DEF e
<1>6. wins \in BOOLEAN
  OBVIOUS
<1> HIDE DEF wins
<1>7. /\ ContractFields \subseteq DOMAIN e
      /\ e.tricks = (IF wins THEN won \cup {t} ELSE won)
      /\ e.streak = (IF wins THEN c.streak + 1 ELSE 0)
      /\ e.max_streak = (IF wins THEN Max({c.max_streak, c.streak + 1}) ELSE c.max_streak)
  BY <1>1, <1>3, <1>4 DEF wins
<1>8. Logged(e, e.tricks, t + 1)
  BY <1>6, <1>7, LoggedStep DEF ContractFields
<1> QED
  BY <1>3, <1>4, <1>5, <1>7, <1>8 DEF wins

AllOf(W) == UNION {W[p] : p \in Players}
CountOf(W) == Sum([p \in Players |-> Cardinality(W[p])])

\* One trick more for one of four players.
LEMMA OneTrickMore ==
  ASSUME NEW t \in Nat, NEW W \in [Players -> SUBSET (0 .. t - 1)],
         AllOf(W) = 0 .. t - 1, CountOf(W) = t,
         NEW winner \in Players, NEW V, V = [p \in Players |-> IF p = winner THEN W[p] \cup {t} ELSE W[p]]
  PROVE  AllOf(V) = 0 .. t /\ CountOf(V) = t + 1
<1>1. t \notin W[winner]
  OBVIOUS
<1>2. \A p \in Players : IsFiniteSet(W[p]) /\ Cardinality(W[p]) \in Nat
  <2>1. IsFiniteSet(0 .. t - 1)
    BY FS_Interval
  <2> QED
    BY <2>1, FS_Subset, FS_CardinalityType
<1>3. Cardinality(W[winner] \cup {t}) = Cardinality(W[winner]) + 1
  BY <1>1, <1>2, FS_AddElement
<1>4. \A p \in Players : Cardinality(V[p]) = Cardinality(W[p]) + IF p = winner THEN 1 ELSE 0
  <2> SUFFICES ASSUME NEW p \in Players
               PROVE  Cardinality(V[p]) = Cardinality(W[p]) + IF p = winner THEN 1 ELSE 0
    OBVIOUS
  <2>1. CASE p = winner
    <3>1. V[p] = W[winner] \cup {t}
      BY <2>1
    <3> QED
      BY <1>3, <2>1, <3>1
  <2>2. CASE p # winner
    <3>1. V[p] = W[p]
      BY <2>2
    <3> QED
      BY <1>2, <2>2, <3>1
  <2> QED
    BY <2>1, <2>2
<1>5. CountOf(V) = t + 1
  BY <1>2, <1>4 DEF CountOf, Sum, Players
<1>6. 0 .. t \subseteq AllOf(V)
  <2> SUFFICES ASSUME NEW x \in 0 .. t PROVE \E p \in Players : x \in V[p]
    BY DEF AllOf
  <2>1. CASE x = t
    BY <2>1
  <2>2. CASE x # t
    <3>1. x \in AllOf(W)
      BY <2>2
    <3>2. PICK p \in Players : x \in W[p]
      BY <3>1 DEF AllOf
    <3> QED
      BY <3>2
  <2> QED
    BY <2>1, <2>2
<1>7. AllOf(V) \subseteq 0 .. t
  <2> SUFFICES ASSUME NEW p \in Players, NEW x \in V[p] PROVE x \in 0 .. t
    BY DEF AllOf
  <2>1. x \in W[p] \/ x = t
    OBVIOUS
  <2>2. W[p] \subseteq 0 .. t - 1
    OBVIOUS
  <2> QED
    BY <2>1, <2>2
<1> QED
  BY <1>5, <1>6, <1>7

\* contract_on_trick_complete, for the trick after the first t.
LEMMA TrickIsEntered ==
  ASSUME NEW t \in Nat, NEW state, {"contracts", "draft"} \subseteq DOMAIN state,
         Entered(state.contracts, t),
         NEW points, NEW trick, NEW winner \in Players, NEW tti, NEW broken
  PROVE  LET entered == contract_on_trick_complete(state, points, trick, winner, t, tti, broken)
         IN  /\ Entered(entered.contracts, t + 1)
             /\ DOMAIN entered = DOMAIN state /\ entered.draft = state.draft
<1> DEFINE cs == state.contracts
           prevented == MoonPrevented(points, trick, winner, t)
           e(p, c) == EntryOf(c, p, trick, winner, t, prevented, tti, broken, state.suit_seen)
           ds == [p \in Players |-> [c \in DOMAIN cs[p] |-> e(p, cs[p][c])]]
           entered == contract_on_trick_complete(state, points, trick, winner, t, tti, broken)
           W == [p \in Players |-> WonBy(cs, p)]
           V == [p \in Players |-> IF p = winner THEN W[p] \cup {t} ELSE W[p]]
<1>1. entered.contracts = ds /\ DOMAIN entered = DOMAIN state /\ entered.draft = state.draft
  BY DEF contract_on_trick_complete, EntryOf
<1> HIDE DEF entered
<1>2. /\ Drawn(cs) /\ AllOf(W) = 0 .. t - 1 /\ CountOf(W) = t
      /\ \A p \in Players : \A c \in 1 .. DraftRounds : Logged(cs[p][c], W[p], t)
  <2>1. {W[p] : p \in Players} = {WonBy(cs, p) : p \in Players}
    OBVIOUS
  <2>2. [p \in Players |-> Cardinality(W[p])] = [p \in Players |-> Cardinality(WonBy(cs, p))]
    OBVIOUS
  <2> QED
    BY <2>1, <2>2 DEF Entered, AllOf, CountOf
<1>3. W \in [Players -> SUBSET (0 .. t - 1)]
  BY <1>2 DEF AllOf
<1> HIDE DEF W
<1>4. \A p \in Players : DOMAIN cs[p] = 1 .. DraftRounds
  BY <1>2 DEF Drawn
<1>5. ASSUME NEW p \in Players, NEW c \in 1 .. DraftRounds
      PROVE  /\ ds[p][c].contract = cs[p][c].contract /\ ds[p][c].tricks = V[p]
             /\ Logged(ds[p][c], V[p], t + 1)
  <2>1. ds[p][c] = e(p, cs[p][c])
    BY <1>4
  <2>2. W[p] \in SUBSET (0 .. t - 1) /\ Logged(cs[p][c], W[p], t)
    BY <1>2, <1>3
  <2> HIDE DEF ds
  <2>3. /\ e(p, cs[p][c]).contract = cs[p][c].contract
        /\ e(p, cs[p][c]).tricks = IF p = winner THEN W[p] \cup {t} ELSE W[p]
        /\ Logged(e(p, cs[p][c]), e(p, cs[p][c]).tricks, t + 1)
    <3>1. ASSUME NEW w \in SUBSET (0 .. t - 1), NEW x, Logged(x, w, t)
          PROVE  /\ e(p, x).contract = x.contract /\ e(p, x).tricks = IF p = winner THEN w \cup {t} ELSE w
                 /\ Logged(e(p, x), e(p, x).tricks, t + 1)
      <4> HIDE DEF prevented, cs, V, W
      <4> QED
        BY <3>1, EntryFields
    <3> HIDE DEF e
    <3> QED
      BY <2>2, <3>1
  <2> HIDE DEF e
  <2>4. V[p] = IF p = winner THEN W[p] \cup {t} ELSE W[p]
    OBVIOUS
  <2> HIDE DEF V
  <2> QED
    BY <2>1, <2>3, <2>4
<1>6. \A p \in Players : DOMAIN ds[p] = 1 .. DraftRounds
  BY <1>4
<1>7. DOMAIN ds = Players
  OBVIOUS
<1> HIDE DEF ds
<1>8. Drawn(ds)
  <2>1. OnceOn(cs)
    BY <1>2 DEF Drawn
  <2>2. OnceOn(ds)
    <3> SUFFICES ASSUME NEW p \in Players, NEW q \in Players, NEW i \in DOMAIN ds[p],
                        NEW j \in DOMAIN ds[q], ds[p][i].contract = ds[q][j].contract
                 PROVE  p = q /\ i = j
      BY DEF OnceOn
    <3>1. /\ i \in 1 .. DraftRounds /\ i \in DOMAIN cs[p]
          /\ j \in 1 .. DraftRounds /\ j \in DOMAIN cs[q]
      BY <1>4, <1>6
    <3>2. cs[p][i].contract = cs[q][j].contract
      BY <1>5, <3>1
    <3> QED
      BY <2>1, <3>1, <3>2 DEF OnceOn
  <2> QED
    BY <1>6, <1>7, <2>2 DEF Drawn
<1>9. AllOf(V) = 0 .. t /\ CountOf(V) = t + 1
  <2>1. V = [p \in Players |-> IF p = winner THEN W[p] \cup {t} ELSE W[p]]
    OBVIOUS
  <2> HIDE DEF V
  <2> QED
    BY <1>2, <1>3, <2>1, OneTrickMore
<1> HIDE DEF V
<1>10. \A p \in Players : WonBy(ds, p) = V[p]
  <2>1. 1 \in 1 .. DraftRounds
    BY PoolAssumption
  <2> QED
    BY <1>5, <2>1 DEF WonBy
<1>11. /\ {WonBy(ds, p) : p \in Players} = {V[p] : p \in Players}
       /\ [p \in Players |-> Cardinality(WonBy(ds, p))] = [p \in Players |-> Cardinality(V[p])]
  BY <1>10
<1>12. (t + 1) - 1 = t
  OBVIOUS
<1>13. Entered(ds, t + 1)
  BY <1>5, <1>8, <1>9, <1>10, <1>11, <1>12 DEF Entered, AllOf, CountOf
<1> QED
  BY <1>1, <1>13 DEF entered

\* Contracts that differ in nothing that is counted here.
LEMMA SameCounts ==
  ASSUME NEW t \in Nat, NEW cs, Entered(cs, t), NEW ds,
         DOMAIN ds = Players, \A p \in Players : DOMAIN ds[p] = DOMAIN cs[p],
         \A p \in Players : \A c \in DOMAIN cs[p] :
           /\ DOMAIN ds[p][c] = DOMAIN cs[p][c] /\ ds[p][c].contract = cs[p][c].contract
           /\ ds[p][c].tricks = cs[p][c].tricks /\ ds[p][c].streak = cs[p][c].streak
           /\ ds[p][c].max_streak = cs[p][c].max_streak
  PROVE  Entered(ds, t)
<1>1. Drawn(cs) /\ \A p \in Players : DOMAIN cs[p] = 1 .. DraftRounds
  BY DEF Entered, Drawn
<1>2. Drawn(ds)
  BY <1>1 DEF Drawn, OnceOn
<1>3. \A p \in Players : WonBy(ds, p) = WonBy(cs, p)
  <2>1. 1 \in 1 .. DraftRounds
    BY PoolAssumption
  <2> QED
    BY <1>1, <2>1 DEF WonBy
<1>4. /\ {WonBy(ds, p) : p \in Players} = {WonBy(cs, p) : p \in Players}
      /\ [p \in Players |-> Cardinality(WonBy(ds, p))] = [p \in Players |-> Cardinality(WonBy(cs, p))]
  BY <1>3
<1>5. \A p \in Players : \A c \in 1 .. DraftRounds : Logged(ds[p][c], WonBy(ds, p), t)
  <2> SUFFICES ASSUME NEW p \in Players, NEW c \in 1 .. DraftRounds
               PROVE  Logged(ds[p][c], WonBy(ds, p), t)
    OBVIOUS
  <2>1. Logged(cs[p][c], WonBy(cs, p), t) /\ c \in DOMAIN cs[p]
    BY <1>1 DEF Entered
  <2> QED
    BY <1>3, <2>1 DEF Logged
<1> QED
  BY <1>2, <1>4, <1>5 DEF Entered

\* The contracts of the draft have counted nothing yet.
LEMMA FinalizeEnters ==
  ASSUME NEW d, NEW n \in Nat, Drafted(d, n), n + 1 = DraftRounds, draft_all_picked(d),
         NEW state, {"contracts", "draft"} \subseteq DOMAIN state
  PROVE  Entered(draft_finalize(d, state).contracts, 0)
<1> DEFINE cs == [p \in Players |-> [i \in DOMAIN d.picked[p] |-> NewContract(d.picked[p][i])]]
<1>1. draft_finalize(d, state).contracts = cs
  BY DEF draft_finalize
<1>2. Drawn(cs)
  BY <1>1, FinalizeDraws
<1>3. 1 \in 1 .. DraftRounds /\ \A p \in Players : DOMAIN cs[p] = 1 .. DraftRounds
  BY <1>2, PoolAssumption DEF Drawn
<1>4. \A p \in Players : \A c \in 1 .. DraftRounds :
        /\ ContractFields \subseteq DOMAIN cs[p][c]
        /\ cs[p][c].tricks = {} /\ cs[p][c].streak = 0 /\ cs[p][c].max_streak = 0
  BY <1>3 DEF NewContract, ContractFields
<1> HIDE DEF cs
<1>5. \A p \in Players : WonBy(cs, p) = {}
  BY <1>3, <1>4 DEF WonBy
<1>6. Runs(0, 0, {}, 0)
  BY DEF Runs
<1>7. \A p \in Players : \A c \in 1 .. DraftRounds : Logged(cs[p][c], WonBy(cs, p), 0)
  BY <1>4, <1>5, <1>6 DEF Logged, ContractFields
<1>8. UNION {WonBy(cs, p) : p \in Players} = 0 .. 0 - 1
  BY <1>5
<1>9. Sum([p \in Players |-> Cardinality(WonBy(cs, p))]) = 0
  BY <1>5, FS_EmptySet DEF Sum, Players
<1> QED
  BY <1>1, <1>2, <1>7, <1>8, <1>9 DEF Entered

-----------------------------------------------------------------------------
(* The invariant holds at first and in every step *)

\* A game at its start.
LEMMA InitInv == Init => Inv
<1> SUFFICES ASSUME Init PROVE Inv
  OBVIOUS
<1>1. PICK start \in Starts :
        /\ gs = NewRound([NewGame(start.hands) EXCEPT !.round_number = start.round - 1,
                                                      !.total_score = start.total], start.hands)
        /\ sg = [pass_substate |-> "IDLE", play_substate |-> "IDLE", dealer_player |-> NoPlayer,
                 draft_initialized |-> FALSE, draft_round |-> 0,
                 selected_transmute_slot |-> [p \in Players |-> NoSlotSelected],
                 prev_round_points |-> start.prev, broken_before |-> FALSE, tti |-> sv_reset_tti,
                 scoring_evaluated |-> FALSE, scoring_ready |-> [p \in Players |-> FALSE],
                 competitive |-> start.competitive, comp_ai |-> [p \in Players |-> NoKnowledge],
                 until |-> start.until]
  BY DEF Init
<1>0. {"draft", "contracts"} \subseteq DOMAIN p2 /\ p2.draft = NoDraft
  BY DEF Init
<1>2. /\ DOMAIN gs = DOMAIN NewGame(start.hands) /\ gs.phase = "DEALING" /\ gs.tricks_played = 0
      /\ gs.trick = <<>> /\ gs.lead_player = NoPlayer /\ gs.round_points = [p \in Players |-> 0]
  BY <1>1 DEF NewRound, game_state_new_round, NewGame
<1>3. NoDraft \in Drafts /\ ~NoDraft.active
  BY DEF NoDraft, Drafts, Boards
<1>4. Shape
  BY <1>0, <1>1, <1>2, <1>3 DEF Shape, NewGame, Phases
<1>5. DraftGoesOn
  BY <1>0, <1>1, <1>2, <1>3 DEF DraftGoesOn
<1>6. DOMAIN sg.tti = 1 .. CardsPerTrick
  BY <1>1 DEF sv_reset_tti
<1>7. TrickOfPlayers(gs.trick)
  BY <1>2 DEF TrickOfPlayers, Range
<1>8. OnTheTable
  BY <1>2, <1>6, <1>7 DEF OnTheTable, NoPlayer
<1>9. ContractsCount
  BY <1>2 DEF ContractsCount
<1> QED
  BY <1>4, <1>5, <1>8, <1>9 DEF Inv

\* What a step may leave as it is.
GameStays ==
  /\ DOMAIN gs' = DOMAIN gs /\ gs'.phase = gs.phase /\ gs'.tricks_played = gs.tricks_played
  /\ gs'.trick = gs.trick /\ gs'.lead_player = gs.lead_player /\ gs'.round_points = gs.round_points
ServerStays ==
  /\ DOMAIN sg' = DOMAIN sg /\ sg'.pass_substate = sg.pass_substate
  /\ sg'.play_substate = sg.play_substate /\ sg'.draft_initialized = sg.draft_initialized
  /\ sg'.draft_round = sg.draft_round /\ sg'.tti = sg.tti
DraftStays == DOMAIN p2' = DOMAIN p2 /\ p2'.draft = p2.draft /\ p2'.contracts = p2.contracts

\* A step that leaves alone what the invariant reads.
LEMMA Untouched == Inv /\ GameStays /\ ServerStays /\ DraftStays => Inv'
<1> SUFFICES ASSUME Inv, GameStays, ServerStays, DraftStays PROVE Inv'
  OBVIOUS
<1>1. Shape'
  BY DEF Inv, Shape, GameStays, ServerStays, DraftStays
<1>2. DraftGoesOn'
  BY DEF Inv, DraftGoesOn, GameStays, ServerStays, DraftStays
<1>3. OnTheTable'
  BY DEF Inv, OnTheTable, GameStays, ServerStays, DraftStays
<1>4. ContractsCount'
  BY DEF Inv, ContractsCount, GameStays, ServerStays, DraftStays
<1> QED
  BY <1>1, <1>2, <1>3, <1>4 DEF Inv

\* The deal empties the contracts and leaves no draft.
LEMMA DealStep == Inv /\ TickDeal => Inv'
<1> SUFFICES ASSUME Inv, TickDeal PROVE Inv'
  OBVIOUS
<1>1. /\ gs.phase = "DEALING" /\ gs'.phase = "PASSING" /\ DOMAIN gs' = DOMAIN gs
      /\ gs'.tricks_played = gs.tricks_played /\ gs'.trick = gs.trick
      /\ gs'.lead_player = gs.lead_player /\ gs'.round_points = gs.round_points
  BY DEF Inv, Shape, TickDeal
<1>2. /\ DOMAIN sg' = DOMAIN sg /\ sg'.pass_substate \in {"CONTRACT_DRAFT", "DEALER_DIR"}
      /\ sg'.draft_initialized = FALSE /\ sg'.draft_round = 0 /\ sg'.tti = sg.tti
  BY DEF Inv, Shape, TickDeal
<1>3. DOMAIN p2' = DOMAIN p2 /\ p2'.draft = p2.draft
  <2>1. p2' = contract_round_reset(p2)
    BY DEF TickDeal
  <2> QED
    BY <2>1 DEF contract_round_reset, Inv, Shape
<1>4. ~p2.draft.active
  BY <1>1 DEF Inv, DraftGoesOn
<1>5. Shape'
  BY <1>1, <1>2, <1>3 DEF Inv, Shape, Phases
<1>6. DraftGoesOn'
  BY <1>1, <1>2, <1>3, <1>4 DEF DraftGoesOn
<1>7. OnTheTable'
  BY <1>1, <1>2 DEF Inv, OnTheTable
<1>8. ContractsCount'
  BY <1>1, <1>2 DEF ContractsCount
<1> QED
  BY <1>5, <1>6, <1>7, <1>8 DEF Inv

\* The dealer's choices, however they are made.
LEMMA DealerStep ==
  Inv /\ (Confirmed \/ (\E x : DirectionIs(x)) \/ \E x : AmountIs(x)) => Inv'
<1> SUFFICES ASSUME Inv, Confirmed \/ (\E x : DirectionIs(x)) \/ \E x : AmountIs(x) PROVE Inv'
  OBVIOUS
<1>1. /\ gs.phase = "PASSING" /\ sg.pass_substate \in {"DEALER_DIR", "DEALER_AMT", "DEALER_CONFIRM"}
      /\ GameStays /\ DraftStays
  BY DEF Confirmed, DirectionIs, AmountIs, Passing, GameStays, DraftStays, Inv, Shape
<1>2. /\ DOMAIN sg' = DOMAIN sg /\ sg'.tti = sg.tti /\ sg'.draft_initialized \in BOOLEAN
      /\ \/ sg'.pass_substate \in {"DEALER_AMT", "DEALER_CONFIRM"}
         \/ /\ sg'.pass_substate = "CONTRACT_DRAFT" /\ sg'.draft_initialized = FALSE
            /\ sg'.draft_round = 0
  BY DEF Confirmed, DirectionIs, AmountIs, Inv, Shape
<1>3. ~p2.draft.active
  BY <1>1 DEF Inv, DraftGoesOn
<1>4. Shape'
  BY <1>1, <1>2 DEF Inv, Shape, GameStays, DraftStays
<1>5. DraftGoesOn'
  BY <1>1, <1>2, <1>3 DEF DraftGoesOn, GameStays, DraftStays
<1>6. OnTheTable'
  BY <1>1, <1>2 DEF Inv, OnTheTable, GameStays
<1>7. ContractsCount'
  BY <1>1, <1>2 DEF ContractsCount, GameStays
<1> QED
  BY <1>4, <1>5, <1>6, <1>7 DEF Inv

\* Only the draft and what it ends with change.
LEMMA SelectContractStep ==
  ASSUME Inv, NEW p \in Players, NEW i, SelectContract(p, i)
  PROVE  Inv'
<1> DEFINE d == p2.draft
           e == draft_pick(d, p, i)
<1>1. /\ gs.phase = "PASSING" /\ sg.pass_substate = "CONTRACT_DRAFT" /\ gs' = gs /\ sg' = sg
      /\ DOMAIN p2' = DOMAIN p2 /\ p2'.draft = e
      /\ d \in Drafts /\ i \in DOMAIN d.available[p] /\ ~d.has_picked[p]
  BY DEF SelectContract, Passing, CanPick, Inv, Shape
<1>2. e \in Drafts /\ e.active = d.active /\ e.round = d.round
  BY <1>1, PickFields
<1>3. d.active => Drafted(e, sg.draft_round)
  BY <1>1, PickKeeps DEF Inv, DraftGoesOn
<1>4. Shape'
  BY <1>1, <1>2 DEF Inv, Shape
<1>5. DraftGoesOn'
  <2> HIDE DEF e
  <2> QED
    BY <1>1, <1>2, <1>3 DEF Inv, DraftGoesOn
<1>6. OnTheTable'
  BY <1>1 DEF Inv, OnTheTable
<1>7. ContractsCount'
  BY <1>1 DEF ContractsCount
<1> QED
  BY <1>4, <1>5, <1>6, <1>7 DEF Inv

\* The parts of TickDraft: the players a tick picks for, and what follows from the picks.
Due(draft, timeout) == {p \in Players : ~draft.has_picked[p] /\ (is_human[p] => timeout)}
PicksAre(draft, timeout, choice) ==
  /\ \A p \in Due(draft, timeout) :
       /\ choice[p] \in DOMAIN draft.available[p]
       /\ is_human[p] => choice[p] = 1
       /\ CompPlays(p) => choice[p] = comp_ai_draft_pick(draft.available[p])
  /\ LET next == InTurn(draft, choice)
         all == draft_all_picked(next)
         last == all /\ sg.draft_round + 1 >= DraftRounds
     IN  /\ p2' = IF last THEN draft_finalize(next, p2)
                  ELSE [p2 EXCEPT !.draft = IF all THEN draft_advance_round(next) ELSE next]
         /\ sg' = [sg EXCEPT !.draft_initialized = TRUE,
                             !.draft_round = (IF sg.draft_initialized THEN @ ELSE 0)
                                             + (IF all THEN 1 ELSE 0),
                             !.pass_substate = IF last THEN "CARD_SELECT" ELSE @]
PicksFollow(draft, timeout) ==
  \E choice \in [Due(draft, timeout) -> 1 .. GroupSize] : PicksAre(draft, timeout, choice)

\* The players who are due pick in turn; then the pairs go on or the contracts are made.
LEMMA DraftStep == Inv /\ TickDraft => Inv'
<1> SUFFICES ASSUME Inv, TickDraft PROVE Inv'
  OBVIOUS
<1>1. gs.phase = "PASSING" /\ sg.pass_substate = "CONTRACT_DRAFT" /\ gs' = gs
  BY DEF TickDraft, Passing
<1>2. PICK draft \in IF sg.draft_initialized THEN {p2.draft}
                     ELSE {draft_generate_pool(pool) : pool \in Pools}, timeout \in BOOLEAN :
        PicksFollow(draft, timeout)
  BY Zenon DEF TickDraft, PicksFollow, PicksAre, Due
<1> DEFINE n == sg.draft_round
<1>3. n \in Nat /\ n < DraftRounds /\ Drafted(draft, n) /\ draft.active /\ draft.round = n
  <2>1. CASE sg.draft_initialized
    BY <1>1, <1>2, <2>1 DEF Inv, DraftGoesOn
  <2>2. CASE ~sg.draft_initialized
    <3>1. PICK pool \in Pools : draft = draft_generate_pool(pool)
      BY <1>2, <2>2
    <3>2. 0 < DraftRounds /\ n = 0
      BY <1>1, <2>2, PoolAssumption DEF Inv, DraftGoesOn
    <3> QED
      BY <3>1, <3>2, PoolDrafted
  <2> QED
    BY <2>1, <2>2
<1>4. PICK choice \in [Due(draft, timeout) -> 1 .. GroupSize] : PicksAre(draft, timeout, choice)
  BY <1>2 DEF PicksFollow
<1> DEFINE next == InTurn(draft, choice)
           all == draft_all_picked(next)
           last == all /\ sg.draft_round + 1 >= DraftRounds
<1>5. \A p \in Players : MayPick(draft, choice, p)
  BY <1>4 DEF MayPick, PicksAre, Due
<1>6. Drafted(next, n) /\ next.active /\ next.round = n
  BY <1>3, <1>5, InTurnKeeps
<1> HIDE DEF next
<1>7. /\ sg' = [sg EXCEPT !.draft_initialized = TRUE,
                          !.draft_round = (IF sg.draft_initialized THEN @ ELSE 0) + (IF all THEN 1 ELSE 0),
                          !.pass_substate = IF last THEN "CARD_SELECT" ELSE @]
      /\ p2' = IF last THEN draft_finalize(next, p2)
               ELSE [p2 EXCEPT !.draft = IF all THEN draft_advance_round(next) ELSE next]
  BY <1>4 DEF PicksAre, next
<1>8. /\ DOMAIN sg' = DOMAIN sg /\ sg'.tti = sg.tti /\ sg'.play_substate = sg.play_substate
      /\ sg'.draft_initialized = TRUE
      /\ sg'.draft_round = n + (IF all THEN 1 ELSE 0)
      /\ sg'.pass_substate = IF last THEN "CARD_SELECT" ELSE "CONTRACT_DRAFT"
  <2>1. ~sg.draft_initialized => sg.draft_round = 0
    BY <1>1 DEF Inv, DraftGoesOn
  <2> HIDE DEF all, last
  <2> QED
    BY <1>1, <1>7, <2>1 DEF Inv, Shape
<1>9. OnTheTable'
  BY <1>1, <1>8 DEF Inv, OnTheTable
<1>10. {"contracts", "draft"} \subseteq DOMAIN p2 /\ DOMAIN p2' = DOMAIN p2
  BY <1>7 DEF Inv, Shape, draft_finalize
<1>11. CASE last
  <2>1. p2' = draft_finalize(next, p2) /\ sg'.pass_substate = "CARD_SELECT"
    BY <1>7, <1>8, <1>11
  <2>2. draft_all_picked(next) /\ n + 1 = DraftRounds
    BY <1>3, <1>11, PoolAssumption
  <2>3. p2'.draft \in Drafts /\ ~p2'.draft.active /\ Entered(p2'.contracts, 0)
    BY <1>3, <1>6, <1>10, <2>1, <2>2, FinalizeDraws, FinalizeEnters
  <2>4. Shape'
    BY <1>1, <1>8, <1>10, <2>3 DEF Inv, Shape
  <2>5. DraftGoesOn'
    BY <1>1, <2>1, <2>3 DEF DraftGoesOn
  <2>6. ContractsCount'
    BY <1>1, <2>3 DEF ContractsCount, Inv, OnTheTable
  <2> QED
    BY <1>9, <2>4, <2>5, <2>6 DEF Inv
<1>12. CASE ~last
  <2> DEFINE e == IF all THEN draft_advance_round(next) ELSE next
             m == n + (IF all THEN 1 ELSE 0)
  <2>1. p2'.draft = e /\ sg'.pass_substate = "CONTRACT_DRAFT" /\ sg'.draft_round = m
    BY <1>7, <1>8, <1>10, <1>12
  <2>2. Drafted(e, m) /\ e.active /\ e.round = m /\ m \in Nat /\ m < DraftRounds
    <3>1. CASE all
      <4>1. n + 1 < DraftRounds
        BY <1>3, <1>12, <3>1, PoolAssumption
      <4> QED
        BY <1>3, <1>6, <3>1, <4>1, AdvanceKeeps
    <3>2. CASE ~all
      BY <1>3, <1>6, <3>2
    <3> QED
      BY <3>1, <3>2
  <2>3. e \in Drafts
    BY <2>2 DEF Drafted
  <2> HIDE DEF e, m
  <2>4. Shape'
    BY <1>1, <1>8, <1>10, <2>1, <2>3 DEF Inv, Shape
  <2>5. DraftGoesOn'
    BY <1>1, <1>8, <2>1, <2>2 DEF DraftGoesOn
  <2>6. ContractsCount'
    BY <1>1, <2>1 DEF ContractsCount
  <2> QED
    BY <1>9, <2>4, <2>5, <2>6 DEF Inv
<1> QED
  BY <1>11, <1>12

\* The commands of CARD_SELECT change selections, cards and inventories.
LEMMA SelectionStep ==
  ASSUME Inv, NEW p, NEW i, NEW id, NEW card,
         SelectCard(p, i) \/ SelectTransmutation(p, id) \/ ApplyTransmutation(p, card) \/ ConfirmPass(p)
  PROVE  Inv' /\ gs'.tricks_played = gs.tricks_played
<1>1. CASE SelectCard(p, i)
  <2>1. GameStays /\ ServerStays /\ DraftStays
    BY <1>1 DEF SelectCard, GameStays, ServerStays, DraftStays, Inv, Shape
  <2> QED
    BY <2>1, Untouched DEF GameStays
<1>2. CASE SelectTransmutation(p, id)
  <2>1. GameStays /\ ServerStays /\ DraftStays
    BY <1>2 DEF SelectTransmutation, GameStays, ServerStays, DraftStays, Inv, Shape
  <2> QED
    BY <2>1, Untouched DEF GameStays
<1>3. CASE ApplyTransmutation(p, card)
  <2>1. \E hand, selections :
          gs' = [gs EXCEPT !.hand[p] = hand, !.pass_selections[p] = selections]
    BY <1>3, Zenon DEF ApplyTransmutation
  <2>2. \E slots, inv : p2' = [p2 EXCEPT !.slots[p] = slots, !.inv[p] = inv]
    BY <1>3, Zenon DEF ApplyTransmutation
  <2>3. sg' = [sg EXCEPT !.selected_transmute_slot[p] = NoSlotSelected]
    BY <1>3, Zenon DEF ApplyTransmutation
  <2>4. GameStays /\ ServerStays /\ DraftStays
    BY <2>1, <2>2, <2>3 DEF GameStays, ServerStays, DraftStays, Inv, Shape
  <2> QED
    BY <2>4, Untouched DEF GameStays
<1>4. CASE ConfirmPass(p)
  <2>1. GameStays /\ ServerStays /\ DraftStays
    BY <1>4 DEF ConfirmPass, GameStays, ServerStays, DraftStays, Inv, Shape
  <2> QED
    BY <2>1, Untouched DEF GameStays
<1> QED
  BY <1>1, <1>2, <1>3, <1>4

\* Who passes what is not read by the invariant, and the contracts stay.
LEMMA SelectStep == Inv /\ TickSelect => Inv'
<1> SUFFICES ASSUME Inv, TickSelect PROVE Inv'
  OBVIOUS
<1>1. gs.phase = "PASSING" /\ sg.pass_substate = "CARD_SELECT" /\ p2' = p2
  BY DEF TickSelect, Passing
<1>2. \E selections, ready : gs' = [gs EXCEPT !.pass_selections = selections, !.pass_ready = ready]
  BY Zenon DEF TickSelect
<1>3. \E comp : sg' = [sg EXCEPT !.comp_ai = comp,
                                !.pass_substate = IF game_state_all_passes_ready(gs') THEN "EXECUTE" ELSE @]
  BY Zenon DEF TickSelect
<1>4. GameStays
  BY <1>2 DEF GameStays, Inv, Shape
<1>5. /\ DOMAIN sg' = DOMAIN sg /\ sg'.tti = sg.tti /\ sg'.play_substate = sg.play_substate
      /\ sg'.draft_initialized = sg.draft_initialized
      /\ sg'.pass_substate \in {"CARD_SELECT", "EXECUTE"}
  BY <1>1, <1>3 DEF Inv, Shape
<1>6. Shape'
  BY <1>1, <1>4, <1>5 DEF Inv, Shape, GameStays
<1>7. DraftGoesOn'
  BY <1>1, <1>4, <1>5 DEF Inv, DraftGoesOn, GameStays
<1>8. OnTheTable'
  BY <1>1, <1>4, <1>5 DEF Inv, OnTheTable, GameStays
<1>9. ContractsCount'
  BY <1>1, <1>4, <1>5 DEF Inv, ContractsCount, GameStays
<1> QED
  BY <1>6, <1>7, <1>8, <1>9 DEF Inv

\* The pass: the contracts learn which cards their player received.
LEMMA ExecuteStep == Inv /\ TickExecute => Inv'
<1> SUFFICES ASSUME Inv, TickExecute PROVE Inv'
  OBVIOUS
<1> DEFINE received(p) == Range(CardsOf(gs.pass_selections[PassedFrom(p)]))
           cs == p2.contracts
           ds == [p \in Players |-> contract_record_received_cards(cs[p], received(p))]
<1>1. gs.phase = "PASSING" /\ sg.pass_substate = "EXECUTE"
  BY DEF TickExecute, Passing
<1>2. /\ DOMAIN gs' = DOMAIN gs /\ gs'.phase = gs.phase /\ gs'.tricks_played = gs.tricks_played
      /\ gs'.trick = <<>> /\ gs'.round_points = gs.round_points
      /\ gs'.lead_player = game_state_find_two_of_clubs([p \in Players |-> Range(HandsPassed[p])])
  BY DEF TickExecute, Inv, Shape
<1>3. gs'.lead_player \in Int
  <2>1. \A hands : game_state_find_two_of_clubs(hands) \in Int
    BY DEF game_state_find_two_of_clubs, Players, NoPlayer
  <2> QED
    BY <1>2, <2>1
<1>4. \E comp : sg' = [sg EXCEPT !.pass_substate = "TRANSMUTE", !.comp_ai = comp]
  BY Zenon DEF TickExecute
<1>5. /\ DOMAIN sg' = DOMAIN sg /\ sg'.tti = sg.tti /\ sg'.draft_initialized = sg.draft_initialized
      /\ sg'.pass_substate = "TRANSMUTE"
  BY <1>4 DEF Inv, Shape
<1>6. \E slots : p2' = [p2 EXCEPT !.slots = slots,
                                  !.contracts = [p \in Players |->
                                     contract_record_received_cards(@[p], received(p))]]
  BY Zenon DEF TickExecute
<1>7. DOMAIN p2' = DOMAIN p2 /\ p2'.draft = p2.draft /\ p2'.contracts = ds
  BY <1>6 DEF Inv, Shape
<1>8. Entered(cs, gs.tricks_played) /\ gs.tricks_played = 0 /\ ~p2.draft.active
  BY <1>1 DEF Inv, ContractsCount, OnTheTable, DraftGoesOn
<1>9. Entered(ds, 0)
  <2>1. /\ DOMAIN ds = Players /\ \A p \in Players : DOMAIN ds[p] = DOMAIN cs[p]
        /\ \A p \in Players : \A c \in DOMAIN cs[p] :
             ds[p][c] = [cs[p][c] EXCEPT !.received = received(p)]
    BY DEF contract_record_received_cards
  <2>2. \A p \in Players : \A c \in DOMAIN cs[p] : ContractFields \subseteq DOMAIN cs[p][c]
    BY <1>8 DEF Entered, Drawn, Logged, ContractFields
  <2> HIDE DEF ds, cs, received
  <2>3. \A p \in Players : \A c \in DOMAIN cs[p] :
          /\ DOMAIN ds[p][c] = DOMAIN cs[p][c] /\ ds[p][c].contract = cs[p][c].contract
          /\ ds[p][c].tricks = cs[p][c].tricks /\ ds[p][c].streak = cs[p][c].streak
          /\ ds[p][c].max_streak = cs[p][c].max_streak
    <3> SUFFICES ASSUME NEW p \in Players, NEW c \in DOMAIN cs[p]
                 PROVE  /\ DOMAIN ds[p][c] = DOMAIN cs[p][c] /\ ds[p][c].contract = cs[p][c].contract
                        /\ ds[p][c].tricks = cs[p][c].tricks /\ ds[p][c].streak = cs[p][c].streak
                        /\ ds[p][c].max_streak = cs[p][c].max_streak
      OBVIOUS
    <3>1. \A x, y : ContractFields \subseteq DOMAIN x =>
            LET z == [x EXCEPT !.received = y]
            IN  /\ DOMAIN z = DOMAIN x /\ z.contract = x.contract /\ z.tricks = x.tricks
                /\ z.streak = x.streak /\ z.max_streak = x.max_streak
      BY DEF ContractFields
    <3>2. ds[p][c] = [cs[p][c] EXCEPT !.received = received(p)] /\ ContractFields \subseteq DOMAIN cs[p][c]
      BY <2>1, <2>2
    <3> QED
      BY <3>1, <3>2
  <2> QED
    BY <1>8, <2>1, <2>3, SameCounts
<1> HIDE DEF ds
<1>10. Shape'
  BY <1>2, <1>5, <1>7 DEF Inv, Shape
<1>11. DraftGoesOn'
  BY <1>1, <1>2, <1>5, <1>7, <1>8 DEF DraftGoesOn
<1>12. TrickOfPlayers(<<>>)
  BY DEF TrickOfPlayers, Range
<1>13. OnTheTable'
  BY <1>1, <1>2, <1>3, <1>5, <1>12 DEF Inv, OnTheTable
<1>14. ContractsCount'
  BY <1>2, <1>7, <1>8, <1>9 DEF ContractsCount
<1> QED
  BY <1>10, <1>11, <1>13, <1>14 DEF Inv

\* The play begins.
LEMMA TransmuteStep == Inv /\ TickTransmute => Inv'
<1> SUFFICES ASSUME Inv, TickTransmute PROVE Inv'
  OBVIOUS
<1>1. gs.phase = "PASSING" /\ sg.pass_substate = "TRANSMUTE"
  BY DEF TickTransmute, Passing
<1>2. \E hands : gs' = [gs EXCEPT !.hand = hands, !.phase = "PLAYING"]
  BY Zenon DEF TickTransmute
<1>3. \E slots, inv : p2' = [p2 EXCEPT !.slots = slots, !.inv = inv]
  BY Zenon DEF TickTransmute
<1>4. /\ DOMAIN gs' = DOMAIN gs /\ gs'.phase = "PLAYING" /\ gs'.tricks_played = gs.tricks_played
      /\ gs'.trick = gs.trick /\ gs'.lead_player = gs.lead_player /\ gs'.round_points = gs.round_points
  BY <1>2 DEF Inv, Shape
<1>5. /\ DOMAIN sg' = DOMAIN sg /\ sg'.tti = sv_reset_tti /\ sg'.draft_initialized = sg.draft_initialized
      /\ sg'.pass_substate = "IDLE" /\ sg'.play_substate = "WAIT_TURN"
  BY DEF TickTransmute, Inv, Shape
<1>6. DraftStays
  BY <1>3 DEF DraftStays, Inv, Shape
<1>7. ~p2.draft.active /\ gs.trick = <<>> /\ DOMAIN sv_reset_tti = 1 .. CardsPerTrick
  BY <1>1 DEF Inv, DraftGoesOn, OnTheTable, sv_reset_tti
<1>8. Shape'
  BY <1>4, <1>5, <1>6 DEF Inv, Shape, DraftStays, Phases
<1>9. DraftGoesOn'
  BY <1>4, <1>5, <1>6, <1>7 DEF DraftGoesOn, DraftStays
<1>10. OnTheTable'
  BY <1>1, <1>4, <1>5, <1>7 DEF Inv, OnTheTable, CardsPerTrick
<1>11. ContractsCount'
  BY <1>1, <1>4, <1>6 DEF Inv, ContractsCount, DraftStays
<1> QED
  BY <1>8, <1>9, <1>10, <1>11 DEF Inv

\* A card is put on the table.
LEMMA OneMorePlay ==
  ASSUME NEW trick, TrickOfPlayers(trick), NEW p \in Players, NEW card
  PROVE  LET more == Append(trick, [player |-> p, card |-> card])
         IN  TrickOfPlayers(more) /\ Len(more) = Len(trick) + 1
<1> DEFINE play == [player |-> p, card |-> card]
           more == Append(trick, play)
           S == Range(trick) \cup {play}
<1>1. trick \in Seq(S)
  BY DEF TrickOfPlayers
<1> HIDE DEF S
<1>2. /\ more \in Seq(S) /\ Len(more) = Len(trick) + 1 /\ DOMAIN more = 1 .. Len(trick) + 1
      /\ \A i \in 1 .. Len(trick) : more[i] = trick[i]
      /\ more[Len(trick) + 1] = play /\ Len(trick) \in Nat /\ DOMAIN trick = 1 .. Len(trick)
  BY <1>1 DEF S
<1> HIDE DEF more
<1>3. \A i \in DOMAIN more : more[i] \in Range(more)
  BY DEF Range
<1>4. more \in Seq(Range(more))
  BY <1>2, <1>3
<1>5. \A i \in DOMAIN more : "player" \in DOMAIN more[i] /\ more[i].player \in Players
  BY <1>2 DEF TrickOfPlayers
<1> QED
  BY <1>2, <1>4, <1>5 DEF TrickOfPlayers, more

\* A card is played, by whichever way.
LEMMA CardStep ==
  ASSUME Inv, WaitTurn, NEW p \in Players, NEW i, NEW card, Plays(p, i) \/ Forces(p, card)
  PROVE  Inv' /\ gs'.tricks_played = gs.tricks_played
<1>1. gs.phase = "PLAYING" /\ sg.play_substate = "WAIT_TURN"
  BY DEF WaitTurn
<1>2. \/ \E c, hands, broken :
             gs' = [[gs EXCEPT !.trick = Append(@, [player |-> p, card |-> c]), !.hearts_broken = broken]
                      EXCEPT !.hand = hands]
      \/ \E c, hands, broken, other :
             gs' = [[gs EXCEPT !.trick = Append(@, [player |-> p, card |-> c]), !.hearts_broken = other]
                      EXCEPT !.hand = hands, !.hearts_broken = broken]
  <2>1. CASE Forces(p, card)
    BY <2>1 DEF Forces, OnTable
  <2>2. CASE Plays(p, i)
    BY <2>2 DEF Plays, OnTable
  <2> QED
    BY <2>1, <2>2
<1>3. PICK c : gs'.trick = Append(gs.trick, [player |-> p, card |-> c])
  BY <1>2 DEF Inv, Shape
<1>4. /\ DOMAIN gs' = DOMAIN gs /\ gs'.phase = "PLAYING" /\ gs'.tricks_played = gs.tricks_played
      /\ gs'.lead_player = gs.lead_player /\ gs'.round_points = gs.round_points
  BY <1>1, <1>2 DEF Inv, Shape
<1>5. /\ DOMAIN sg' = DOMAIN sg /\ sg'.pass_substate = sg.pass_substate
      /\ sg'.draft_initialized = sg.draft_initialized /\ sg'.draft_round = sg.draft_round
      /\ sg'.play_substate = AfterCard
      /\ DOMAIN sg'.tti = DOMAIN sg.tti
  <2>1. \E info, before : \/ sg' = [sg EXCEPT !.tti[Len(gs.trick) + 1] = info, !.broken_before = before,
                                             !.play_substate = AfterCard]
                          \/ sg' = [sg EXCEPT !.broken_before = before, !.play_substate = AfterCard]
    <3>1. CASE Plays(p, i)
      BY <3>1 DEF Plays
    <3>2. CASE Forces(p, card)
      BY <3>2 DEF Forces
    <3> QED
      BY <3>1, <3>2
  <2> QED
    BY <2>1 DEF Inv, Shape
<1>6. DraftStays
  BY DEF Plays, Forces, DraftStays, Inv, Shape
<1>7. /\ TrickOfPlayers(gs'.trick) /\ Len(gs'.trick) = Len(gs.trick) + 1
      /\ Len(gs.trick) \in Nat /\ Len(gs.trick) < CardsPerTrick
  <2>1. TrickOfPlayers(gs.trick) /\ Len(gs.trick) < CardsPerTrick
    BY <1>1 DEF Inv, OnTheTable
  <2>2. Len(gs.trick) \in Nat
    BY <2>1 DEF TrickOfPlayers
  <2> QED
    BY <1>3, <2>1, <2>2, OneMorePlay
<1>8. ~p2.draft.active
  BY <1>1 DEF Inv, DraftGoesOn
<1>9. Shape'
  BY <1>1, <1>4, <1>5, <1>6 DEF Inv, Shape, DraftStays
<1>10. DraftGoesOn'
  BY <1>1, <1>4, <1>5, <1>6, <1>8 DEF Inv, DraftGoesOn, DraftStays
<1>11. OnTheTable'
  BY <1>1, <1>4, <1>5, <1>7 DEF Inv, OnTheTable, AfterCard, CardsPerTrick
<1>12. ContractsCount'
  BY <1>1, <1>4, <1>6 DEF Inv, ContractsCount, DraftStays
<1> QED
  BY <1>4, <1>9, <1>10, <1>11, <1>12 DEF Inv

\* While a turn is waited for, it is somebody's.
LEMMA CurrentIsAPlayer == Inv /\ WaitTurn => Current \in Players
<1> SUFFICES ASSUME Inv, WaitTurn PROVE Current \in Players
  OBVIOUS
<1>1. gs.phase = "PLAYING" /\ sg.play_substate = "WAIT_TURN"
  BY DEF WaitTurn
<1>2. gs.lead_player \in Int /\ Len(gs.trick) \in Nat /\ Len(gs.trick) < CardsPerTrick
  BY <1>1 DEF Inv, OnTheTable, TrickOfPlayers
<1>3. Current = (gs.lead_player + Len(gs.trick)) % 4
  BY <1>1, <1>2 DEF Current, game_state_current_player, trick_is_complete
<1> QED
  BY <1>2, <1>3 DEF Players

\* Commands, AI and timeouts all play by Plays or Forces.
LEMMA TurnStep ==
  ASSUME Inv, (\E p \in Owners : \E i : PlayCard(p, i)) \/ TickHuman \/ TickAI
  PROVE  Inv' /\ gs'.tricks_played = gs.tricks_played
<1>1. WaitTurn /\ \E p \in Players : (\E i : Plays(p, i)) \/ (\E card : Forces(p, card))
  <2>1. CASE \E p \in Owners : \E i : PlayCard(p, i)
    BY <2>1, TableAssumption DEF PlayCard
  <2>2. CASE TickHuman
    <3>1. WaitTurn /\ AutoPlays(Current)
      BY <2>2 DEF TickHuman
    <3>2. Current \in Players
      BY <3>1, CurrentIsAPlayer
    <3> QED
      BY <3>1, <3>2, Zenon DEF AutoPlays
  <2>3. CASE TickAI
    <3>1. /\ WaitTurn
          /\ \/ \E i : Plays(Current, i)
             \/ \E card : Forces(Current, card)
             \/ AutoPlays(Current)
      BY <2>3, Zenon DEF TickAI
    <3>2. Current \in Players
      BY <3>1, CurrentIsAPlayer
    <3> QED
      BY <3>1, <3>2, Zenon DEF AutoPlays
  <2> QED
    BY <2>1, <2>2, <2>3
<1> QED
  BY <1>1, CardStep

-----------------------------------------------------------------------------
(* A trick is resolved, and the round ends *)

\* What TickTrickDone makes of the game, for a winner.
LEMMA CompletedFields ==
  ASSUME Inv, gs.phase = "PLAYING", NEW winner \in Players, NEW points,
         points.redirected \in [Players -> Int], points.won \in Int
  PROVE  LET done == Completed(winner, points)
         IN  /\ DOMAIN done = DOMAIN gs /\ done.tricks_played = gs.tricks_played + 1
             /\ done.lead_player \in Int
             /\ \/ done.phase = "SCORING" /\ done.trick = gs.trick
                \/ /\ done.phase = "PLAYING" /\ done.trick = <<>>
                   /\ done.moon_shooter = gs.moon_shooter
             /\ done.phase = "PLAYING" \/ done.moon_shooter = NoPlayer =>
                  done.round_points = [p \in Players |->
                    gs.round_points[p] + points.redirected[p] + IF p = winner THEN points.won ELSE 0]
<1> DEFINE before == [gs EXCEPT !.round_points = [p \in Players |-> @[p] + points.redirected[p]]]
           taken == [before.round_points EXCEPT ![winner] = @ + points.won]
           last == before.tricks_played + 1 >= TricksPerRound
           shooter == MoonShooter(taken, winner)
           final == IF shooter = NoPlayer THEN taken
                    ELSE [p \in Players |-> IF p = shooter THEN 0 ELSE taken[shooter]]
           done == Completed(winner, points)
<1>1. /\ gs.round_points \in [Players -> Int] /\ gs.tricks_played \in Nat /\ gs.lead_player \in Int
      /\ {"phase", "tricks_played", "trick", "lead_player", "round_points", "moon_shooter"} \subseteq DOMAIN gs
  BY DEF Inv, OnTheTable, Shape
<1>2. /\ DOMAIN before = DOMAIN gs /\ before.tricks_played = gs.tricks_played
      /\ before.lead_player = gs.lead_player /\ before.trick = gs.trick /\ before.phase = "PLAYING"
      /\ before.moon_shooter = gs.moon_shooter
      /\ before.round_points = [p \in Players |-> gs.round_points[p] + points.redirected[p]]
  BY <1>1
<1>3. done = IF last
             THEN [before EXCEPT !.tricks_played = @ + 1, !.round_points = final,
                                 !.total_score = [p \in Players |-> @[p] + final[p]],
                                 !.moon_shooter = shooter, !.phase = "SCORING"]
             ELSE [before EXCEPT !.tricks_played = @ + 1, !.round_points = taken,
                                 !.lead_player = winner, !.trick = <<>>]
  BY DEF Completed, game_state_complete_trick_with
<1> HIDE DEF before, shooter, done, last
<1>4. taken = [p \in Players |->
                gs.round_points[p] + points.redirected[p] + IF p = winner THEN points.won ELSE 0]
  <2>1. \A p \in Players : taken[p] =
          gs.round_points[p] + points.redirected[p] + IF p = winner THEN points.won ELSE 0
    BY <1>1, <1>2
  <2>2. DOMAIN taken = Players /\ taken = [p \in Players |-> taken[p]]
    BY <1>2
  <2> QED
    BY <2>1, <2>2
<1> HIDE DEF taken
<1>5. CASE last
  <2>1. /\ DOMAIN done = DOMAIN gs /\ done.tricks_played = gs.tricks_played + 1
        /\ done.phase = "SCORING" /\ done.trick = gs.trick /\ done.lead_player = gs.lead_player
        /\ done.moon_shooter = shooter /\ done.round_points = final
    BY <1>1, <1>2, <1>3, <1>5
  <2> QED
    BY <1>1, <1>4, <2>1 DEF done
<1>6. CASE ~last
  <2>1. /\ DOMAIN done = DOMAIN gs /\ done.tricks_played = gs.tricks_played + 1
        /\ done.phase = "PLAYING" /\ done.trick = <<>> /\ done.lead_player = winner
        /\ done.moon_shooter = gs.moon_shooter /\ done.round_points = taken
    BY <1>1, <1>2, <1>3, <1>6
  <2>2. winner \in Int
    BY DEF Players
  <2> QED
    BY <1>4, <2>1, <2>2 DEF done
<1> QED
  BY <1>5, <1>6

\* The points of a card are a number, whatever it is and whatever effects there are.
LEMMA PointsAreNumbers ==
  ASSUME NEW trick, NEW tti, NEW i, NEW state
  PROVE  PointsOf(trick, tti, i, state) \in Int
<1>1. \A card : card_points(card) \in Int
  BY DEF card_points
<1>2. \A id \in DOMAIN Defs : Defs[id].points \in Int
  BY DefsAssumption
<1> QED
  BY <1>1, <1>2 DEF PointsOf

\* The points of a trick are numbers, bounty and parasites first.
LEMMA PointsForFields ==
  ASSUME NEW winner
  PROVE  LET b == [p \in Players |-> BountyOf(p)]
             count == transmute_trick_count_points(gs.trick, sg.tti, p2)
             takes(p) == IF p2.shield[p] > 0 THEN 0 ELSE count - Sum(b)
         IN  /\ b \in [Players -> Int] /\ count \in Int
             /\ PointsFor(winner).redirected =
                  [p \in Players |-> b[p] + (IF p \in Parasites THEN takes(p) ELSE 0)]
             /\ PointsFor(winner).won = (IF Parasites # {} THEN 0 ELSE takes(winner))
             /\ PointsFor(winner).redirected \in [Players -> Int] /\ PointsFor(winner).won \in Int
<1> DEFINE b == [p \in Players |-> BountyOf(p)]
           count == transmute_trick_count_points(gs.trick, sg.tti, p2)
           takes(p) == IF p2.shield[p] > 0 THEN 0 ELSE count - Sum(b)
<1>1. \A p, i : QueenOf(p, i) \in Int
  BY PointsAreNumbers DEF QueenOf
<1>2. \A p : BountyOf(p) \in Int
  BY <1>1 DEF BountyOf
<1>3. count \in Int
  BY PointsAreNumbers DEF transmute_trick_count_points
<1>4. b \in [Players -> Int]
  BY <1>2
<1>5. Sum(b) \in Int
  BY <1>4 DEF Sum, Players
<1>6. /\ PointsFor(winner).redirected =
           [p \in Players |-> b[p] + (IF p \in Parasites THEN takes(p) ELSE 0)]
      /\ PointsFor(winner).won = (IF Parasites # {} THEN 0 ELSE takes(winner))
  BY DEF PointsFor, BountyTaken
<1> HIDE DEF b, count
<1>7. \A p : takes(p) \in Int
  BY <1>3, <1>5
<1> HIDE DEF takes
<1>8. PointsFor(winner).redirected \in [Players -> Int] /\ PointsFor(winner).won \in Int
  BY <1>4, <1>6, <1>7
<1> QED
  BY <1>3, <1>4, <1>6, <1>8 DEF b, count, takes

\* How TickTrickDone goes on for a winner; sub is the sub-state the play is in then.
Resolves(winner, points, done, after, sub) ==
  /\ winner \in transmute_trick_get_winner(gs.trick, sg.tti, p2)
  /\ points = PointsFor(winner) /\ done = Completed(winner, points) /\ after = Affected(winner, done)
  /\ gs' = done
  /\ p2' = after \/ \E view : p2' = [after EXCEPT !.rogue_pending = NoPlayer, !.rogue_view = view]
  /\ \E comp : sg' = [sg EXCEPT !.tti = sv_reset_tti, !.comp_ai = comp, !.play_substate = sub]
  /\ sub \in {"IDLE", "ROGUE_WAIT", "WAIT_TURN"} /\ (done.phase = "PLAYING" => sub # "IDLE")

\* The end of a trick is that of one of the possible winners.
LEMMA TrickIsResolved ==
  TickTrickDone => \E winner, points, done, after, sub : Resolves(winner, points, done, after, sub)
<1> SUFFICES ASSUME TickTrickDone
             PROVE  \E winner, points, done, after, sub : Resolves(winner, points, done, after, sub)
  OBVIOUS
<1>1. PICK winner, points, done, after :
        /\ winner \in transmute_trick_get_winner(gs.trick, sg.tti, p2)
        /\ points = PointsFor(winner) /\ done = Completed(winner, points)
        /\ after = Affected(winner, done) /\ TrickResolved(winner, done, after)
  BY Zenon DEF TickTrickDone
<1> DEFINE rogue == IF done.phase = "PLAYING" THEN after.rogue_pending ELSE NoPlayer
           waits == rogue # NoPlayer /\ is_human[rogue]
           sub == IF done.phase # "PLAYING" THEN "IDLE" ELSE IF waits THEN "ROGUE_WAIT" ELSE "WAIT_TURN"
<1>2. /\ gs' = done
      /\ p2' = after \/ \E choice : p2' = [after EXCEPT !.rogue_pending = NoPlayer,
                            !.rogue_view = Revealed(gs.hand, choice[1], choice[2])]
      /\ sg' = [sg EXCEPT !.tti = sv_reset_tti,
                          !.comp_ai = [p \in Players |-> AfterTrick(p, winner, done)],
                          !.play_substate = sub]
  BY <1>1 DEF TrickResolved
<1>3. sub \in {"IDLE", "ROGUE_WAIT", "WAIT_TURN"} /\ (done.phase = "PLAYING" => sub # "IDLE")
  OBVIOUS
<1> HIDE DEF sub
<1>4. p2' = after \/ \E view : p2' = [after EXCEPT !.rogue_pending = NoPlayer, !.rogue_view = view]
  BY <1>2
<1>5. Resolves(winner, points, done, after, sub)
  BY <1>1, <1>2, <1>3, <1>4 DEF Resolves
<1> QED
  BY <1>5

\* The winner is one of those who played.
LEMMA WinnerInTurn ==
  ASSUME Inv, gs.phase = "PLAYING", sg.play_substate = "TRICK_DONE",
         NEW winner, NEW points, NEW done, NEW after, NEW sub, Resolves(winner, points, done, after, sub)
  PROVE  winner \in Players
<1>1. TrickOfPlayers(gs.trick) /\ Len(gs.trick) = CardsPerTrick /\ DOMAIN sg.tti = 1 .. CardsPerTrick
  BY DEF Inv, OnTheTable
<1>2. transmute_trick_get_winner(gs.trick, sg.tti, p2) \subseteq Players
  BY <1>1, WinnerIsAPlayer
<1> QED
  BY <1>2 DEF Resolves

\* The trick is entered before the next one begins.
LEMMA TrickStep == Inv /\ TickTrickDone => Inv'
<1> SUFFICES ASSUME Inv, TickTrickDone PROVE Inv'
  OBVIOUS
<1>1. gs.phase = "PLAYING" /\ sg.play_substate = "TRICK_DONE"
  BY DEF TickTrickDone
<1>2. PICK winner, points, done, after, sub : Resolves(winner, points, done, after, sub)
  BY TrickIsResolved
<1>3. winner \in Players
  BY <1>1, <1>2, WinnerInTurn
<1>4. points.redirected \in [Players -> Int] /\ points.won \in Int
  BY <1>2, PointsForFields DEF Resolves
<1>5. /\ gs' = done /\ DOMAIN done = DOMAIN gs /\ done.tricks_played = gs.tricks_played + 1
      /\ done.lead_player \in Int
      /\ \/ done.phase = "SCORING" /\ done.trick = gs.trick
         \/ done.phase = "PLAYING" /\ done.trick = <<>>
      /\ done.phase = "PLAYING" => done.round_points \in [Players -> Int]
  <2>1. gs.round_points \in [Players -> Int]
    BY <1>1 DEF Inv, OnTheTable
  <2>2. gs' = done /\ done = Completed(winner, points)
    BY <1>2 DEF Resolves
  <2>3. /\ DOMAIN done = DOMAIN gs /\ done.tricks_played = gs.tricks_played + 1
        /\ done.lead_player \in Int
        /\ \/ done.phase = "SCORING" /\ done.trick = gs.trick
           \/ done.phase = "PLAYING" /\ done.trick = <<>>
        /\ done.phase = "PLAYING" =>
             done.round_points = [p \in Players |->
               gs.round_points[p] + points.redirected[p] + IF p = winner THEN points.won ELSE 0]
    BY <1>1, <1>3, <1>4, <2>2, CompletedFields
  <2>4. [p \in Players |->
           gs.round_points[p] + points.redirected[p] + IF p = winner THEN points.won ELSE 0]
          \in [Players -> Int]
    <3>1. \A p \in Players : gs.round_points[p] \in Int /\ points.redirected[p] \in Int
      BY <1>4, <2>1
    <3> QED
      BY <1>4, <3>1
  <2> QED
    BY <2>2, <2>3, <2>4
<1>6. gs.tricks_played \in Nat /\ Entered(p2.contracts, gs.tricks_played) /\ ~p2.draft.active
  BY <1>1 DEF Inv, OnTheTable, ContractsCount, DraftGoesOn
<1>7. /\ DOMAIN after = DOMAIN p2 /\ after.draft = p2.draft
      /\ Entered(after.contracts, gs.tricks_played + 1)
  <2> DEFINE spent == [p2 EXCEPT !.shield = [p \in Players |-> AtLeastZero(@[p] - 1)],
                                 !.binding = [p \in Players |-> FALSE]]
             entered == contract_on_trick_complete(spent, done.round_points, gs.trick, winner,
                                                   TrickNumber(done), sg.tti, sg.broken_before)
  <2>1. after = transmute_on_trick_complete(entered, gs.trick, winner, sg.tti)
    BY <1>2 DEF Resolves, Affected
  <2>2. /\ DOMAIN spent = DOMAIN p2 /\ {"contracts", "draft"} \subseteq DOMAIN spent
        /\ spent.contracts = p2.contracts /\ spent.draft = p2.draft
    BY DEF Inv, Shape
  <2>3. TrickNumber(done) = gs.tricks_played
    BY <1>5, <1>6 DEF TrickNumber
  <2> HIDE DEF spent
  <2>4. /\ Entered(entered.contracts, gs.tricks_played + 1)
        /\ DOMAIN entered = DOMAIN spent /\ entered.draft = spent.draft
    BY <1>3, <1>6, <2>2, <2>3, TrickIsEntered
  <2> HIDE DEF entered
  <2>5. /\ DOMAIN after = DOMAIN entered /\ after.draft = entered.draft
        /\ after.contracts = entered.contracts
    BY <2>1, <2>2, <2>4 DEF transmute_on_trick_complete
  <2> QED
    BY <2>2, <2>4, <2>5
<1>8. DOMAIN p2' = DOMAIN p2 /\ p2'.draft = p2.draft /\ p2'.contracts = after.contracts
  <2>1. p2' = after \/ \E view : p2' = [after EXCEPT !.rogue_pending = NoPlayer, !.rogue_view = view]
    BY <1>2 DEF Resolves
  <2> QED
    BY <1>7, <2>1 DEF Inv, Shape
<1>9. /\ DOMAIN sg' = DOMAIN sg /\ sg'.tti = sv_reset_tti /\ sg'.pass_substate = sg.pass_substate
      /\ sg'.draft_initialized = sg.draft_initialized
      /\ sg'.play_substate \in {"IDLE", "ROGUE_WAIT", "WAIT_TURN"}
      /\ done.phase = "PLAYING" => sg'.play_substate # "IDLE"
  <2>1. /\ \E comp : sg' = [sg EXCEPT !.tti = sv_reset_tti, !.comp_ai = comp, !.play_substate = sub]
        /\ sub \in {"IDLE", "ROGUE_WAIT", "WAIT_TURN"} /\ (done.phase = "PLAYING" => sub # "IDLE")
    BY <1>2 DEF Resolves
  <2> QED
    BY <2>1 DEF Inv, Shape
<1>10. DOMAIN sv_reset_tti = 1 .. CardsPerTrick
  BY DEF sv_reset_tti
<1>11. Shape'
  BY <1>5, <1>8, <1>9 DEF Inv, Shape, Phases
<1>12. DraftGoesOn'
  BY <1>1, <1>5, <1>6, <1>8, <1>9 DEF Inv, DraftGoesOn
<1>13. OnTheTable'
  <2>1. TrickOfPlayers(gs.trick) /\ TrickOfPlayers(<<>>) /\ Len(<<>>) = 0
    BY DEF Inv, OnTheTable, TrickOfPlayers, Range
  <2>2. TrickOfPlayers(gs'.trick) /\ (done.phase = "PLAYING" => Len(gs'.trick) = 0)
    BY <1>5, <2>1
  <2> QED
    BY <1>5, <1>6, <1>9, <1>10, <2>2 DEF OnTheTable, CardsPerTrick
<1>14. ContractsCount'
  BY <1>5, <1>7, <1>8 DEF ContractsCount
<1> QED
  BY <1>11, <1>12, <1>13, <1>14 DEF Inv

\* A card is revealed, and the play goes on.
LEMMA RogueStep ==
  ASSUME Inv, NEW p, NEW target, NEW suit, RogueReveal(p, target, suit)
  PROVE  Inv'
<1>1. /\ gs' = gs /\ gs.phase = "PLAYING" /\ sg.play_substate = "ROGUE_WAIT" /\ DraftStays
      /\ sg' = [sg EXCEPT !.play_substate = "WAIT_TURN"]
  BY DEF RogueReveal, DraftStays, Inv, Shape
<1>2. /\ DOMAIN sg' = DOMAIN sg /\ sg'.pass_substate = sg.pass_substate /\ sg'.tti = sg.tti
      /\ sg'.draft_initialized = sg.draft_initialized /\ sg'.draft_round = sg.draft_round
      /\ sg'.play_substate = "WAIT_TURN"
  BY <1>1 DEF Inv, Shape
<1>3. Shape'
  BY <1>1, <1>2 DEF Inv, Shape, DraftStays
<1>4. DraftGoesOn'
  BY <1>1, <1>2 DEF Inv, DraftGoesOn, DraftStays
<1>5. OnTheTable'
  BY <1>1, <1>2 DEF Inv, OnTheTable
<1>6. ContractsCount'
  BY <1>1, <1>2 DEF Inv, ContractsCount, DraftStays
<1> QED
  BY <1>3, <1>4, <1>5, <1>6 DEF Inv

\* The end of a round, and the deal of the next one.
LEMMA ScoringStep ==
  ASSUME Inv, TickEvaluate \/ (\E p \in Owners : ConfirmScores(p)) \/ TickAdvance
  PROVE  Inv'
<1>1. gs.phase = "SCORING" /\ ~p2.draft.active /\ sg.pass_substate # "CARD_SELECT"
  BY DEF TickEvaluate, ConfirmScores, TickAdvance, Inv, DraftGoesOn
<1>2. /\ DOMAIN p2' = DOMAIN p2 /\ p2'.draft = p2.draft
  BY DEF TickEvaluate, ConfirmScores, TickAdvance, Inv, Shape
<1>3. /\ DOMAIN sg' = DOMAIN sg /\ sg'.tti = sg.tti /\ sg'.pass_substate # "CARD_SELECT"
      /\ sg'.draft_initialized = sg.draft_initialized
  BY <1>1 DEF TickEvaluate, ConfirmScores, TickAdvance, Inv, Shape
<1>4. /\ DOMAIN gs' = DOMAIN gs
      /\ \/ /\ gs'.phase \in {"SCORING", "GAME_OVER"} /\ gs'.tricks_played = gs.tricks_played
            /\ gs'.trick = gs.trick /\ gs'.lead_player = gs.lead_player
         \/ /\ gs'.phase = "DEALING" /\ gs'.tricks_played = 0 /\ gs'.trick = <<>>
            /\ gs'.lead_player = NoPlayer /\ gs'.round_points = [p \in Players |-> 0]
  <2>1. CASE TickEvaluate
    <3>1. \E points, total : gs' = [gs EXCEPT !.round_points = points, !.total_score = total]
      BY <2>1 DEF TickEvaluate
    <3> QED
      BY <1>1, <3>1 DEF Inv, Shape
  <2>2. CASE \E p \in Owners : ConfirmScores(p)
    BY <1>1, <2>2 DEF ConfirmScores
  <2>3. CASE TickAdvance
    BY <1>1, <2>3 DEF TickAdvance, NewRound, game_state_new_round, Inv, Shape
  <2> QED
    BY <2>1, <2>2, <2>3
<1>5. TrickOfPlayers(<<>>) /\ NoPlayer \in Int
  BY DEF TrickOfPlayers, Range, NoPlayer
<1>6. Shape'
  BY <1>2, <1>3, <1>4 DEF Inv, Shape, Phases
<1>7. DraftGoesOn'
  BY <1>1, <1>2, <1>3, <1>4 DEF DraftGoesOn
<1>8. OnTheTable'
  BY <1>1, <1>3, <1>4, <1>5 DEF Inv, OnTheTable
<1>9. ContractsCount'
  BY <1>4 DEF ContractsCount
<1> QED
  BY <1>6, <1>7, <1>8, <1>9 DEF Inv

-----------------------------------------------------------------------------
(* The invariant holds at all times *)

\* Who plays a seat is not read by the invariant.
LEMMA SeatingStep == Inv /\ (Seating \/ Ended \/ UNCHANGED vars) => Inv'
<1> SUFFICES ASSUME Inv, Seating \/ Ended \/ UNCHANGED vars PROVE Inv'
  OBVIOUS
<1>1. gs' = gs /\ sg' = sg /\ p2' = p2
  BY DEF Seating, TakeOver, Return, Ended, vars
<1> QED
  BY <1>1, Untouched DEF GameStays, ServerStays, DraftStays

\* The commands of the players.
LEMMA CommandedStep == Inv /\ Commanded => Inv'
<1> SUFFICES ASSUME Inv, NEW p \in Owners,
                    \/ \E i \in 1 .. GroupSize : SelectContract(p, i)
                    \/ \E i \in DOMAIN gs.hand[p] :
                         SelectCard(p, i) \/ ApplyTransmutation(p, gs.hand[p][i]) \/ PlayCard(p, i)
                    \/ \E id \in Range(p2.inv[p]) \cup {NotTransmuted} : SelectTransmutation(p, id)
                    \/ \E target \in Players, suit \in Suits : RogueReveal(p, target, suit)
                    \/ ConfirmPass(p) \/ ConfirmScores(p)
             PROVE  Inv'
  BY DEF Commanded
<1>0. p \in Players
  BY TableAssumption
<1>1. CASE \E i \in 1 .. GroupSize : SelectContract(p, i)
  BY <1>0, <1>1, SelectContractStep
<1>2. CASE \E i \in DOMAIN gs.hand[p] : PlayCard(p, i)
  BY <1>2, TurnStep
<1>3. CASE \/ \E i \in DOMAIN gs.hand[p] : SelectCard(p, i) \/ ApplyTransmutation(p, gs.hand[p][i])
           \/ \E id \in Range(p2.inv[p]) \cup {NotTransmuted} : SelectTransmutation(p, id)
           \/ ConfirmPass(p)
  BY <1>3, SelectionStep
<1>4. CASE \E target \in Players, suit \in Suits : RogueReveal(p, target, suit)
  BY <1>4, RogueStep
<1>5. CASE ConfirmScores(p)
  BY <1>5, ScoringStep
<1> QED
  BY <1>1, <1>2, <1>3, <1>4, <1>5

\* The dealer's choices come by commands and by ticks.
LEMMA DealerCommands == DealerCommand \/ TickDealer => Confirmed \/ (\E x : DirectionIs(x)) \/ \E x : AmountIs(x)
  BY DEF DealerCommand, TickDealer

\* Every step keeps the invariant.
LEMMA NextInv == Inv /\ [Next]_vars => Inv'
<1> SUFFICES ASSUME Inv, [Next]_vars PROVE Inv'
  OBVIOUS
<1>1. CASE TickDeal
  BY <1>1, DealStep
<1>2. CASE TickDealer \/ DealerCommand
  BY <1>2, DealerCommands, DealerStep
<1>3. CASE TickDraft
  BY <1>3, DraftStep
<1>4. CASE TickSelect
  BY <1>4, SelectStep
<1>5. CASE TickExecute
  BY <1>5, ExecuteStep
<1>6. CASE TickTransmute
  BY <1>6, TransmuteStep
<1>7. CASE TickHuman \/ TickAI
  BY <1>7, TurnStep
<1>8. CASE TickTrickDone
  BY <1>8, TrickStep
<1>9. CASE TickEvaluate \/ TickAdvance
  BY <1>9, ScoringStep
<1>10. CASE Commanded
  BY <1>10, CommandedStep
<1>11. CASE Seating \/ Ended \/ UNCHANGED vars
  BY <1>11, SeatingStep
<1> QED
  BY <1>1, <1>2, <1>3, <1>4, <1>5, <1>6, <1>7, <1>8, <1>9, <1>10, <1>11 DEF Next, Tick

\* Inv is an invariant.
LEMMA InvHolds == Spec => []Inv
<1>1. Init => Inv
  BY InitInv
<1>2. Inv /\ [Next]_vars => Inv'
  BY NextInv
<1> QED
  BY <1>1, <1>2, PTL DEF Spec

-----------------------------------------------------------------------------
(* What the invariant says of the contracts *)

\* The streak of a contract is the longest run that ends with the last trick, and its
\* longest streak the longest run of all.
LEMMA StreaksAreRuns ==
  ASSUME NEW t \in Nat, NEW won, NEW s, NEW m, Runs(s, m, won, t)
  PROVE  /\ s = Max({n \in 0 .. t : t - 1 - n + 1 .. t - 1 \subseteq won})
         /\ m = Max({n \in 0 .. t : \E a \in 0 .. t - 1 : a .. a + n - 1 \subseteq won} \cup {0})
<1> DEFINE Ending == {n \in 0 .. t : t - 1 - n + 1 .. t - 1 \subseteq won}
           All == {n \in 0 .. t : \E a \in 0 .. t - 1 : a .. a + n - 1 \subseteq won} \cup {0}
<1>1. s \in Ending
  <2>1. t - 1 - s + 1 = t - s
    BY DEF Runs
  <2> QED
    BY <2>1 DEF Runs
<1>2. ASSUME NEW n \in Ending PROVE n <= s
  <2> SUFFICES ASSUME n > s PROVE FALSE
    BY DEF Runs
  <2>1. s \in Nat /\ n \in 0 .. t /\ s < t /\ t - s - 1 \notin won
    BY DEF Runs
  <2>2. t - s - 1 \in t - 1 - n + 1 .. t - 1
    BY <2>1
  <2> QED
    BY <2>1, <2>2
<1>3. m \in All
  <2>1. CASE m > 0
    BY <2>1 DEF Runs
  <2>2. CASE m = 0
    BY <2>2
  <2>3. m \in Nat
    BY DEF Runs
  <2> QED
    BY <2>1, <2>2, <2>3
<1>4. ASSUME NEW n \in All PROVE n <= m
  <2>1. m \in Nat
    BY DEF Runs
  <2>2. CASE n = 0
    BY <2>1, <2>2
  <2>3. CASE n # 0
    <3>1. n \in 0 .. t /\ \E a \in 0 .. t - 1 : a .. a + n - 1 \subseteq won
      BY <2>3
    <3> QED
      BY <3>1 DEF Runs
  <2> QED
    BY <2>2, <2>3
<1>5. Ending \subseteq Int /\ All \subseteq Int
  OBVIOUS
<1>6. s \in Int /\ m \in Int
  BY DEF Runs
<1> HIDE DEF Ending, All
<1>7. s = Max(Ending)
  <2>1. \E x \in Ending : \A y \in Ending : x >= y
    BY <1>1, <1>2, <1>5, <1>6
  <2>2. Max(Ending) \in Ending /\ \A y \in Ending : Max(Ending) >= y
    BY <2>1 DEF Max
  <2>3. Max(Ending) >= s /\ Max(Ending) <= s /\ Max(Ending) \in Int
    BY <1>1, <1>2, <1>5, <2>2
  <2> QED
    BY <1>6, <2>3
<1>8. m = Max(All)
  <2>1. \E x \in All : \A y \in All : x >= y
    BY <1>3, <1>4, <1>5, <1>6
  <2>2. Max(All) \in All /\ \A y \in All : Max(All) >= y
    BY <2>1 DEF Max
  <2>3. Max(All) >= m /\ Max(All) <= m /\ Max(All) \in Int
    BY <1>3, <1>4, <1>5, <2>2
  <2> QED
    BY <1>6, <2>3
<1> QED
  BY <1>7, <1>8 DEF Ending, All

\* The contracts of the invariant are as the property asks for.
LEMMA ContractsAreTold == Inv => ContractsSeeEveryTrick
<1> SUFFICES ASSUME Inv, gs.phase = "PLAYING", sg.play_substate # "IDLE"
             PROVE  LET won(p) == p2.contracts[p][1].tricks
                        run(p, a, b) == a .. b \subseteq won(p)
                        last == gs.tricks_played - 1
                    IN  /\ UNION {won(p) : p \in Players} = 0 .. last
                        /\ Sum([p \in Players |-> Cardinality(won(p))]) = gs.tricks_played
                        /\ \A p \in Players : \A c \in DOMAIN p2.contracts[p] :
                             /\ p2.contracts[p][c].tricks = won(p)
                             /\ p2.contracts[p][c].streak =
                                  Max({n \in 0 .. gs.tricks_played : run(p, last - n + 1, last)})
                             /\ p2.contracts[p][c].max_streak =
                                  Max({n \in 0 .. gs.tricks_played :
                                         \E a \in 0 .. last : run(p, a, a + n - 1)} \cup {0})
  BY DEF ContractsSeeEveryTrick
<1> DEFINE cs == p2.contracts
           t == gs.tricks_played
<1>1. Entered(cs, t) /\ t \in Nat
  BY DEF Inv, ContractsCount, OnTheTable
<1>2. /\ UNION {WonBy(cs, p) : p \in Players} = 0 .. t - 1
      /\ Sum([p \in Players |-> Cardinality(WonBy(cs, p))]) = t
      /\ \A p \in Players : DOMAIN cs[p] = 1 .. DraftRounds
      /\ \A p \in Players : \A c \in 1 .. DraftRounds : Logged(cs[p][c], WonBy(cs, p), t)
  BY <1>1 DEF Entered, Drawn
<1>3. ASSUME NEW p \in Players, NEW c \in DOMAIN cs[p]
      PROVE  /\ cs[p][c].tricks = cs[p][1].tricks
             /\ cs[p][c].streak = Max({n \in 0 .. t : t - 1 - n + 1 .. t - 1 \subseteq cs[p][1].tricks})
             /\ cs[p][c].max_streak =
                  Max({n \in 0 .. t : \E a \in 0 .. t - 1 : a .. a + n - 1 \subseteq cs[p][1].tricks} \cup {0})
  <2>1. Logged(cs[p][c], cs[p][1].tricks, t)
    BY <1>2 DEF WonBy
  <2>2. cs[p][c].tricks = cs[p][1].tricks /\ Runs(cs[p][c].streak, cs[p][c].max_streak, cs[p][1].tricks, t)
    BY <2>1 DEF Logged
  <2> QED
    BY <1>1, <2>2, StreaksAreRuns
<1> QED
  BY <1>2, <1>3 DEF WonBy

\* Each trick is entered in the contracts of its winner, once and with its number, and the
\* streaks of all contracts are those of the tricks won, whatever the definitions, the
\* deals, the pairs drafted and the effects of the cards.
THEOREM EveryTrickIsSeen == Spec => []ContractsSeeEveryTrick
<1>1. Inv => ContractsSeeEveryTrick
  BY ContractsAreTold
<1> QED
  BY <1>1, InvHolds, PTL

-----------------------------------------------------------------------------
(* What the invariant says of the pairs *)

Places(n) == Players \X (1 .. n)

\* As many of each player, and none of them twice, are four times as many.
LEMMA SpreadOut ==
  ASSUME NEW n \in Nat, NEW g, DOMAIN g = Places(n),
         \A x, y \in Places(n) : g[x] = g[y] => x = y
  PROVE  Cardinality({g[x] : x \in Places(n)}) = 4 * n
<1> DEFINE S == Places(n)
           T == {g[x] : x \in S}
           h == [x \in S |-> g[x]]
<1>1. IsFiniteSet(Players) /\ Cardinality(Players) = 4
  <2>1. \A b \in Nat : IsFiniteSet(0 .. b) /\ Cardinality(0 .. b) = b - 0 + 1
    BY FS_Interval
  <2>2. 3 \in Nat /\ 3 - 0 + 1 = 4 /\ Players = 0 .. 3
    BY DEF Players
  <2> QED
    BY <2>1, <2>2
<1>2. IsFiniteSet(1 .. n) /\ Cardinality(1 .. n) = n
  <2>1. IsFiniteSet(1 .. n) /\ Cardinality(1 .. n) = IF 1 > n THEN 0 ELSE n - 1 + 1
    BY FS_Interval
  <2> QED
    BY <2>1
<1>3. IsFiniteSet(S) /\ Cardinality(S) = 4 * n
  <2>1. IsFiniteSet(S) /\ Cardinality(S) = Cardinality(Players) * Cardinality(1 .. n)
    BY <1>1, <1>2, FS_Product DEF Places
  <2> QED
    BY <1>1, <1>2, <2>1
<1>4. h \in Bijection(S, T)
  <2>1. h \in [S -> T]
    OBVIOUS
  <2>2. \A a, b \in S : h[a] = h[b] => a = b
    OBVIOUS
  <2>3. \A y \in T : \E x \in S : h[x] = y
    OBVIOUS
  <2> HIDE DEF h, S, T
  <2> QED
    BY <2>1, <2>2, <2>3 DEF Bijection, Injection, Surjection, IsInjective
<1> HIDE DEF S, T, h
<1>5. ExistsBijection(S, T)
  BY <1>4 DEF ExistsBijection
<1>6. IsFiniteSet(T) /\ Cardinality(T) = Cardinality(S)
  BY <1>3, <1>5, FS_Bijection
<1> QED
  BY <1>3, <1>6 DEF S, T

\* In a draft every pair is of one player, to pick or picked.
LEMMA DraftIsWhole ==
  ASSUME NEW d, NEW n \in Nat, Drafted(d, n), n < DraftRounds
  PROVE  /\ Sum([p \in Players |-> Len(d.available[p]) + Len(d.picked[p])]) = 4 * GroupSize
         /\ Cardinality(UNION {Range(d.available[p]) \cup Range(d.picked[p]) : p \in Players})
              = 4 * GroupSize
         /\ \A p \in Players : Len(d.picked[p]) = n + (IF d.has_picked[p] THEN 1 ELSE 0)
<1> DEFINE many(p) == n + IF d.has_picked[p] THEN 1 ELSE 0
           av(p) == d.available[p]
           pi(p) == d.picked[p]
           at(p, k) == IF k <= many(p) THEN pi(p)[k] ELSE av(p)[k - many(p)]
           g == [x \in Places(GroupSize) |-> at(x[1], x[2])]
           all == UNION {Range(av(p)) \cup Range(pi(p)) : p \in Players}
<1>1. GroupSize \in Nat /\ DraftRounds \in 1 .. GroupSize
  BY PoolAssumption
<1>2. \A p \in Players : /\ av(p) \in Seq(Pairs) /\ pi(p) \in Seq(Pairs)
                         /\ many(p) \in 0 .. GroupSize
                         /\ Len(pi(p)) = many(p) /\ Len(av(p)) = GroupSize - many(p)
                         /\ DOMAIN pi(p) = 1 .. many(p) /\ DOMAIN av(p) = 1 .. GroupSize - many(p)
  <2> SUFFICES ASSUME NEW p \in Players
               PROVE  /\ av(p) \in Seq(Pairs) /\ pi(p) \in Seq(Pairs)
                      /\ many(p) \in 0 .. GroupSize
                      /\ Len(pi(p)) = many(p) /\ Len(av(p)) = GroupSize - many(p)
                      /\ DOMAIN pi(p) = 1 .. many(p) /\ DOMAIN av(p) = 1 .. GroupSize - many(p)
    OBVIOUS
  <2>1. av(p) \in Seq(Pairs) /\ pi(p) \in Seq(Pairs)
    BY DEF Drafted, Drafts, Boards
  <2>2. Len(pi(p)) = many(p) /\ Len(av(p)) = GroupSize - many(p)
    BY DEF Drafted, Counted
  <2>3. many(p) \in 0 .. GroupSize
    BY <1>1
  <2> QED
    BY <2>1, <2>2, <2>3
<1>3. OnceOn(d.available) /\ OnceOn(d.picked) /\ Apart(d.available, d.picked)
  BY DEF Drafted
<1>4. \A p \in Players : many(p) = n + (IF d.has_picked[p] THEN 1 ELSE 0)
  OBVIOUS
<1> HIDE DEF many
<1>5. Sum([p \in Players |-> Len(av(p)) + Len(pi(p))]) = 4 * GroupSize
  <2>1. ASSUME NEW p \in Players PROVE Len(av(p)) + Len(pi(p)) = GroupSize
    <3>1. many(p) \in 0 .. GroupSize /\ Len(pi(p)) = many(p) /\ Len(av(p)) = GroupSize - many(p)
      BY <1>2
    <3> HIDE DEF av, pi
    <3> QED
      BY <1>1, <3>1
  <2>2. [p \in Players |-> Len(av(p)) + Len(pi(p))] = [p \in Players |-> GroupSize]
    BY <2>1
  <2>3. Sum([p \in Players |-> GroupSize]) = 4 * GroupSize
    BY <1>1 DEF Sum, Players
  <2> QED
    BY <2>2, <2>3
<1>6. ASSUME NEW p \in Players, NEW q \in Players, NEW j \in 1 .. GroupSize, NEW k \in 1 .. GroupSize,
             at(p, j) = at(q, k)
      PROVE  p = q /\ j = k
  <2>0. many(p) \in 0 .. GroupSize /\ many(q) \in 0 .. GroupSize
    BY <1>2
  <2>1. CASE j <= many(p) /\ k <= many(q)
    <3>1. j \in DOMAIN pi(p) /\ k \in DOMAIN pi(q) /\ pi(p)[j] = pi(q)[k]
      BY <1>2, <1>6, <2>0, <2>1
    <3> QED
      BY <1>3, <3>1 DEF OnceOn
  <2>2. CASE j <= many(p) /\ ~(k <= many(q))
    <3>1. j \in DOMAIN pi(p) /\ k - many(q) \in DOMAIN av(q) /\ pi(p)[j] = av(q)[k - many(q)]
      BY <1>1, <1>2, <1>6, <2>0, <2>2
    <3> QED
      BY <1>3, <3>1 DEF Apart
  <2>3. CASE ~(j <= many(p)) /\ k <= many(q)
    <3>1. j - many(p) \in DOMAIN av(p) /\ k \in DOMAIN pi(q) /\ av(p)[j - many(p)] = pi(q)[k]
      BY <1>1, <1>2, <1>6, <2>0, <2>3
    <3> QED
      BY <1>3, <3>1 DEF Apart
  <2>4. CASE ~(j <= many(p)) /\ ~(k <= many(q))
    <3>1. /\ j - many(p) \in DOMAIN av(p) /\ k - many(q) \in DOMAIN av(q)
          /\ av(p)[j - many(p)] = av(q)[k - many(q)]
      BY <1>1, <1>2, <1>6, <2>0, <2>4
    <3>2. p = q /\ j - many(p) = k - many(q)
      BY <1>3, <3>1 DEF OnceOn
    <3> QED
      BY <2>0, <3>2
  <2> QED
    BY <2>1, <2>2, <2>3, <2>4
<1>7. \A p \in Players, k \in 1 .. GroupSize : at(p, k) \in all
  <2> SUFFICES ASSUME NEW p \in Players, NEW k \in 1 .. GroupSize PROVE at(p, k) \in all
    OBVIOUS
  <2>0. many(p) \in 0 .. GroupSize
    BY <1>2
  <2>1. CASE k <= many(p)
    <3>1. k \in DOMAIN pi(p)
      BY <1>2, <2>0, <2>1
    <3> QED
      BY <2>1, <3>1 DEF Range
  <2>2. CASE ~(k <= many(p))
    <3>1. k - many(p) \in DOMAIN av(p)
      BY <1>1, <1>2, <2>0, <2>2
    <3> QED
      BY <2>2, <3>1 DEF Range
  <2> QED
    BY <2>1, <2>2
<1>8. ASSUME NEW y \in all PROVE \E p \in Players, k \in 1 .. GroupSize : y = at(p, k)
  <2>1. PICK p \in Players : y \in Range(av(p)) \/ y \in Range(pi(p))
    OBVIOUS
  <2>0. many(p) \in 0 .. GroupSize
    BY <1>2
  <2>2. CASE y \in Range(pi(p))
    <3>1. PICK k \in 1 .. many(p) : y = pi(p)[k]
      BY <1>2, <2>2 DEF Range
    <3>2. k \in 1 .. GroupSize /\ y = at(p, k)
      BY <1>1, <2>0, <3>1
    <3> QED
      BY <3>2
  <2>3. CASE y \in Range(av(p))
    <3>1. PICK i \in 1 .. GroupSize - many(p) : y = av(p)[i]
      BY <1>2, <2>3 DEF Range
    <3>2. i + many(p) \in 1 .. GroupSize /\ ~(i + many(p) <= many(p)) /\ (i + many(p)) - many(p) = i
      BY <1>1, <2>0
    <3>3. y = at(p, i + many(p))
      BY <3>1, <3>2
    <3> QED
      BY <3>2, <3>3
  <2> QED
    BY <2>1, <2>2, <2>3
<1> HIDE DEF all, at
<1>9. \A x \in Places(GroupSize) : x = <<x[1], x[2]>> /\ x[1] \in Players /\ x[2] \in 1 .. GroupSize
  BY DEF Places
<1>10. \A x, y \in Places(GroupSize) : g[x] = g[y] => x = y
  BY <1>6, <1>9
<1>11. \A p \in Players, k \in 1 .. GroupSize : <<p, k>> \in Places(GroupSize) /\ g[<<p, k>>] = at(p, k)
  BY DEF Places
<1>12. all = {g[x] : x \in Places(GroupSize)}
  <2>1. \A x \in Places(GroupSize) : g[x] \in all
    BY <1>7, <1>9
  <2>2. \A y \in all : \E x \in Places(GroupSize) : y = g[x]
    BY <1>8, <1>11
  <2> HIDE DEF g
  <2> QED
    BY <2>1, <2>2
<1>13. Cardinality(all) = 4 * GroupSize
  <2>1. DOMAIN g = Places(GroupSize)
    OBVIOUS
  <2> HIDE DEF g
  <2> QED
    BY <1>1, <1>10, <1>12, <2>1, SpreadOut
<1> QED
  BY <1>2, <1>4, <1>5, <1>13 DEF all

\* The contracts drawn are all different.
LEMMA DrawnAreDifferent ==
  ASSUME NEW cs, Drawn(cs)
  PROVE  LET holding == {x \in Players \X (1 .. DraftRounds) : x[2] \in DOMAIN cs[x[1]]}
         IN  Cardinality({cs[x[1]][x[2]].contract : x \in holding}) = 4 * DraftRounds
<1> DEFINE holding == {x \in Players \X (1 .. DraftRounds) : x[2] \in DOMAIN cs[x[1]]}
           g == [x \in Places(DraftRounds) |-> cs[x[1]][x[2]].contract]
<1>1. DraftRounds \in Nat
  BY PoolAssumption
<1>2. \A x \in Places(DraftRounds) : x = <<x[1], x[2]>> /\ x[1] \in Players /\ x[2] \in 1 .. DraftRounds
  BY DEF Places
<1>3. \A p \in Players : DOMAIN cs[p] = 1 .. DraftRounds
  BY DEF Drawn
<1>4. holding = Places(DraftRounds)
  BY <1>2, <1>3 DEF Places
<1>5. ASSUME NEW x \in Places(DraftRounds), NEW y \in Places(DraftRounds), g[x] = g[y] PROVE x = y
  <2>1. cs[x[1]][x[2]].contract = cs[y[1]][y[2]].contract
    BY <1>5
  <2>2. /\ x[1] \in Players /\ y[1] \in Players
        /\ x[2] \in DOMAIN cs[x[1]] /\ y[2] \in DOMAIN cs[y[1]]
    BY <1>2, <1>3
  <2>3. OnceOn(cs)
    BY DEF Drawn
  <2>4. x[1] = y[1] /\ x[2] = y[2]
    BY <2>1, <2>2, <2>3 DEF OnceOn
  <2> QED
    BY <1>2, <2>4
<1>6. {cs[x[1]][x[2]].contract : x \in holding} = {g[x] : x \in Places(DraftRounds)}
  BY <1>4
<1>7. DOMAIN g = Places(DraftRounds)
  OBVIOUS
<1> HIDE DEF g
<1>8. Cardinality({g[x] : x \in Places(DraftRounds)}) = 4 * DraftRounds
  BY <1>1, <1>5, <1>7, SpreadOut
<1> QED
  BY <1>6, <1>8

\* The draft and the contracts of the invariant are as the property asks for.
LEMMA PairsAreWhole == Inv => PairsStayWhole
<1> SUFFICES ASSUME Inv PROVE PairsStayWhole
  OBVIOUS
<1> DEFINE d == p2.draft
           held(p) == Range(d.available[p]) \cup Range(d.picked[p])
           many(p) == Len(d.available[p]) + Len(d.picked[p])
           holding == {x \in Players \X (1 .. DraftRounds) : x[2] \in DOMAIN p2.contracts[x[1]]}
<1>1. ASSUME d.active
      PROVE  /\ Sum([p \in Players |-> many(p)]) = 4 * GroupSize
             /\ Cardinality(UNION {held(p) : p \in Players}) = 4 * GroupSize
             /\ \A p \in Players : Len(d.picked[p]) =
                  sg.draft_round + (IF d.has_picked[p] THEN 1 ELSE 0)
  <2>1. sg.draft_round \in Nat /\ sg.draft_round < DraftRounds /\ Drafted(d, sg.draft_round)
    BY <1>1 DEF Inv, DraftGoesOn
  <2> QED
    BY <2>1, DraftIsWhole
<1>2. ASSUME sg.pass_substate = "CARD_SELECT"
      PROVE  Cardinality({p2.contracts[x[1]][x[2]].contract : x \in holding}) = 4 * DraftRounds
  <2>1. Drawn(p2.contracts)
    BY <1>2 DEF Inv, DraftGoesOn, ContractsCount, Entered
  <2> QED
    BY <2>1, DrawnAreDifferent
<1> QED
  BY <1>1, <1>2 DEF PairsStayWhole

\* No pair of the pool is lost or comes up twice, whoever picks late, leaves or is picked
\* for; and every player has picked as often as the others.
THEOREM PairsAreKept == Spec => []PairsStayWhole
<1>1. Inv => PairsStayWhole
  BY PairsAreWhole
<1> QED
  BY <1>1, InvHolds, PTL

-----------------------------------------------------------------------------
(* The points of a trick *)

\* Only the end of a trick counts it.
LEMMA TricksAreCounted ==
  ASSUME Inv, [Next]_vars, gs'.tricks_played = gs.tricks_played + 1
  PROVE  TickTrickDone
<1>1. gs.tricks_played \in Nat
  BY DEF Inv, OnTheTable
<1> SUFFICES ASSUME ~TickTrickDone
             PROVE  gs'.tricks_played = gs.tricks_played \/ gs'.tricks_played = 0
  BY <1>1
<1>2. CASE TickDeal
  BY <1>2 DEF TickDeal, Inv, Shape
<1>3. CASE TickDealer \/ DealerCommand
  <2>1. Confirmed \/ (\E x : DirectionIs(x)) \/ \E x : AmountIs(x)
    BY <1>3, DealerCommands
  <2> QED
    BY <2>1 DEF Confirmed, DirectionIs, AmountIs, Inv, Shape
<1>4. CASE TickDraft
  BY <1>4 DEF TickDraft
<1>5. CASE TickSelect
  <2>1. \E selections, ready : gs' = [gs EXCEPT !.pass_selections = selections, !.pass_ready = ready]
    BY <1>5, Zenon DEF TickSelect
  <2> QED
    BY <2>1 DEF Inv, Shape
<1>6. CASE TickExecute
  BY <1>6 DEF TickExecute, Inv, Shape
<1>7. CASE TickTransmute
  <2>1. \E hands : gs' = [gs EXCEPT !.hand = hands, !.phase = "PLAYING"]
    BY <1>7, Zenon DEF TickTransmute
  <2> QED
    BY <2>1 DEF Inv, Shape
<1>8. CASE \/ TickHuman \/ TickAI
           \/ \E p \in Owners : \E i : PlayCard(p, i)
  BY <1>8, TurnStep
<1>9. CASE TickEvaluate \/ TickAdvance
  <2>1. CASE TickEvaluate
    <3>1. \E points, total : gs' = [gs EXCEPT !.round_points = points, !.total_score = total]
      BY <2>1 DEF TickEvaluate
    <3> QED
      BY <3>1 DEF Inv, Shape
  <2>2. CASE TickAdvance
    BY <2>2 DEF TickAdvance, NewRound, game_state_new_round, Inv, Shape
  <2> QED
    BY <1>9, <2>1, <2>2
<1>10. CASE Commanded
  <2> SUFFICES ASSUME NEW p \in Owners,
                    \/ \E i \in 1 .. GroupSize : SelectContract(p, i)
                    \/ \E i \in DOMAIN gs.hand[p] :
                         SelectCard(p, i) \/ ApplyTransmutation(p, gs.hand[p][i]) \/ PlayCard(p, i)
                    \/ \E id \in Range(p2.inv[p]) \cup {NotTransmuted} : SelectTransmutation(p, id)
                    \/ \E target \in Players, suit \in Suits : RogueReveal(p, target, suit)
                    \/ ConfirmPass(p) \/ ConfirmScores(p)
               PROVE  gs'.tricks_played = gs.tricks_played \/ gs'.tricks_played = 0
    BY <1>10 DEF Commanded
  <2>1. CASE \/ \E i \in 1 .. GroupSize : SelectContract(p, i)
             \/ \E target \in Players, suit \in Suits : RogueReveal(p, target, suit)
             \/ ConfirmScores(p)
    BY <2>1 DEF SelectContract, RogueReveal, ConfirmScores
  <2>2. CASE \E i \in DOMAIN gs.hand[p] : PlayCard(p, i)
    BY <1>8, <2>2
  <2>3. CASE \/ \E i \in DOMAIN gs.hand[p] : SelectCard(p, i) \/ ApplyTransmutation(p, gs.hand[p][i])
             \/ \E id \in Range(p2.inv[p]) \cup {NotTransmuted} : SelectTransmutation(p, id)
             \/ ConfirmPass(p)
    BY <2>3, SelectionStep
  <2> QED
    BY <2>1, <2>2, <2>3
<1>11. CASE Seating \/ Ended \/ UNCHANGED vars
  BY <1>11 DEF Seating, TakeOver, Return, Ended, vars
<1> QED
  BY <1>2, <1>3, <1>4, <1>5, <1>6, <1>7, <1>8, <1>9, <1>10, <1>11 DEF Next, Tick

\* With no shield and at most one parasite, the points of a trick all go somewhere.
LEMMA PointsGoSomewhere ==
  ASSUME NEW trick, trick = gs.trick, TrickOfPlayers(trick), NEW winner \in Players,
         \A p \in Players : p2.shield[p] = 0, Cardinality(Parasites) <= 1
  PROVE  Sum(PointsFor(winner).redirected) + PointsFor(winner).won
           = transmute_trick_count_points(gs.trick, sg.tti, p2)
<1> DEFINE b == [p \in Players |-> BountyOf(p)]
           count == transmute_trick_count_points(gs.trick, sg.tti, p2)
           takes(p) == IF p2.shield[p] > 0 THEN 0 ELSE count - Sum(b)
           points == PointsFor(winner)
<1>1. /\ b \in [Players -> Int] /\ count \in Int
      /\ points.redirected = [p \in Players |-> b[p] + (IF p \in Parasites THEN takes(p) ELSE 0)]
      /\ points.won = (IF Parasites # {} THEN 0 ELSE takes(winner))
  BY PointsForFields
<1>2. \A p \in Players : takes(p) = count - Sum(b)
  OBVIOUS
<1> HIDE DEF b, count, points, takes
<1>3. /\ b[0] \in Int /\ b[1] \in Int /\ b[2] \in Int /\ b[3] \in Int
      /\ Sum(b) = b[0] + b[1] + b[2] + b[3]
  BY <1>1 DEF Sum, Players
<1>4. CASE Parasites = {}
  <2>1. points.redirected = [p \in Players |-> b[p] + 0]
    BY <1>1, <1>4
  <2>2. Sum(points.redirected) = Sum(b)
    BY <1>3, <2>1 DEF Sum, Players
  <2>3. points.won = count - Sum(b)
    BY <1>1, <1>2, <1>4
  <2> QED
    BY <1>1, <1>3, <2>2, <2>3 DEF count, points
<1>5. CASE Parasites # {}
  <2>1. PICK q \in Parasites : Parasites = {q}
    <3>1. Parasites \subseteq Players
      BY DEF Parasites, TrickOfPlayers
    <3>2. IsFiniteSet(Parasites)
      <4>1. \A n \in Nat : IsFiniteSet(0 .. n)
        BY FS_Interval
      <4>2. 3 \in Nat /\ Players = 0 .. 3
        BY DEF Players
      <4> QED
        BY <3>1, <4>1, <4>2, FS_Subset
    <3>3. Cardinality(Parasites) = 1
      BY <1>5, <3>2, FS_EmptySet, FS_CardinalityType
    <3> QED
      BY <3>2, <3>3, FS_Singleton
  <2>2. q \in Players
    BY <2>1 DEF Parasites, TrickOfPlayers
  <2>3. points.redirected = [p \in Players |-> b[p] + (IF p = q THEN count - Sum(b) ELSE 0)]
    BY <1>1, <1>2, <2>1, <2>2
  <2>4. Sum(points.redirected) = Sum(b) + (count - Sum(b))
    BY <1>1, <1>3, <2>2, <2>3 DEF Sum, Players
  <2>5. points.won = 0
    BY <1>1, <1>5
  <2> QED
    BY <1>1, <1>3, <2>4, <2>5 DEF count, points
<1> QED
  BY <1>4, <1>5

\* The one step that counts a trick gives its points away.
LEMMA StepAccounts ==
  ASSUME Inv, [Next]_vars, gs'.tricks_played = gs.tricks_played + 1, gs'.moon_shooter = NoPlayer,
         \A p \in Players : p2.shield[p] = 0, Cardinality(Parasites) <= 1
  PROVE  Sum(gs'.round_points) - Sum(gs.round_points)
           = transmute_trick_count_points(gs.trick, sg.tti, p2)
<1>1. TickTrickDone
  BY TricksAreCounted
<1>2. gs.phase = "PLAYING" /\ sg.play_substate = "TRICK_DONE"
  BY <1>1 DEF TickTrickDone
<1>3. PICK winner, points, done, after, sub : Resolves(winner, points, done, after, sub)
  BY <1>1, TrickIsResolved
<1>4. winner \in Players
  BY <1>2, <1>3, WinnerInTurn
<1>5. points = PointsFor(winner) /\ gs' = Completed(winner, points)
  BY <1>3 DEF Resolves
<1>6. points.redirected \in [Players -> Int] /\ points.won \in Int
  BY <1>5, PointsForFields
<1> DEFINE rp == gs.round_points
           red == points.redirected
           won(p) == IF p = winner THEN points.won ELSE 0
<1>7. gs'.round_points = [p \in Players |-> rp[p] + red[p] + won(p)]
  BY <1>2, <1>4, <1>5, <1>6, CompletedFields
<1>8. \A p \in Players : rp[p] \in Int /\ red[p] \in Int /\ won(p) \in Int
  <2>1. rp \in [Players -> Int]
    BY <1>2 DEF Inv, OnTheTable
  <2> QED
    BY <1>6, <2>1
<1>9. won(0) + won(1) + won(2) + won(3) = points.won
  BY <1>4, <1>6 DEF Players
<1> HIDE DEF won, red, rp
<1>10. Sum(gs'.round_points) - Sum(rp) = Sum(red) + points.won
  <2>1. 0 \in Players /\ 1 \in Players /\ 2 \in Players /\ 3 \in Players
    BY DEF Players
  <2>2. Sum(gs'.round_points) = (rp[0] + red[0] + won(0)) + (rp[1] + red[1] + won(1))
                                + (rp[2] + red[2] + won(2)) + (rp[3] + red[3] + won(3))
    BY <1>7, <2>1 DEF Sum
  <2> QED
    BY <1>8, <1>9, <2>1, <2>2 DEF Sum
<1>11. Sum(red) + points.won = transmute_trick_count_points(gs.trick, sg.tti, p2)
  <2>1. TrickOfPlayers(gs.trick)
    BY DEF Inv, OnTheTable
  <2> QED
    BY <1>4, <1>5, <2>1, PointsGoSomewhere DEF red
<1> QED
  BY <1>10, <1>11 DEF rp

\* Through bounties, parasites, traps and inversions, what a trick adds to the players'
\* points is what its cards are worth, unless a shield absorbs it or two parasites take it.
THEOREM EveryPointIsAccounted == Spec => PointsAreAccounted
<1>1. Inv /\ [Next]_vars =>
        [gs'.tricks_played = gs.tricks_played + 1 /\ gs'.moon_shooter = NoPlayer
           /\ (\A p \in Players : p2.shield[p] = 0) /\ Cardinality(Parasites) <= 1 =>
         Sum(gs'.round_points) - Sum(gs.round_points)
           = transmute_trick_count_points(gs.trick, sg.tti, p2)]_vars
  BY StepAccounts
<1> QED
  BY <1>1, InvHolds, PTL DEF Spec, PointsAreAccounted

=============================================================================
