------------------------------ MODULE PlayerView ------------------------------
(*****************************************************************************)
(* What a player is shown: the server turns its game into one view per seat  *)
(* (net/protocol.c, net_build_player_view) and the client turns the view     *)
(* into its own game, in which it is always player 0 (net/state_recv.c).     *)
(*                                                                           *)
(* A game is a record                                                        *)
(*   phase, round, phase2, lead, trick    public                             *)
(*   table, ready                         public, one entry per seat         *)
(*   hand, slots, inv, selections, draft  of each seat, its own business     *)
(*   contracts                            of each seat, public once revealed *)
(*   effects, pending, duel               phase 2, with seats in them        *)
(* "table" stands for every public array with one entry per seat: points,    *)
(* scores, hand counts, shields, curses, anchors, bindings, martyrs...       *)
(* A card is a value; formats and widths are those of module ViewPacking,    *)
(* but for the lead: -1 (no lead) does not survive its unsigned byte.        *)
(*****************************************************************************)
EXTENDS Integers, Sequences, SequencesExt

CONSTANTS NoCard, NoDraft   \* CARD_NONE; a draft that is not running

NumPlayers == 4
PlayerSeats == 0 .. NumPlayers - 1
NobodySeat == -1
Hidden == -1

EmptySlot == [id |-> -1, original |-> NoCard, by |-> NobodySeat,
              fogged |-> FALSE, fogBy |-> NobodySeat]

-----------------------------------------------------------------------------
(* The server's side.                                                        *)

\* A seat in an unsigned byte of the message: nobody becomes 255.
Byte(seat) == seat % 256

ViewOfTrick(trick) == [lead |-> Byte(trick.lead), plays |-> trick.plays]

\* A mutant: every contract is told to everybody.
ViewOfAllContracts(g, seat) == g.contracts

\* Of the others' contracts, those revealed or completed, the rest as numbers.
ViewOfContracts(g, seat) ==
  [p \in PlayerSeats |->
    [i \in DOMAIN g.contracts[p] |->
      LET c == g.contracts[p][i]
      IN  [c EXCEPT !.id = IF p = seat \/ c.revealed \/ c.completed THEN @ ELSE Hidden]]]

\* The card picked in a duel is shown to its winner and to its victim.
ViewOfDuel(duel, seat) ==
  [duel EXCEPT !.card = IF duel.index >= 0 /\ seat \in {duel.winner, duel.target}
                        THEN @ ELSE NoCard]

ViewOfPhase2(g, seat) ==
  [contracts |-> ViewOfContracts(g, seat),
   inv       |-> g.inv[seat],
   slots     |-> g.slots[seat],
   draft     |-> g.draft[seat],
   effects   |-> g.effects,
   pending   |-> g.pending,
   duel      |-> ViewOfDuel(g.duel, seat)]

NoPhase2 == [contracts |-> [p \in PlayerSeats |-> <<>>], inv |-> <<>>, slots |-> <<>>,
             draft |-> NoDraft, effects |-> <<>>, pending |-> NobodySeat,
             duel |-> [winner |-> NobodySeat, target |-> NobodySeat, index |-> -1,
                       card |-> NoCard]]

BuildPlayerView(g, seat) ==
  [my_seat    |-> seat,
   phase      |-> g.phase,
   round      |-> g.round,
   lead       |-> Byte(g.lead),
   hand       |-> g.hand[seat],
   table      |-> g.table,
   trick      |-> ViewOfTrick(g.trick),
   ready      |-> g.ready,
   selections |-> g.selections[seat],
   phase2     |-> g.phase2,
   p2         |-> IF g.phase2 THEN ViewOfPhase2(g, seat) ELSE NoPhase2]

-----------------------------------------------------------------------------
(* The client's side.                                                        *)

\* A mutant: the offset is added the other way.
RemapSeatBackwards(server_seat, my) ==
  IF server_seat < 0 THEN server_seat ELSE (server_seat + my) % NumPlayers

\* Server seat to local player: the client sits at 0, nobody stays nobody.
RemapSeat(server_seat, my) ==
  IF server_seat < 0 THEN server_seat
  ELSE (server_seat - my + NumPlayers) % NumPlayers

\* Local player to server seat, for the targets of the commands it sends.
ServerSeat(local, my) == (local + my) % NumPlayers

\* An array of the server by local player.
ByLocalPlayer(array, my) == [p \in PlayerSeats |-> array[ServerSeat(p, my)]]

\* A mutant: the hand is laid out in the server's order.
ServerArrangement(old, new) == [n \in DOMAIN new |-> n]

\* The order in which the cards of a new hand are laid out: each old card takes
\* the first equal new card left, so that a card that was held keeps its place in
\* the player's own arrangement; what is left comes last, in the server's order.
Arrangement(old, new) ==
  LET order[k \in 0 .. Len(old) + Len(new)] ==
        IF k = 0 THEN <<>>
        ELSE LET left == (IF k <= Len(old) THEN {n \in DOMAIN new : new[n] = old[k]}
                          ELSE {k - Len(old)}) \ Range(order[k - 1])
             IN  IF left = {} THEN order[k - 1] ELSE Append(order[k - 1], Min(left))
  IN  order[Len(old) + Len(new)]

ApplyTrick(trick, my) ==
  [lead  |-> RemapSeat(trick.lead, my),
   plays |-> [i \in DOMAIN trick.plays |->
               [trick.plays[i] EXCEPT !.player = RemapSeat(@, my)]]]

ApplyTransmuteSlot(slot, my) ==
  [slot EXCEPT !.by = RemapSeat(@, my), !.fogBy = RemapSeat(@, my)]

\* Each effect goes to the player it comes from, and keeps its index in the list.
ApplyEffects(effects, my) ==
  [p \in PlayerSeats |->
    [i \in {j \in DOMAIN effects : RemapSeat(effects[j].source, my) = p} |->
      [effects[i] EXCEPT !.source = p, !.target = RemapSeat(@, my)]]]

\* A mutant: the slots come in the server's order, the hand in the player's.
ApplyPhase2Unarranged(view, order) ==
  LET my == view.my_seat
      p2 == view.p2
  IN  [contracts |-> ByLocalPlayer(p2.contracts, my), inv |-> p2.inv,
       slots     |-> [i \in DOMAIN order |-> ApplyTransmuteSlot(p2.slots[i], my)],
       draft     |-> p2.draft, effects |-> ApplyEffects(p2.effects, my),
       pending   |-> RemapSeat(p2.pending, my),
       duel      |-> [p2.duel EXCEPT !.winner = RemapSeat(@, my),
                                     !.target = RemapSeat(@, my)]]

ApplyPhase2(view, order) ==
  LET my == view.my_seat
      p2 == view.p2
  IN  [contracts |-> ByLocalPlayer(p2.contracts, my),
       inv       |-> p2.inv,
       slots     |-> [i \in DOMAIN order |-> ApplyTransmuteSlot(p2.slots[order[i]], my)],
       draft     |-> p2.draft,
       effects   |-> ApplyEffects(p2.effects, my),
       pending   |-> RemapSeat(p2.pending, my),
       duel      |-> [p2.duel EXCEPT !.winner = RemapSeat(@, my),
                                     !.target = RemapSeat(@, my)]]

\* state_recv_apply: a vanilla view leaves the phase 2 part as it was.
StateRecvApply(local, view) ==
  LET my    == view.my_seat
      order == Arrangement(local.hand, view.hand)
  IN  [phase      |-> view.phase,
       round      |-> view.round,
       lead       |-> RemapSeat(view.lead, my),
       hand       |-> [i \in DOMAIN order |-> view.hand[order[i]]],
       table      |-> ByLocalPlayer(view.table, my),
       trick      |-> ApplyTrick(view.trick, my),
       ready      |-> ByLocalPlayer(view.ready, my),
       selections |-> view.selections,
       phase2     |-> view.phase2,
       p2         |-> IF view.phase2 THEN ApplyPhase2(view, order) ELSE local.p2]

-----------------------------------------------------------------------------
(* What the player does to its own copy of the game.                         *)

MoveItem(s, from, to) == InsertAt(RemoveAt(s, from), to, s[from])

\* render_commit_hand_reorder: a card dragged to another place in the hand
\* takes its transmutation slot with it.
ReorderHand(local, from, to) ==
  [local EXCEPT !.hand     = MoveItem(@, from, to),
                !.p2.slots = IF local.phase2 THEN MoveItem(@, from, to) ELSE @]

\* The local copy of a transmutation sent to the server and not answered yet:
\* the card at "i" becomes "card".
TransmuteLocally(local, i, id, card) ==
  [local EXCEPT !.hand[i] = card,
                !.p2.slots[i] = [EmptySlot EXCEPT !.id = id, !.original = local.hand[i],
                                                  !.by = 0],
                !.p2.inv = RemoveFirst(@, id)]

-----------------------------------------------------------------------------
(* Reference definitions for the properties.                                 *)

\* The game with everything blanked that is none of "seat"'s business.
PublicPart(g, seat) ==
  LET Own(array, blank(_)) ==
        [p \in PlayerSeats |-> IF p = seat THEN array[p] ELSE blank(array[p])]
      NoCards(cards) == [i \in DOMAIN cards |-> NoCard]
      NoSlots(slots) == [i \in DOMAIN slots |-> EmptySlot]
      NoIds(ids)     == [i \in DOMAIN ids |-> Hidden]
      NoPick(draft)  == NoDraft
      Untold(cs)     == [i \in DOMAIN cs |->
                          IF cs[i].revealed \/ cs[i].completed THEN cs[i]
                          ELSE [cs[i] EXCEPT !.id = Hidden]]
  IN  [g EXCEPT !.hand = Own(@, NoCards), !.slots = Own(@, NoSlots),
                !.inv = Own(@, NoIds), !.selections = Own(@, NoCards),
                !.draft = Own(@, NoPick), !.contracts = Own(@, Untold),
                !.duel.card = IF seat \in {g.duel.winner, g.duel.target} THEN @ ELSE NoCard]

\* The pairs of card and transmutation slot in a hand, with their counts.
PairCounts(hand, slots) ==
  LET pairs == [i \in DOMAIN hand |-> <<hand[i], slots[i]>>]
  IN  [p \in Range(pairs) |-> Cardinality({i \in DOMAIN pairs : pairs[i] = p})]
===============================================================================
