--------------------------- MODULE TurnFlowProofs ---------------------------
(***************************************************************************)
(* CardsShownInOrder of TurnFlow, for any number of tricks, any length of   *)
(* the queue and any seats. As long as no update is lost, the updates are a *)
(* chain from the one the client took last to the game at the server, each  *)
(* following from the one before (Queue); and each step of the flow shows a *)
(* certain card or pile of that update's trick (Fits).                      *)
(***************************************************************************)
EXTENDS TurnFlow, TLAPS

Dealt == {"DEALING", "PASSING"}
Over == {"SCORING", "GAME_OVER"}

UpdateFields ==
  {"phase", "sub", "round", "passing", "tricks_played", "num_played", "lead", "pending", "revealed"}

ClientFields == UpdateFields \cup
  {"views", "confirmed", "settings", "toss_started", "async_toss", "pass_anim", "mine", "deal_anim",
   "scoring_done", "prev_phase", "step", "prev_trick_count", "saved", "rogue_effect_handled", "shown"}

GameFields == UpdateFields \cup {"ready", "rogues"}

\* What any update says. That of phase ONLINE_MENU is none: it stands for what the client
\* shows before the first.
Told(v) ==
  /\ v.round \in Nat /\ v.tricks_played \in 0 .. TricksPerRound /\ v.num_played \in 0 .. CARDS_PER_TRICK
  /\ v.phase \in Dealt \cup Over \cup {"PLAYING", "ONLINE_MENU"}
  /\ v.phase = "ONLINE_MENU" => v.round = 0
  /\ v.phase \in Dealt \cup {"ONLINE_MENU"} => v.tricks_played = 0 /\ v.num_played = 0
  /\ v.phase = "PLAYING" => v.tricks_played < TricksPerRound
  /\ v.phase \in Over => v.tricks_played = TricksPerRound /\ v.num_played = 0
  /\ v.pending # NoSeat => v.phase = "PLAYING" /\ v.num_played = 0

SameTrick(u, v) ==
  v.round = u.round /\ v.tricks_played = u.tricks_played /\ v.num_played = u.num_played

Agrees(u, v) == SameTrick(u, v) /\ v.phase = u.phase /\ v.pending = u.pending

\* v says what has become of the game of u by one message more: the same again, a rogue's
\* choice, the play's beginning, a card, the trick's end, the game's end, a round.
Reveals(u, v) ==
  /\ SameTrick(u, v) /\ v.phase = u.phase
  /\ u.pending # NoSeat /\ v.pending = NoSeat /\ v.revealed # NoReveal
Begins(u, v) ==
  SameTrick(u, v) /\ u.phase \in Dealt /\ v.phase \in {"PASSING", "PLAYING"} /\ v.pending = NoSeat
Plays(u, v) ==
  /\ u.phase = "PLAYING" /\ v.phase = "PLAYING" /\ u.pending = NoSeat /\ v.pending = NoSeat
  /\ v.round = u.round /\ v.tricks_played = u.tricks_played /\ v.num_played = u.num_played + 1
Resolves(u, v) ==
  /\ u.phase = "PLAYING" /\ u.num_played = CARDS_PER_TRICK
  /\ v.phase = IF v.tricks_played = TricksPerRound THEN "SCORING" ELSE "PLAYING"
  /\ v.round = u.round /\ v.tricks_played = u.tricks_played + 1 /\ v.num_played = 0
Ends(u, v) == SameTrick(u, v) /\ u.phase = "SCORING" /\ v.phase = "GAME_OVER"
Starts(u, v) ==
  /\ u.phase \in {"SCORING", "ONLINE_MENU"} /\ v.phase \in {"DEALING", "PLAYING"}
  /\ v.round = u.round + 1 /\ v.tricks_played = 0 /\ v.num_played = 0 /\ v.pending = NoSeat

Follows(u, v) ==
  Agrees(u, v) \/ Reveals(u, v) \/ Begins(u, v) \/ Plays(u, v) \/ Resolves(u, v) \/ Ends(u, v) \/ Starts(u, v)

\* The updates that wait lead from u to the game g.
Queue(u, views, g) ==
  /\ \E S : views \in Seq(S)
  /\ \A i \in 1 .. Len(views) :
       DOMAIN views[i] = UpdateFields /\ Told(views[i]) /\ Follows(IF i = 1 THEN u ELSE views[i - 1], views[i])
  /\ Agrees(IF views = << >> THEN u ELSE views[Len(views)], g)

-----------------------------------------------------------------------------
(* What is shown *)

\* The pile that is on the table before a trick's first card.
Before(round, trick) ==
  IF trick = 0 THEN <<round - 1, TricksPerRound - 1, Piled>> ELSE <<round, trick - 1, Piled>>

ShowsBefore(c) == c.shown = Before(c.round, c.tricks_played)
ShowsCard(c) == c.shown = <<c.round, c.tricks_played, c.prev_trick_count>>
ShowsPile(c) == c.num_played = CARDS_PER_TRICK /\ c.shown = <<c.round, c.tricks_played, Piled>>

\* Between two tricks, with the pile of the one or before the other.
Pausing(c) == ShowsPile(c) \/ (c.num_played = 0 /\ ShowsBefore(c))

\* A card of the trick has been shown.
InTrick(c) ==
  /\ c.saved = [round |-> c.round, tricks_played |-> c.tricks_played, num_played |-> c.num_played]
  /\ c.prev_trick_count \in 1 .. c.num_played

RogueChoice == {"ROGUE_CHOOSING", "ROGUE_SUIT_CHOOSING", "ROGUE_WAITING"}
RogueShown == {"ROGUE_ANIM_TO_CENTER", "ROGUE_REVEAL", "ROGUE_ANIM_BACK"}

\* What each step of the flow shows when the client knows of u.
Resting(c) == c.step = "IDLE" /\ c.saved = NoTrick /\ c.prev_trick_count = c.num_played /\ Pausing(c)
Opening(c) ==
  /\ c.step = "WAITING_FOR_HUMAN" /\ c.saved = NoTrick
  /\ c.prev_trick_count = 0 /\ c.num_played = 0 /\ ShowsBefore(c)
Amid(c) ==
  /\ InTrick(c) /\ ShowsCard(c)
  /\ \/ c.step = "IDLE" /\ (c.prev_trick_count < c.num_played \/ c.num_played < CARDS_PER_TRICK)
     \/ c.step = "WAITING_FOR_HUMAN" /\ c.prev_trick_count = c.num_played /\ c.num_played < CARDS_PER_TRICK
     \/ c.step = "CARD_ANIMATING"
     \/ c.step \in {"TRICK_DISPLAY", "FOG_REVEAL"} /\ c.prev_trick_count = CARDS_PER_TRICK
Piling(c) == c.step \in {"TRICK_PILE_ANIM", "TRICK_COLLECTING"} /\ InTrick(c) /\ ShowsPile(c)
Going(c) == c.step = "BETWEEN_TRICKS" /\ Pausing(c)
Roguish(c, u) ==
  /\ c.step \in RogueChoice \cup RogueShown /\ (c.step \in RogueChoice => u.pending # NoSeat)
  /\ c.saved = NoTrick /\ c.num_played = 0 /\ ShowsBefore(c)

Shows(c, u) == Resting(c) \/ Opening(c) \/ Amid(c) \/ Piling(c) \/ Going(c) \/ Roguish(c, u)

\* The client has taken u.
Knows(c, u) ==
  /\ DOMAIN c = ClientFields /\ Told(u)
  /\ SameTrick(u, c) /\ c.prev_phase = c.phase /\ c.pending \in {NoSeat, u.pending}
  /\ c.phase \in Dealt \cup Over \cup {"PLAYING", "ONLINE_MENU"}
  /\ IF c.phase \in Dealt THEN u.phase \in Dealt \cup {"PLAYING"} /\ c.tricks_played = 0 /\ c.num_played = 0
     ELSE c.phase = u.phase
  /\ c.phase = "ONLINE_MENU" => c.shown = Before(1, 0)
  /\ c.phase \in Dealt \cup Over => ShowsBefore(c)

Fits(c, u) ==
  /\ Knows(c, u)
  /\ IF c.phase = "PLAYING" THEN Shows(c, u) ELSE c.step = "IDLE" /\ c.saved = NoTrick

\* The server remembers who is to choose for a rogue, and counts the rogues.
Counted(s) == DOMAIN s = GameFields /\ s.rogues \in Nat /\ (s.pending # NoSeat => s.rogues # 0)

IInv ==
  ~lost =>
    /\ Told(srv) /\ Counted(srv)
    /\ Len(cl.views) <= STATE_QUEUE_CAP
    /\ \E u : Fits(cl, u) /\ Queue(u, cl.views, srv)

-----------------------------------------------------------------------------
(* The queue *)

\* An update says what the game is.
LEMMA ViewOf ==
  ASSUME NEW s, DOMAIN s = GameFields
  PROVE  /\ DOMAIN View(s) = UpdateFields
         /\ View(s).phase = s.phase /\ View(s).round = s.round /\ View(s).tricks_played = s.tricks_played
         /\ View(s).num_played = s.num_played /\ View(s).pending = s.pending /\ View(s).revealed = s.revealed
BY DEF View, GameFields, UpdateFields

\* The update of a game that follows from the one at the server can be put at the end.
LEMMA QueueGrows ==
  ASSUME NEW u, NEW views, NEW g, NEW s, DOMAIN s = GameFields, Queue(u, views, g), Told(s), Follows(g, s)
  PROVE  Queue(u, Append(views, View(s)), s) /\ Len(Append(views, View(s))) = Len(views) + 1
<1> DEFINE v == View(s)
           q == Append(views, v)
<1>0. PICK S : views \in Seq(S \cup {v})
  BY DEF Queue
<1>1. DOMAIN v = UpdateFields /\ Told(v) /\ Agrees(v, s)
  BY ViewOf DEF Told, Agrees, SameTrick
<1>2. ASSUME NEW l, Agrees(l, g)
      PROVE  Follows(l, v)
  BY <1>2, ViewOf DEF Follows, Agrees, SameTrick, Reveals, Begins, Plays, Resolves, Ends, Starts
<1> HIDE DEF v
<1>3. /\ q \in Seq(S \cup {v}) /\ Len(q) = Len(views) + 1 /\ Len(views) \in Nat /\ q # << >>
      /\ q[Len(q)] = v /\ \A i \in 1 .. Len(views) : q[i] = views[i]
  BY <1>0
<1> HIDE DEF q
<1>4. ASSUME NEW i \in 1 .. Len(q)
      PROVE  DOMAIN q[i] = UpdateFields /\ Told(q[i]) /\ Follows(IF i = 1 THEN u ELSE q[i - 1], q[i])
  <2>1. CASE i \in 1 .. Len(views)
    BY <1>3, <2>1 DEF Queue
  <2>2. CASE i = Len(q)
    <3>1. q[i] = v
      BY <1>3, <2>2
    <3>2. CASE views = << >>
      BY <1>1, <1>2, <1>3, <2>2, <3>1, <3>2 DEF Queue
    <3>3. CASE views # << >>
      <4>1. i # 1 /\ q[i - 1] = views[Len(views)]
        BY <1>3, <2>2, <3>3
      <4> QED
        BY <1>1, <1>2, <3>1, <3>3, <4>1 DEF Queue
    <3> QED
      BY <3>2, <3>3
  <2> QED
    BY <1>3, <2>1, <2>2
<1>5. Agrees(IF q = << >> THEN u ELSE q[Len(q)], s)
  BY <1>1, <1>3
<1> QED
  BY <1>3, <1>4, <1>5 DEF Queue, q, v

\* The first update follows from u, and the others from it.
LEMMA QueueShrinks ==
  ASSUME NEW u, NEW views, NEW g, Queue(u, views, g), views # << >>
  PROVE  /\ DOMAIN Head(views) = UpdateFields /\ Told(Head(views)) /\ Follows(u, Head(views))
         /\ Queue(Head(views), Tail(views), g) /\ Len(views) \in Nat /\ Len(Tail(views)) = Len(views) - 1
<1> DEFINE q == Tail(views)
<1>0. PICK S : views \in Seq(S)
  BY DEF Queue
<1>1. /\ views \in Seq(S) /\ Len(views) \in Nat \ {0} /\ q \in Seq(S) /\ Len(q) = Len(views) - 1
      /\ Head(views) = views[1] /\ \A i \in 1 .. Len(q) : q[i] = views[i + 1]
  BY <1>0
<1> HIDE DEF q
<1>2. DOMAIN Head(views) = UpdateFields /\ Told(Head(views)) /\ Follows(u, Head(views))
  BY <1>1 DEF Queue
<1>3. ASSUME NEW i \in 1 .. Len(q)
      PROVE  DOMAIN q[i] = UpdateFields /\ Told(q[i]) /\ Follows(IF i = 1 THEN Head(views) ELSE q[i - 1], q[i])
  <2>1. /\ i + 1 \in 1 .. Len(views) /\ i + 1 # 1 /\ (i + 1) - 1 = i /\ q[i] = views[i + 1]
        /\ views[i] = IF i = 1 THEN Head(views) ELSE q[i - 1]
    BY <1>1
  <2> QED
    BY <2>1 DEF Queue
<1>4. Agrees(IF q = << >> THEN Head(views) ELSE q[Len(q)], g)
  <2>1. q = << >> => Len(views) = 1
    BY <1>1
  <2>2. q # << >> => Len(q) \in 1 .. Len(q) /\ q[Len(q)] = views[Len(views)]
    BY <1>1
  <2> QED
    BY <1>1, <2>1, <2>2 DEF Queue
<1> QED
  BY <1>1, <1>2, <1>3, <1>4 DEF Queue, q

-----------------------------------------------------------------------------
(* The server *)

\* What Fits and the flow look at, but for the queue.
SameFlow(c, d) ==
  /\ DOMAIN d = ClientFields /\ d.phase = c.phase /\ d.prev_phase = c.prev_phase /\ d.round = c.round
  /\ d.tricks_played = c.tricks_played /\ d.num_played = c.num_played /\ d.lead = c.lead
  /\ d.pending = c.pending /\ d.revealed = c.revealed /\ d.step = c.step
  /\ d.prev_trick_count = c.prev_trick_count /\ d.saved = c.saved /\ d.shown = c.shown
  /\ d.rogue_effect_handled = c.rogue_effect_handled

SameTurn(c, d) == SameFlow(c, d) /\ d.settings = c.settings

\* Nothing else matters to it.
LEMMA FitsCarries ==
  ASSUME NEW c, NEW d, NEW u, Fits(c, u), SameFlow(c, d)
  PROVE  Fits(d, u)
<1>1. Knows(d, u)
  BY DEF Fits, SameFlow, Knows, SameTrick, ShowsBefore
<1>2. ShowsBefore(d) = ShowsBefore(c) /\ ShowsCard(d) = ShowsCard(c) /\ ShowsPile(d) = ShowsPile(c)
      /\ Pausing(d) = Pausing(c) /\ InTrick(d) = InTrick(c)
  BY DEF SameFlow, ShowsBefore, ShowsCard, ShowsPile, Pausing, InTrick
<1>3. Shows(c, u) => Shows(d, u)
  BY <1>2 DEF SameFlow, Shows, Resting, Opening, Amid, Piling, Going, Roguish
<1> QED
  BY <1>1, <1>3 DEF Fits, SameFlow

\* The next game is told, and the client waits with it as before.
LEMMA BroadcastKeeps ==
  ASSUME IInv, ~lost', NEW s, Counted(s), Broadcast(s), Told(s), Follows(srv, s)
  PROVE  IInv' /\ cl'.shown = cl.shown
<1>1. ~lost /\ Len(cl.views) # STATE_QUEUE_CAP
  BY DEF Broadcast
<1>2. PICK u : Fits(cl, u) /\ Queue(u, cl.views, srv)
  BY <1>1 DEF IInv
<1>3. DOMAIN cl = ClientFields /\ Len(cl.views) \in Nat /\ Len(cl.views) <= STATE_QUEUE_CAP
  BY <1>1, <1>2 DEF IInv, Fits, Knows, Queue
<1>4. cl' = [cl EXCEPT !.views = Append(cl.views, View(s))]
  <2>1. Len(cl.views) < STATE_QUEUE_CAP
    BY <1>1, <1>3, FlowAssumption
  <2> QED
    BY <2>1 DEF Broadcast, Enqueue
<1>5. SameTurn(cl, cl') /\ cl'.views = Append(cl.views, View(s))
  BY <1>3, <1>4 DEF SameTurn, SameFlow, ClientFields, UpdateFields
<1>6. Fits(cl', u)
  BY <1>2, <1>5, FitsCarries DEF SameTurn
<1>7. srv' = s /\ Queue(u, cl'.views, s)
  BY <1>2, <1>5, QueueGrows DEF Broadcast, Counted
<1>8. Len(cl'.views) <= STATE_QUEUE_CAP
  <2>2. Len(cl'.views) = Len(cl.views) + 1
    BY <1>2, <1>5, QueueGrows DEF Counted
  <2> QED
    BY <1>1, <1>3, <2>2, FlowAssumption
<1> QED
  BY <1>5, <1>6, <1>7, <1>8 DEF IInv, SameTurn, SameFlow

\* Every update follows from the game that it changes.
LEMMA ServerStep ==
  ASSUME IInv, ~lost', Server
  PROVE  IInv' /\ cl'.shown = cl.shown
<1>1. ~lost
  BY DEF Server, ServerDeals, ServerConfirms, ServerExecutes, ServerStartsPlay, ServerPlays, ServerResolves,
         ServerReveals, ServerScores, ServerRepeats, Broadcast
<1>2. /\ Told(srv) /\ Counted(srv) /\ Winners \subseteq Int /\ NoSeat \notin Winners
  BY <1>1, FlowAssumption DEF IInv, NoSeat
<1> DEFINE Legal(s) == Told(s) /\ Counted(s) /\ Follows(srv, s)
<1>3. ASSUME NEW s, Broadcast(s), Legal(s)
      PROVE  IInv' /\ cl'.shown = cl.shown
  BY <1>3, BroadcastKeeps
<1>4. CASE ServerDeals
  <2>0. srv.phase = "DEALING"
    BY <1>4 DEF ServerDeals
  <2>1. Legal([srv EXCEPT !.phase = "PASSING", !.sub = "CARD_PASS", !.passing = TRUE])
    BY <1>2, <2>0, FlowAssumption
    DEF Follows, Begins, Told, Counted, GameFields, UpdateFields, SameTrick, Dealt, Over,
        CARDS_PER_TRICK
  <2>2. ASSUME NEW p \in Winners
        PROVE  Legal([srv EXCEPT !.phase = "PLAYING", !.passing = FALSE, !.lead = p])
    BY <1>2, <2>0, FlowAssumption
    DEF Follows, Begins, Told, Counted, GameFields, UpdateFields, SameTrick, Dealt, Over,
        CARDS_PER_TRICK
  <2> HIDE DEF Legal
  <2> QED
    BY <1>3, <1>4, <2>1, <2>2 DEF ServerDeals
<1>5. CASE \E p \in Passers : ServerConfirms(p)
  <2>1. PICK p \in Passers : ServerConfirms(p)
    BY <1>5
  <2>2. PICK u : Fits(cl, u) /\ Queue(u, cl.views, srv)
    BY <1>1 DEF IInv
  <2>3. SameTurn(cl, cl') /\ cl'.views = cl.views
    BY <2>1, <2>2 DEF ServerConfirms, Fits, Knows, SameTurn, SameFlow, ClientFields, UpdateFields
  <2>4. Told(srv') /\ Counted(srv') /\ Agrees(srv, srv')
    BY <1>2, <2>1 DEF ServerConfirms, Told, Counted, Agrees, SameTrick, GameFields, UpdateFields
  <2>5. Fits(cl', u) /\ cl'.shown = cl.shown
    BY <2>2, <2>3, FitsCarries DEF SameTurn, SameFlow
  <2>6. Queue(u, cl'.views, srv')
    BY <2>2, <2>3, <2>4 DEF Queue, Agrees, SameTrick
  <2> QED
    BY <1>1, <2>3, <2>4, <2>5, <2>6 DEF IInv
<1>6. CASE ServerExecutes
  <2>1. Told(srv') /\ Counted(srv') /\ Agrees(srv, srv') /\ cl' = cl
    BY <1>2, <1>6 DEF ServerExecutes, Told, Counted, Agrees, SameTrick, GameFields, UpdateFields
  <2> QED
    BY <1>1, <1>2, <2>1 DEF IInv, Queue, Agrees, SameTrick
<1>7. CASE ServerStartsPlay
  <2>1. ASSUME NEW p \in Winners
        PROVE  Legal([srv EXCEPT !.phase = "PLAYING", !.lead = p])
    BY <1>2, <1>7, FlowAssumption
    DEF ServerStartsPlay, Follows, Begins, Told, Counted, GameFields, UpdateFields, SameTrick, Dealt,
        Over, CARDS_PER_TRICK
  <2> HIDE DEF Legal
  <2> QED
    BY <1>3, <1>7, <2>1 DEF ServerStartsPlay
<1>8. CASE ServerPlays
  <2>1. Legal([srv EXCEPT !.num_played = @ + 1])
    BY <1>2, <1>8, FlowAssumption
    DEF ServerPlays, Follows, Plays, Told, Counted, GameFields, UpdateFields, SameTrick, Dealt, Over,
        CARDS_PER_TRICK
  <2> HIDE DEF Legal
  <2> QED
    BY <1>3, <1>8, <2>1 DEF ServerPlays
<1>9. CASE ServerResolves
  <2> DEFINE Resolved(p) == [srv EXCEPT !.num_played = 0, !.tricks_played = @ + 1, !.lead = p]
  <2>1. srv.phase = "PLAYING" /\ srv.num_played = CARDS_PER_TRICK /\ srv.pending = NoSeat
    BY <1>2, <1>9 DEF ServerResolves, Told, CARDS_PER_TRICK
  <2>2. ASSUME NEW p \in Winners
        PROVE  Legal([Resolved(p) EXCEPT
                        !.phase = IF Resolved(p).tricks_played = TricksPerRound THEN "SCORING" ELSE @])
    BY <1>2, <2>1, FlowAssumption
    DEF Follows, Resolves, Told, Counted, GameFields, UpdateFields, SameTrick, Dealt, Over,
        CARDS_PER_TRICK
  <2>3. ASSUME NEW p \in Winners, Resolved(p).tricks_played < TricksPerRound
        PROVE  /\ Legal([Resolved(p) EXCEPT !.pending = p, !.rogues = @ + 1])
               /\ Legal([Resolved(p) EXCEPT !.rogues = @ + 1, !.revealed = srv.rogues + 1])
    BY <1>2, <2>1, <2>3, FlowAssumption
    DEF Follows, Resolves, Told, Counted, GameFields, UpdateFields, SameTrick, Dealt, Over,
        CARDS_PER_TRICK
  <2> HIDE DEF Legal
  <2> QED
    BY <1>3, <1>9, <2>2, <2>3 DEF ServerResolves
<1>10. CASE ServerReveals
  <2>1. Legal([srv EXCEPT !.pending = NoSeat, !.revealed = srv.rogues])
    BY <1>2, <1>10
    DEF ServerReveals, Follows, Reveals, NoReveal, Told, Counted, GameFields, UpdateFields, SameTrick,
        Dealt, Over, CARDS_PER_TRICK
  <2> HIDE DEF Legal
  <2> QED
    BY <1>3, <1>10, <2>1 DEF ServerReveals
<1>11. CASE ServerScores
  <2>1. srv.phase = "SCORING" /\ srv.pending = NoSeat /\ TricksPerRound \in Nat
    BY <1>2, <1>11, FlowAssumption DEF ServerScores, Told
  <2>2. Legal([srv EXCEPT !.phase = "GAME_OVER"])
    BY <1>2, <2>1
    DEF Follows, Ends, Told, Counted, GameFields, UpdateFields, SameTrick, Dealt, Over, CARDS_PER_TRICK
  <2>3. Legal([ServerStart("DEALING") EXCEPT !.round = srv.round + 1])
    BY <1>2, <2>1
    DEF ServerStart, Follows, Starts, Told, Counted, GameFields, UpdateFields, SameTrick, Dealt, Over,
        CARDS_PER_TRICK
  <2> HIDE DEF Legal
  <2> QED
    BY <1>3, <1>11, <2>2, <2>3 DEF ServerScores
<1>12. CASE ServerRepeats
  <2>1. Legal(srv)
    BY <1>2 DEF Follows, Agrees, SameTrick
  <2> HIDE DEF Legal
  <2> QED
    BY <1>3, <1>12, <2>1 DEF ServerRepeats
<1> QED
  BY <1>4, <1>5, <1>6, <1>7, <1>8, <1>9, <1>10, <1>11, <1>12 DEF Server

-----------------------------------------------------------------------------
(* The tricks *)

\* What an update may have left for the flow to do: a card to show, a new trick, a choice.
MoreToShow(c) ==
  /\ c.step \in {"IDLE", "WAITING_FOR_HUMAN"}
  /\ c.prev_trick_count \in Nat /\ c.prev_trick_count < c.num_played
  /\ IF c.prev_trick_count = 0 THEN ShowsBefore(c) ELSE ShowsCard(c)
NewTrick(c) ==
  /\ c.step = "IDLE" /\ c.saved = NoTrick /\ c.prev_trick_count = CARDS_PER_TRICK
  /\ c.num_played = 0 /\ ShowsBefore(c)
Chosen(c) ==
  /\ c.step = "ROGUE_WAITING" /\ c.saved = NoTrick /\ c.revealed # NoReveal
  /\ c.num_played = 0 /\ ShowsBefore(c)

Ready(c, u) ==
  /\ Knows(c, u) /\ (c.settings => Fits(c, u))
  /\ c.phase = "PLAYING" => Shows(c, u) \/ MoreToShow(c) \/ NewTrick(c) \/ Chosen(c)

\* The flow leaves the game as it is.
SameGame(c, d) ==
  /\ DOMAIN d = ClientFields /\ d.phase = c.phase /\ d.prev_phase = c.prev_phase /\ d.round = c.round
  /\ d.tricks_played = c.tricks_played /\ d.num_played = c.num_played /\ d.views = c.views
  /\ d.pending \in {NoSeat, c.pending}

\* During the play the client's knowledge is the game alone.
LEMMA KnowsCarries ==
  ASSUME NEW c, NEW d, NEW u, Knows(c, u), c.phase = "PLAYING", SameGame(c, d)
  PROVE  Knows(d, u)
BY DEF Knows, SameGame, SameTrick, Dealt, Over

\* What is known of a game that is played.
LEMMA PlayFacts ==
  ASSUME NEW c, NEW u, Knows(c, u), c.phase = "PLAYING"
  PROVE  /\ DOMAIN c = ClientFields /\ u.phase = "PLAYING"
         /\ c.round \in Nat /\ c.tricks_played \in Nat /\ c.tricks_played < TricksPerRound
         /\ c.num_played \in 0 .. 4 /\ TricksPerRound \in Nat
         /\ c.pending # NoSeat => u.pending # NoSeat
         /\ u.pending # NoSeat => c.num_played = 0
BY FlowAssumption DEF Knows, Told, SameTrick, Dealt, CARDS_PER_TRICK

\* The next card is the follower of what is shown.
LEMMA ShowCardFits ==
  ASSUME NEW c, NEW u, Knows(c, u), c.phase = "PLAYING",
         c.prev_trick_count \in Nat, c.prev_trick_count < c.num_played,
         IF c.prev_trick_count = 0 THEN ShowsBefore(c) ELSE ShowsCard(c)
  PROVE  /\ Fits(ShowCard(c), u) /\ SameGame(c, ShowCard(c))
         /\ ShowCard(c).shown = Follower(c.shown)
<1> DEFINE d == ShowCard(c)
<1>1. /\ DOMAIN c = ClientFields /\ c.round \in Nat /\ c.tricks_played \in Nat
      /\ c.tricks_played < TricksPerRound /\ c.num_played \in 0 .. 4 /\ TricksPerRound \in Nat
  BY PlayFacts
<1>2. /\ SameGame(c, d) /\ d.step = "CARD_ANIMATING" /\ d.prev_trick_count = c.prev_trick_count + 1
      /\ d.saved = [round |-> c.round, tricks_played |-> c.tricks_played, num_played |-> c.num_played]
      /\ d.shown = <<c.round, c.tricks_played, c.prev_trick_count + 1>>
  BY <1>1 DEF ShowCard, SameGame, ClientFields, UpdateFields
<1> HIDE DEF d
<1>3. Knows(d, u)
  BY <1>2, KnowsCarries
<1>4. Amid(d)
  BY <1>1, <1>2 DEF Amid, InTrick, ShowsCard, SameGame
<1>5. d.shown = Follower(c.shown)
  <2>1. CASE c.prev_trick_count = 0
    <3>1. c.shown = Before(c.round, c.tricks_played)
      BY <2>1 DEF ShowsBefore
    <3>2. CASE c.tricks_played = 0
      <4>1. c.shown = <<c.round - 1, TricksPerRound - 1, Piled>>
        BY <3>1, <3>2 DEF Before
      <4> QED
        BY <1>1, <1>2, <2>1, <3>2, <4>1 DEF Follower, Piled, CARDS_PER_TRICK
    <3>3. CASE c.tricks_played # 0
      <4>1. c.shown = <<c.round, c.tricks_played - 1, Piled>>
        BY <3>1, <3>3 DEF Before
      <4> QED
        BY <1>1, <1>2, <2>1, <3>3, <4>1 DEF Follower, Piled, CARDS_PER_TRICK
    <3> QED
      BY <3>2, <3>3
  <2>2. CASE c.prev_trick_count # 0
    <3>1. c.shown = <<c.round, c.tricks_played, c.prev_trick_count>>
      BY <2>2 DEF ShowsCard
    <3> QED
      BY <1>1, <1>2, <3>1 DEF Follower, Piled, CARDS_PER_TRICK
  <2> QED
    BY <2>1, <2>2
<1> QED
  BY <1>2, <1>3, <1>4, <1>5 DEF Fits, Shows, SameGame, d

\* A rogue is taken up before the next trick's first card.
LEMMA StartRogueFits ==
  ASSUME NEW c, NEW u, Knows(c, u), c.phase = "PLAYING", RogueStarts(c), c.saved = NoTrick, ShowsBefore(c)
  PROVE  Fits(StartRogue(c), u) /\ SameGame(c, StartRogue(c)) /\ StartRogue(c).shown = c.shown
<1> DEFINE d == StartRogue(c)
<1>1. DOMAIN c = ClientFields /\ c.num_played = 0 /\ u.pending # NoSeat
  BY PlayFacts DEF RogueStarts
<1>2. /\ SameGame(c, d) /\ d.step \in {"ROGUE_CHOOSING", "ROGUE_WAITING"}
      /\ d.saved = NoTrick /\ d.shown = c.shown
  BY <1>1 DEF StartRogue, SameGame, ClientFields, UpdateFields
<1> HIDE DEF d
<1>3. Knows(d, u)
  BY <1>2, KnowsCarries
<1>4. Roguish(d, u)
  BY <1>1, <1>2 DEF Roguish, ShowsBefore, SameGame, RogueChoice
<1> QED
  BY <1>2, <1>3, <1>4 DEF Fits, Shows, SameGame, d

\* A step of the flow at rest: the rogue, the next card, or the player's turn.
LEMMA IdleFits ==
  ASSUME NEW c, NEW u, Ready(c, u), c.phase = "PLAYING", c.step = "IDLE"
  PROVE  Fits(Idle(c), u) /\ SameGame(c, Idle(c)) /\ Idle(c).shown \in {c.shown, Follower(c.shown)}
<1> DEFINE now == [c EXCEPT !.pending = NoSeat,
                            !.prev_trick_count = IF c.num_played < @ THEN 0 ELSE @,
                            !.saved = IF c.num_played < c.prev_trick_count THEN NoTrick ELSE @]
<1>0. Knows(c, u)
  BY DEF Ready
<1>1. /\ DOMAIN c = ClientFields /\ c.num_played \in 0 .. 4 /\ (c.pending # NoSeat => c.num_played = 0)
  BY <1>0, PlayFacts
<1>2. \/ Resting(c) \/ MoreToShow(c) \/ NewTrick(c)
      \/ Amid(c) /\ c.prev_trick_count = c.num_played /\ c.num_played < CARDS_PER_TRICK
  BY <1>1
  DEF Ready, Shows, Opening, Amid, Piling, Going, Roguish, Chosen, RogueChoice, RogueShown, MoreToShow,
              InTrick
<1>3. CASE RogueStarts(c)
  <2>1. c.num_played = 0 /\ Idle(c) = StartRogue(c)
    BY <1>1, <1>3 DEF RogueStarts, Idle
  <2>2. c.saved = NoTrick /\ ShowsBefore(c)
    BY <1>1, <1>2, <2>1
    DEF Resting, Pausing, ShowsPile, MoreToShow, NewTrick, Amid, InTrick, CARDS_PER_TRICK
  <2> QED
    BY <1>0, <1>3, <2>1, <2>2, StartRogueFits
<1>4. CASE ~RogueStarts(c)
  <2>1. /\ SameGame(c, now) /\ now.step = "IDLE" /\ now.shown = c.shown /\ now.lead = c.lead
        /\ now.prev_trick_count = (IF c.num_played < c.prev_trick_count THEN 0 ELSE c.prev_trick_count)
        /\ now.saved = (IF c.num_played < c.prev_trick_count THEN NoTrick ELSE c.saved)
    BY <1>1 DEF SameGame, ClientFields, UpdateFields
  <2>2. Idle(c) = IF now.num_played > now.prev_trick_count THEN ShowCard(now)
                  ELSE IF CurrentPlayer(now) = MySeat
                  THEN [now EXCEPT !.step = "WAITING_FOR_HUMAN", !.prev_trick_count = now.num_played]
                  ELSE now
    BY <1>4 DEF Idle
  <2> HIDE DEF now
  <2>3. Knows(now, u) /\ now.phase = "PLAYING"
    BY <1>0, <2>1, KnowsCarries DEF SameGame
  <2>4. /\ ShowsBefore(now) = ShowsBefore(c) /\ Pausing(now) = Pausing(c)
        /\ now.prev_trick_count = c.prev_trick_count => ShowsCard(now) = ShowsCard(c)
    BY <2>1 DEF SameGame, ShowsBefore, ShowsCard, ShowsPile, Pausing
  <2>5. CASE now.num_played > now.prev_trick_count
    <3>1. MoreToShow(c)
      BY <1>1, <1>2, <2>1, <2>5 DEF Resting, MoreToShow, NewTrick, SameGame, CARDS_PER_TRICK
    <3>2. /\ now.prev_trick_count = c.prev_trick_count /\ now.prev_trick_count \in Nat
          /\ IF now.prev_trick_count = 0 THEN ShowsBefore(now) ELSE ShowsCard(now)
      BY <1>1, <2>1, <2>4, <3>1 DEF MoreToShow
    <3>3. Fits(ShowCard(now), u) /\ SameGame(now, ShowCard(now)) /\ ShowCard(now).shown = Follower(now.shown)
      BY <2>3, <2>5, <3>2, ShowCardFits
    <3> QED
      BY <2>1, <2>2, <2>5, <3>3 DEF SameGame
  <2>6. CASE ~(now.num_played > now.prev_trick_count)
    <3>1. \/ now.saved = NoTrick /\ Pausing(now)
          \/ InTrick(now) /\ ShowsCard(now) /\ now.num_played < CARDS_PER_TRICK
      <4>1. CASE Resting(c)
        BY <1>1, <2>1, <2>4, <4>1 DEF Resting
      <4>2. CASE NewTrick(c)
        BY <1>1, <2>1, <2>4, <4>2 DEF NewTrick, Pausing, CARDS_PER_TRICK
      <4>3. CASE Amid(c) /\ c.prev_trick_count = c.num_played /\ c.num_played < CARDS_PER_TRICK
        <5>1. now.prev_trick_count = c.prev_trick_count /\ now.saved = c.saved
          BY <1>1, <2>1, <4>3
        <5> QED
          BY <2>1, <2>4, <4>3, <5>1 DEF Amid, InTrick, SameGame
      <4>4. ~MoreToShow(c)
        BY <1>1, <2>1, <2>6 DEF MoreToShow, SameGame
      <4> QED
        BY <1>2, <4>1, <4>2, <4>3, <4>4
    <3>2. now.prev_trick_count = now.num_played
      <4>1. CASE Resting(c)
        BY <1>1, <2>1, <4>1 DEF Resting, SameGame
      <4>2. CASE NewTrick(c)
        BY <1>1, <2>1, <4>2 DEF NewTrick, SameGame, CARDS_PER_TRICK
      <4>3. CASE Amid(c) /\ c.prev_trick_count = c.num_played /\ c.num_played < CARDS_PER_TRICK
        BY <1>1, <2>1, <4>3 DEF SameGame
      <4>4. ~MoreToShow(c)
        BY <1>1, <2>1, <2>6 DEF MoreToShow, SameGame
      <4> QED
        BY <1>2, <4>1, <4>2, <4>3, <4>4
    <3>3. CASE CurrentPlayer(now) = MySeat
      <4> DEFINE d == [now EXCEPT !.step = "WAITING_FOR_HUMAN", !.prev_trick_count = now.num_played]
      <4>1. /\ SameGame(c, d) /\ SameGame(now, d) /\ d.step = "WAITING_FOR_HUMAN" /\ d.shown = c.shown
            /\ d.prev_trick_count = now.num_played /\ d.saved = now.saved
        BY <1>1, <2>1 DEF SameGame, ClientFields, UpdateFields
      <4> HIDE DEF d
      <4>2. Knows(d, u) /\ d.phase = "PLAYING"
        BY <2>3, <4>1, KnowsCarries DEF SameGame
      <4>3. now.num_played # CARDS_PER_TRICK
        BY <3>3, FlowAssumption DEF CurrentPlayer, NoSeat
      <4>4. Opening(d) \/ Amid(d)
        BY <2>1, <3>1, <3>2, <4>1, <4>3
        DEF Opening, Amid, SameGame, Pausing, ShowsPile, ShowsBefore, ShowsCard, InTrick
      <4> QED
        BY <2>2, <2>6, <3>3, <4>1, <4>2, <4>4 DEF Fits, Shows, d
    <3>4. CASE CurrentPlayer(now) # MySeat
      <4>1. Resting(now) \/ Amid(now)
        BY <2>1, <3>1, <3>2 DEF Resting, Amid
      <4> QED
        BY <2>1, <2>2, <2>3, <2>6, <3>4, <4>1 DEF Fits, Shows
    <3> QED
      BY <3>3, <3>4
  <2> QED
    BY <2>5, <2>6
<1> QED
  BY <1>3, <1>4

\* The player's turn ends with the card at the server.
LEMMA WaitingFits ==
  ASSUME NEW c, NEW u, Ready(c, u), c.phase = "PLAYING", c.step = "WAITING_FOR_HUMAN",
         NEW d, d = IF c.num_played > c.prev_trick_count THEN ShowCard(c) ELSE c
  PROVE  Fits(d, u) /\ SameGame(c, d) /\ d.shown \in {c.shown, Follower(c.shown)}
<1>0. Knows(c, u)
  BY DEF Ready
<1>1. DOMAIN c = ClientFields /\ c.num_played \in 0 .. 4
  BY <1>0, PlayFacts
<1>2. Opening(c) \/ MoreToShow(c) \/ Amid(c)
  BY DEF Ready, Shows, Resting, Piling, Going, Roguish, Chosen, NewTrick, RogueChoice, RogueShown
<1>3. CASE c.num_played > c.prev_trick_count
  <2>1. MoreToShow(c)
    BY <1>1, <1>2, <1>3 DEF Opening, Amid
  <2> QED
    BY <1>0, <1>3, <2>1, ShowCardFits DEF MoreToShow
<1>4. CASE ~(c.num_played > c.prev_trick_count)
  <2>1. Opening(c) \/ Amid(c)
    BY <1>1, <1>2, <1>4 DEF MoreToShow
  <2> QED
    BY <1>0, <1>1, <1>4, <2>1 DEF Fits, Shows, SameGame
<1> QED
  BY <1>3, <1>4

\* A timed step: what has been shown is piled up, and the pile is cleared.
LEMMA TimedFits ==
  ASSUME NEW c, NEW u, NEW alt \in BOOLEAN, Knows(c, u), Shows(c, u), c.phase = "PLAYING",
         c.step \notin {"IDLE", "WAITING_FOR_HUMAN", "ROGUE_WAITING"}
  PROVE  /\ Fits(TimedStep(c, alt), u) /\ SameGame(c, TimedStep(c, alt))
         /\ TimedStep(c, alt).shown \in {c.shown, Follower(c.shown)}
<1> DEFINE d == TimedStep(c, alt)
<1>1. /\ DOMAIN c = ClientFields /\ c.num_played \in 0 .. 4 /\ (c.pending # NoSeat => c.num_played = 0)
      /\ c.round \in Nat /\ c.tricks_played \in Nat
  BY PlayFacts
<1>2. ASSUME SameGame(c, d), Shows(d, u), d.shown \in {c.shown, Follower(c.shown)}
      PROVE  Fits(d, u) /\ SameGame(c, d) /\ d.shown \in {c.shown, Follower(c.shown)}
  BY <1>2, KnowsCarries DEF Fits, SameGame
<1>3. ASSUME InTrick(c), ShowsCard(c), c.prev_trick_count = CARDS_PER_TRICK
      PROVE  /\ SameGame(c, ShowPile(c)) /\ Shows(ShowPile(c), u) /\ ShowPile(c).shown = Follower(c.shown)
  <2> DEFINE e == ShowPile(c)
  <2>1. /\ SameGame(c, e) /\ e.step = "TRICK_PILE_ANIM" /\ e.saved = c.saved
        /\ e.prev_trick_count = c.prev_trick_count
        /\ e.shown = <<c.round, c.tricks_played, Piled>>
    BY <1>1, <1>3 DEF ShowPile, SameGame, ClientFields, UpdateFields, InTrick
  <2> HIDE DEF e
  <2>2. c.num_played = CARDS_PER_TRICK /\ c.shown = <<c.round, c.tricks_played, CARDS_PER_TRICK>>
    BY <1>1, <1>3 DEF InTrick, ShowsCard, CARDS_PER_TRICK
  <2>3. e.shown = Follower(c.shown)
    BY <2>1, <2>2 DEF Follower, Piled, CARDS_PER_TRICK
  <2>4. Piling(e)
    BY <1>3, <2>1, <2>2 DEF Piling, InTrick, ShowsPile, SameGame
  <2> QED
    BY <2>1, <2>3, <2>4 DEF Shows, e
<1>4. CASE c.step = "CARD_ANIMATING"
  <2>1. Amid(c)
    BY <1>4 DEF Shows, Resting, Opening, Piling, Going, Roguish, RogueChoice, RogueShown
  <2> DEFINE step == IF c.prev_trick_count < c.saved.num_played \/ c.saved.num_played < CARDS_PER_TRICK
                     THEN "IDLE" ELSE "TRICK_DISPLAY"
  <2>2. d = [c EXCEPT !.step = step]
    BY <1>4 DEF TimedStep
  <2>3. c.saved.num_played = c.num_played /\ c.prev_trick_count \in 1 .. c.num_played
    BY <2>1 DEF Amid, InTrick
  <2>4. /\ SameGame(c, d) /\ d.step = step /\ d.saved = c.saved /\ d.prev_trick_count = c.prev_trick_count
        /\ d.shown = c.shown
    BY <1>1, <2>2 DEF SameGame, ClientFields, UpdateFields
  <2> HIDE DEF d
  <2>5. Amid(d)
    BY <1>1, <2>1, <2>3, <2>4 DEF Amid, InTrick, ShowsCard, SameGame, CARDS_PER_TRICK
  <2> QED
    BY <1>2, <2>4, <2>5 DEF Shows, d
<1>5. CASE c.step \in {"TRICK_DISPLAY", "FOG_REVEAL"}
  <2>1. Amid(c)
    BY <1>5 DEF Shows, Resting, Opening, Piling, Going, Roguish, RogueChoice, RogueShown
  <2>2. InTrick(c) /\ ShowsCard(c) /\ c.prev_trick_count = CARDS_PER_TRICK
    BY <1>5, <2>1 DEF Amid
  <2>3. CASE c.step = "TRICK_DISPLAY" /\ alt
    <3>1. d = [c EXCEPT !.step = "FOG_REVEAL"]
      BY <2>3 DEF TimedStep
    <3>2. /\ SameGame(c, d) /\ d.step = "FOG_REVEAL" /\ d.saved = c.saved
          /\ d.prev_trick_count = c.prev_trick_count /\ d.shown = c.shown
      BY <1>1, <3>1 DEF SameGame, ClientFields, UpdateFields
    <3> HIDE DEF d
    <3>3. Amid(d)
      BY <2>2, <3>2 DEF Amid, InTrick, ShowsCard, SameGame
    <3> QED
      BY <1>2, <3>2, <3>3 DEF Shows, d
  <2>4. CASE ~(c.step = "TRICK_DISPLAY" /\ alt)
    <3>1. d = ShowPile(c)
      BY <1>5, <2>4 DEF TimedStep
    <3> QED
      BY <1>2, <1>3, <2>2, <3>1
  <2> QED
    BY <2>3, <2>4
<1>6. CASE c.step \in {"TRICK_PILE_ANIM", "TRICK_COLLECTING"}
  <2>1. Piling(c)
    BY <1>6 DEF Shows, Resting, Opening, Amid, Going, Roguish, RogueChoice, RogueShown
  <2>2. ~RogueStarts(c)
    BY <1>1, <2>1 DEF RogueStarts, Piling, ShowsPile, CARDS_PER_TRICK
  <2>3. \/ d = [c EXCEPT !.step = "TRICK_COLLECTING"]
        \/ d = [c EXCEPT !.step = "BETWEEN_TRICKS", !.pending = NoSeat]
    BY <1>6, <2>2 DEF TimedStep
  <2>4. /\ SameGame(c, d) /\ d.step \in {"TRICK_COLLECTING", "BETWEEN_TRICKS"} /\ d.saved = c.saved
        /\ d.prev_trick_count = c.prev_trick_count /\ d.shown = c.shown
    BY <1>1, <2>3 DEF SameGame, ClientFields, UpdateFields
  <2> HIDE DEF d
  <2>5. Piling(d) \/ Going(d)
    BY <2>1, <2>4 DEF Piling, Going, Pausing, InTrick, ShowsPile, SameGame
  <2> QED
    BY <1>2, <2>4, <2>5 DEF Shows, d
<1>7. CASE c.step \in RogueChoice \cup RogueShown
  <2>1. Roguish(c, u)
    BY <1>7 DEF Shows, Resting, Opening, Amid, Piling, Going, RogueChoice, RogueShown
  <2>2. d = c \/ \E step \in RogueShown \cup {"BETWEEN_TRICKS"} : d = [c EXCEPT !.step = step]
    BY <1>7 DEF TimedStep, RogueShown, RogueChoice
  <2>3. /\ SameGame(c, d) /\ d.step \in RogueShown \cup {"BETWEEN_TRICKS", c.step} /\ d.saved = c.saved
        /\ d.shown = c.shown
    BY <1>1, <2>2 DEF SameGame, ClientFields, UpdateFields
  <2> HIDE DEF d
  <2>4. Roguish(d, u) \/ Going(d)
    BY <2>1, <2>3 DEF Roguish, Going, Pausing, ShowsBefore, SameGame, RogueChoice, RogueShown
  <2> QED
    BY <1>2, <2>3, <2>4 DEF Shows, d
<1>8. CASE c.step = "BETWEEN_TRICKS"
  <2>1. Going(c)
    BY <1>8 DEF Shows, Resting, Opening, Amid, Piling, Roguish, RogueChoice, RogueShown
  <2>2. d = [c EXCEPT !.step = "IDLE", !.saved = NoTrick, !.prev_trick_count = c.num_played,
                      !.rogue_effect_handled = FALSE]
    BY <1>8 DEF TimedStep
  <2>3. /\ SameGame(c, d) /\ d.step = "IDLE" /\ d.saved = NoTrick /\ d.prev_trick_count = c.num_played
        /\ d.shown = c.shown
    BY <1>1, <2>2 DEF SameGame, ClientFields, UpdateFields
  <2> HIDE DEF d
  <2>4. Resting(d)
    BY <2>1, <2>3 DEF Resting, Going, Pausing, ShowsPile, ShowsBefore, SameGame
  <2> QED
    BY <1>2, <2>3, <2>4 DEF Shows, d
<1>9. c.step \in {"CARD_ANIMATING", "TRICK_DISPLAY", "FOG_REVEAL", "TRICK_PILE_ANIM", "TRICK_COLLECTING",
                  "BETWEEN_TRICKS"} \cup RogueChoice \cup RogueShown
  BY DEF Shows, Resting, Opening, Amid, Piling, Going, Roguish
<1> QED
  BY <1>4, <1>5, <1>6, <1>7, <1>8, <1>9

\* The flow takes what an update has left, and shows at most the follower.
LEMMA FlowFits ==
  ASSUME NEW c, NEW u, NEW elapsed \in BOOLEAN, NEW alt \in BOOLEAN, Ready(c, u)
  PROVE  /\ Fits(FlowUpdate(c, elapsed, alt), u) /\ FlowUpdate(c, elapsed, alt).views = c.views
         /\ FlowUpdate(c, elapsed, alt).phase = c.phase
         /\ FlowUpdate(c, elapsed, alt).shown \in {c.shown, Follower(c.shown)}
<1> DEFINE d == FlowUpdate(c, elapsed, alt)
<1>1. Knows(c, u) /\ DOMAIN c = ClientFields
  BY DEF Ready, Knows
<1>2. CASE c.settings
  <2>1. d = c
    BY <1>2 DEF FlowUpdate
  <2> QED
    BY <1>2, <2>1 DEF Ready
<1>3. CASE ~c.settings /\ c.phase # "PLAYING"
  <2>1. d = [c EXCEPT !.saved = NoTrick, !.step = "IDLE"]
    BY <1>3 DEF FlowUpdate
  <2>2. /\ DOMAIN d = ClientFields /\ d.phase = c.phase /\ d.prev_phase = c.prev_phase /\ d.round = c.round
        /\ d.tricks_played = c.tricks_played /\ d.num_played = c.num_played /\ d.pending = c.pending
        /\ d.shown = c.shown /\ d.views = c.views /\ d.saved = NoTrick /\ d.step = "IDLE"
    BY <1>1, <2>1 DEF ClientFields, UpdateFields
  <2> HIDE DEF d
  <2>3. Fits(d, u)
    BY <1>1, <1>3, <2>2 DEF Fits, Knows, SameTrick, ShowsBefore
  <2> QED
    BY <2>2, <2>3 DEF d
<1>4. CASE ~c.settings /\ c.phase = "PLAYING"
  <2>1. Shows(c, u) \/ MoreToShow(c) \/ NewTrick(c) \/ Chosen(c)
    BY <1>4 DEF Ready
  <2>2. ASSUME Fits(d, u), SameGame(c, d), d.shown \in {c.shown, Follower(c.shown)}
        PROVE  Fits(d, u) /\ d.views = c.views /\ d.phase = c.phase /\ d.shown \in {c.shown, Follower(c.shown)}
    BY <2>2 DEF SameGame
  <2>3. CASE c.step = "IDLE"
    <3>1. d = Idle(c)
      BY <1>4, <2>3 DEF FlowUpdate
    <3> QED
      BY <1>4, <2>2, <2>3, <3>1, IdleFits
  <2>4. CASE c.step = "WAITING_FOR_HUMAN"
    <3>1. d = IF c.num_played > c.prev_trick_count THEN ShowCard(c) ELSE c
      BY <1>4, <2>4 DEF FlowUpdate
    <3> QED
      BY <1>4, <2>2, <2>4, <3>1, WaitingFits
  <2>5. CASE c.step = "ROGUE_WAITING"
    <3>1. c.saved = NoTrick /\ c.num_played = 0 /\ ShowsBefore(c) /\ (c.revealed = NoReveal => Shows(c, u))
      BY <2>1, <2>5 DEF Shows, Resting, Opening, Amid, Piling, Going, Roguish, MoreToShow, NewTrick, Chosen
    <3>2. CASE c.revealed = NoReveal
      <4>1. d = c
        BY <1>4, <2>5, <3>2 DEF FlowUpdate
      <4> QED
        BY <1>1, <1>4, <3>1, <3>2, <4>1 DEF Fits
    <3>3. CASE c.revealed # NoReveal
      <4>1. d = [c EXCEPT !.revealed = NoReveal, !.step = IF alt THEN "ROGUE_REVEAL" ELSE "ROGUE_ANIM_TO_CENTER"]
        BY <1>4, <2>5, <3>3 DEF FlowUpdate
      <4>2. /\ SameGame(c, d) /\ d.step \in {"ROGUE_REVEAL", "ROGUE_ANIM_TO_CENTER"} /\ d.saved = c.saved
            /\ d.shown = c.shown
        BY <1>1, <4>1 DEF SameGame, ClientFields, UpdateFields
      <4> HIDE DEF d
      <4>3. Knows(d, u) /\ Roguish(d, u)
        BY <1>1, <1>4, <3>1, <4>2, KnowsCarries DEF Roguish, ShowsBefore, SameGame, RogueChoice, RogueShown
      <4> QED
        BY <1>4, <4>2, <4>3 DEF Fits, Shows, SameGame, d
    <3> QED
      BY <3>2, <3>3
  <2>6. CASE c.step \notin {"IDLE", "WAITING_FOR_HUMAN", "ROGUE_WAITING"}
    <3>1. Shows(c, u)
      BY <2>1, <2>6 DEF MoreToShow, NewTrick, Chosen
    <3>2. d = IF elapsed THEN TimedStep(c, alt) ELSE c
      BY <1>4, <2>6 DEF FlowUpdate
    <3>3. CASE elapsed
      BY <1>1, <1>4, <2>2, <2>6, <3>1, <3>2, <3>3, TimedFits
    <3>4. CASE ~elapsed
      BY <1>1, <1>4, <3>1, <3>2, <3>4 DEF Fits
    <3> QED
      BY <3>3, <3>4
  <2> QED
    BY <2>3, <2>4, <2>5, <2>6
<1> QED
  BY <1>2, <1>3, <1>4

-----------------------------------------------------------------------------
(* An update is taken *)

\* The client has the update's game, and its flow is where it was.
Applied(c, v, d) ==
  /\ DOMAIN d = ClientFields /\ d.prev_phase = c.prev_phase
  /\ d.phase = IF v.round # c.round /\ c.phase \in InGame \cup {"ONLINE_MENU"} THEN "DEALING" ELSE v.phase
  /\ SameTrick(v, d) /\ d.pending = v.pending /\ d.revealed = v.revealed
  /\ d.step = c.step /\ d.prev_trick_count = c.prev_trick_count /\ d.saved = c.saved
  /\ d.shown = c.shown /\ d.settings = c.settings

\* phase_transition_update: the deal ends, and the flow starts with the play.
Begun(c, d) ==
  /\ DOMAIN d = ClientFields /\ SameTrick(c, d) /\ d.pending = c.pending /\ d.revealed = c.revealed
  /\ d.shown = c.shown /\ d.settings = c.settings /\ d.views = c.views
  /\ IF c.settings THEN d.prev_phase = c.prev_phase ELSE d.prev_phase = d.phase
  /\ d.phase = c.phase \/ (c.phase = "DEALING" /\ d.phase = "PASSING")
  /\ IF ~c.settings /\ d.phase = "PLAYING" /\ c.prev_phase # "PLAYING"
     THEN d.step = "IDLE" /\ d.prev_trick_count = 0 /\ d.saved = NoTrick
     ELSE d.step = c.step /\ d.prev_trick_count = c.prev_trick_count /\ d.saved = c.saved

\* Without an update there is nothing new for the flow.
LEMMA NothingNew ==
  ASSUME NEW c, NEW u, NEW d, Fits(c, u), Begun(c, d), c.settings => d.phase = c.phase
  PROVE  Ready(d, u)
<1>1. Knows(d, u)
  BY DEF Fits, Knows, Begun, SameTrick, ShowsBefore, Dealt, Over
<1>2. d.phase = "PLAYING" => Shows(d, u)
  <2> SUFFICES ASSUME d.phase = "PLAYING"
               PROVE  Shows(d, u)
    OBVIOUS
  <2>1. /\ c.phase = "PLAYING" /\ Shows(c, u) /\ SameTrick(c, d) /\ d.shown = c.shown /\ d.step = c.step
        /\ d.prev_trick_count = c.prev_trick_count /\ d.saved = c.saved
    BY DEF Fits, Knows, Begun
  <2>2. ShowsBefore(d) = ShowsBefore(c) /\ ShowsCard(d) = ShowsCard(c) /\ ShowsPile(d) = ShowsPile(c)
        /\ Pausing(d) = Pausing(c) /\ InTrick(d) = InTrick(c)
    BY <2>1 DEF SameTrick, ShowsBefore, ShowsCard, ShowsPile, Pausing, InTrick
  <2> QED
    BY <2>1, <2>2 DEF SameTrick, Shows, Resting, Opening, Amid, Piling, Going, Roguish
<1>3. d.phase # "PLAYING" /\ d.settings => d.step = "IDLE" /\ d.saved = NoTrick
  BY DEF Fits, Begun
<1> QED
  BY <1>1, <1>2, <1>3 DEF Ready, Fits

\* An update comes before the play, after it or between two rounds.
LEMMA NewsOutsidePlay ==
  ASSUME NEW c, NEW u, NEW v, NEW d, NEW e, Fits(c, u), c.phase # "PLAYING", ~c.settings,
         Told(v), Follows(u, v), Applied(c, v, d), Begun(d, e)
  PROVE  Ready(e, v)
<1>1. /\ Told(u) /\ SameTrick(u, c) /\ c.prev_phase = c.phase /\ c.step = "IDLE" /\ c.saved = NoTrick
      /\ c.phase \in Dealt \cup Over \cup {"ONLINE_MENU"}
      /\ IF c.phase \in Dealt THEN u.phase \in Dealt \cup {"PLAYING"} /\ u.tricks_played = 0 /\ u.num_played = 0
         ELSE c.phase = u.phase
      /\ c.phase = "ONLINE_MENU" => c.shown = Before(1, 0)
      /\ c.phase \in Dealt \cup Over => c.shown = Before(u.round, u.tricks_played)
  BY DEF Fits, Knows, SameTrick, ShowsBefore
<1>2. /\ DOMAIN e = ClientFields /\ SameTrick(v, e) /\ e.pending = v.pending /\ e.shown = c.shown
      /\ ~e.settings /\ e.prev_phase = e.phase
      /\ e.phase = "PLAYING" => e.step = "IDLE" /\ e.prev_trick_count = 0 /\ e.saved = NoTrick
  BY <1>1 DEF Applied, Begun, SameTrick
<1>3. CASE v.round # u.round
  <2>1. Starts(u, v)
    BY <1>3 DEF Follows, Agrees, Reveals, Begins, Plays, Resolves, Ends, SameTrick
  <2>2. e.phase \in Dealt
    BY <1>1, <1>3, <2>1 DEF Applied, Begun, Starts, SameTrick, InGame, Dealt
  <2>3. e.shown = Before(v.round, 0)
    <3>1. CASE u.phase = "SCORING"
      <4>1. e.shown = <<u.round, TricksPerRound - 1, Piled>> /\ u.round \in Nat
        BY <1>1, <1>2, <3>1, FlowAssumption DEF Before, Told, Over, Dealt
      <4>2. v.round - 1 = u.round
        BY <2>1, <4>1 DEF Starts
      <4> QED
        BY <4>1, <4>2 DEF Before
    <3>2. CASE u.phase = "ONLINE_MENU"
      BY <1>1, <1>2, <2>1, <3>2 DEF Starts, Told, Dealt
    <3> QED
      BY <2>1, <3>1, <3>2 DEF Starts
  <2>4. Knows(e, v)
    BY <1>2, <2>1, <2>2, <2>3 DEF Knows, Starts, SameTrick, ShowsBefore, Dealt, Over
  <2> QED
    BY <1>2, <2>2, <2>4 DEF Ready, Dealt
<1>4. CASE v.round = u.round
  <2>1. e.phase = v.phase \/ (v.phase = "DEALING" /\ e.phase = "PASSING")
    BY <1>1, <1>4 DEF Applied, Begun, SameTrick
  <2>2. v.tricks_played = u.tricks_played /\ v.num_played \in {u.num_played, u.num_played + 1}
        /\ (v.num_played # u.num_played => v.phase = "PLAYING" /\ u.num_played = 0)
    BY <1>1, <1>4 DEF Follows, Agrees, Reveals, Begins, Plays, Resolves, Ends, Starts, SameTrick, Told,
                      Dealt, Over, CARDS_PER_TRICK
  <2>3. CASE c.phase = "ONLINE_MENU"
    <3>1. v.phase = "ONLINE_MENU"
      BY <1>1, <1>4, <2>3
      DEF Follows, Agrees, Reveals, Begins, Plays, Resolves, Ends, Starts, SameTrick, Told,
                              Dealt, Over
    <3> QED
      BY <1>1, <1>2, <2>1, <2>3, <3>1 DEF Ready, Knows, Dealt, Over, Told, SameTrick
  <2>4. CASE c.phase \in Dealt \cup Over
    <3>1. ShowsBefore(e) /\ v.phase # "ONLINE_MENU"
      <4>1. v.phase # "ONLINE_MENU"
        BY <1>1, <1>4, <2>4 DEF Follows, Agrees, Reveals, Begins, Plays, Resolves, Ends, Starts, Dealt, Over
      <4> QED
        BY <1>1, <1>2, <1>4, <2>2, <2>4, <4>1 DEF ShowsBefore, SameTrick
    <3>2. e.phase \in Dealt => v.phase \in Dealt
      BY <2>1 DEF Dealt
    <3>3. Knows(e, v)
      BY <1>2, <2>1, <3>1, <3>2 DEF Knows, Told, SameTrick, Dealt, Over
    <3>4. e.phase = "PLAYING" => Resting(e) \/ MoreToShow(e)
      <4> SUFFICES ASSUME e.phase = "PLAYING"
                   PROVE  Resting(e) \/ MoreToShow(e)
        OBVIOUS
      <4>1. u.num_played = 0
        BY <1>1, <2>4 DEF Told, Dealt, Over
      <4> QED
        BY <1>2, <2>2, <3>1, <4>1 DEF Resting, MoreToShow, Pausing, SameTrick
    <3> QED
      BY <1>2, <3>3, <3>4 DEF Ready, Shows
  <2> QED
    BY <1>1, <2>3, <2>4
<1> QED
  BY <1>3, <1>4

\* An update comes during the play, when nothing moves.
LEMMA NewsInPlay ==
  ASSUME NEW c, NEW u, NEW v, NEW d, NEW e, Fits(c, u), c.phase = "PLAYING", ~Deferred(c, v),
         Told(v), Follows(u, v), Applied(c, v, d), Begun(d, e)
  PROVE  Ready(e, v)
<1>1. /\ Knows(c, u) /\ Shows(c, u) /\ Told(u) /\ SameTrick(u, c) /\ c.prev_phase = "PLAYING"
      /\ u.phase = "PLAYING"
  BY DEF Fits, Knows, Dealt
<1>2. /\ c.step \in {"IDLE", "WAITING_FOR_HUMAN", "ROGUE_WAITING"} /\ ~c.settings
      /\ c.saved # NoTrick /\ c.prev_trick_count < c.saved.num_played =>
           v.phase = "PLAYING" /\ v.tricks_played = c.tricks_played
  BY DEF Deferred, WouldDefer
<1>3. v.round = u.round
  BY <1>1 DEF Follows, Agrees, Reveals, Begins, Plays, Resolves, Ends, Starts, SameTrick, Dealt
<1>4. /\ DOMAIN e = ClientFields /\ SameTrick(v, e) /\ e.pending = v.pending /\ e.revealed = v.revealed
      /\ e.shown = c.shown /\ ~e.settings /\ e.prev_phase = e.phase
      /\ e.phase = v.phase \/ (v.phase = "DEALING" /\ e.phase = "PASSING")
      /\ e.step = c.step /\ e.prev_trick_count = c.prev_trick_count /\ e.saved = c.saved
  BY <1>1, <1>2, <1>3 DEF Applied, Begun, SameTrick
<1>5. \/ Resting(c) \/ Opening(c)
      \/ Roguish(c, u) /\ c.step = "ROGUE_WAITING"
      \/ Amid(c) /\ c.step \in {"IDLE", "WAITING_FOR_HUMAN"}
  BY <1>1, <1>2 DEF Shows, Amid, Piling, Going, Roguish, RogueChoice, RogueShown
<1>6. CASE v.phase = "PLAYING" /\ SameTrick(u, v)
  <2>1. Knows(e, v)
    BY <1>4, <1>6 DEF Knows, Dealt, Over
  <2>2. /\ ShowsBefore(e) = ShowsBefore(c) /\ ShowsCard(e) = ShowsCard(c) /\ Pausing(e) = Pausing(c)
        /\ InTrick(e) = InTrick(c) /\ e.num_played = c.num_played
    BY <1>1, <1>4, <1>6 DEF SameTrick, ShowsBefore, ShowsCard, ShowsPile, Pausing, InTrick
  <2>3. Roguish(c, u) => v.pending # NoSeat \/ v.revealed # NoReveal \/ c.step # "ROGUE_WAITING"
    BY <1>1, <1>6 DEF Follows, Agrees, Reveals, Begins, Plays, Resolves, Ends, Starts, SameTrick, Told,
                      Roguish, RogueChoice, Dealt
  <2>4. Resting(e) \/ Opening(e) \/ Roguish(e, v) \/ Amid(e) \/ Chosen(e)
    BY <1>4, <1>5, <2>2, <2>3 DEF Resting, Opening, Roguish, Amid, Chosen, RogueChoice, RogueShown
  <2> QED
    BY <1>4, <2>1, <2>4 DEF Ready, Shows
<1>7. CASE Plays(u, v)
  <2>1. Knows(e, v)
    BY <1>4, <1>7 DEF Knows, Plays, Dealt, Over
  <2>2. v.num_played = c.num_played + 1 /\ c.num_played \in 0 .. 3 /\ e.num_played = c.num_played + 1
        /\ ShowsBefore(e) = ShowsBefore(c) /\ ShowsCard(e) = ShowsCard(c)
    BY <1>1, <1>4, <1>7 DEF Plays, Told, SameTrick, ShowsBefore, ShowsCard, CARDS_PER_TRICK
  <2>3. ~Roguish(c, u) \/ c.step # "ROGUE_WAITING"
    BY <1>7 DEF Plays, Roguish, RogueChoice
  <2>4. MoreToShow(e)
    BY <1>4, <1>5, <2>2, <2>3
    DEF MoreToShow, Resting, Opening, Amid, InTrick, Pausing, ShowsPile, CARDS_PER_TRICK
  <2> QED
    BY <1>4, <2>1, <2>4 DEF Ready
<1>8. CASE Resolves(u, v)
  <2>1. c.num_played = CARDS_PER_TRICK /\ v.tricks_played = c.tricks_played + 1 /\ c.tricks_played \in Nat
    BY <1>1, <1>8 DEF Resolves, SameTrick, Told
  <2>2. Resting(c) /\ ShowsPile(c)
    <3>1. Resting(c)
      BY <1>2, <1>5, <2>1 DEF Opening, Roguish, Amid, InTrick, CARDS_PER_TRICK, NoTrick
    <3> QED
      BY <2>1, <3>1 DEF Resting, Pausing, CARDS_PER_TRICK
  <2>3. ShowsBefore(e) /\ e.num_played = 0
    <3>1. e.shown = <<c.round, c.tricks_played, Piled>>
      BY <1>4, <2>2 DEF ShowsPile
    <3>2. e.round = c.round /\ e.tricks_played = c.tricks_played + 1 /\ e.num_played = 0
      BY <1>1, <1>4, <1>8 DEF Resolves, SameTrick
    <3>3. e.tricks_played # 0 /\ e.tricks_played - 1 = c.tricks_played
      BY <2>1, <3>2
    <3> QED
      BY <3>1, <3>2, <3>3 DEF ShowsBefore, Before
  <2>4. Knows(e, v)
    BY <1>4, <1>8, <2>3 DEF Knows, Resolves, Dealt, Over
  <2>5. NewTrick(e)
    BY <1>4, <2>1, <2>2, <2>3 DEF NewTrick, Resting
  <2> QED
    BY <1>4, <2>4, <2>5 DEF Ready
<1>9. (v.phase = "PLAYING" /\ SameTrick(u, v)) \/ Plays(u, v) \/ Resolves(u, v)
  BY <1>1 DEF Follows, Agrees, Reveals, Begins, Ends, Starts, SameTrick, Dealt
<1> QED
  BY <1>6, <1>7, <1>8, <1>9

-----------------------------------------------------------------------------
(* The frame *)

\* The pass and the scores do not disturb the flow.
LEMMA PassIsAside ==
  ASSUME NEW c, DOMAIN c = ClientFields, NEW elapsed \in BOOLEAN, NEW seats
  PROVE  /\ SameTurn(c, Toss(c, seats)) /\ Toss(c, seats).views = c.views
         /\ SameTurn(c, TakeConfirmed(c)) /\ TakeConfirmed(c).views = c.views
         /\ SameTurn(c, StartPassAnim(c)) /\ StartPassAnim(c).views = c.views
         /\ SameTurn(c, GameUpdate(c, elapsed)) /\ GameUpdate(c, elapsed).views = c.views
         /\ SameTurn(c, PassUpdate(c, elapsed)) /\ PassUpdate(c, elapsed).views = c.views
<1>1. ASSUME NEW some
      PROVE  SameTurn(c, Toss(c, some)) /\ Toss(c, some).views = c.views
  BY DEF Toss, SameTurn, SameFlow, ClientFields, UpdateFields
<1>2. SameTurn(c, TakeConfirmed(c)) /\ TakeConfirmed(c).views = c.views
  BY <1>1 DEF TakeConfirmed, SameTurn, SameFlow, ClientFields, UpdateFields
<1>3. SameTurn(c, StartPassAnim(c)) /\ StartPassAnim(c).views = c.views
  BY <1>1 DEF StartPassAnim, SameTurn, SameFlow, ClientFields, UpdateFields
<1>4. SameTurn(c, GameUpdate(c, elapsed)) /\ GameUpdate(c, elapsed).views = c.views
  BY DEF GameUpdate, SameTurn, SameFlow, ClientFields, UpdateFields
<1>5. SameTurn(c, PassUpdate(c, elapsed)) /\ PassUpdate(c, elapsed).views = c.views
  <2>1. \/ PassUpdate(c, elapsed) = c
        \/ \E sub : PassUpdate(c, elapsed) = [c EXCEPT !.sub = sub]
        \/ PassUpdate(c, elapsed) = [c EXCEPT !.pass_anim = FALSE, !.async_toss = FALSE]
    BY DEF PassUpdate
  <2> QED
    BY <2>1 DEF SameTurn, SameFlow, ClientFields, UpdateFields
<1> QED
  BY <1>1, <1>2, <1>3, <1>4, <1>5

\* An update is taken as it is, but a new round is dealt first.
LEMMA UpdateIsApplied ==
  ASSUME NEW c, DOMAIN c = ClientFields, NEW v, DOMAIN v = UpdateFields
  PROVE  Applied(c, v, ApplyUpdate(c, v)) /\ ApplyUpdate(c, v).views = Tail(c.views)
<1> DEFINE seen == [f \in DOMAIN c |-> IF f \in DOMAIN v THEN v[f] ELSE c[f]]
           new == v.round # c.round /\ c.phase \in InGame \cup {"ONLINE_MENU"}
           async == ~new /\ c.async_toss
<1>1. /\ DOMAIN seen = ClientFields /\ seen.phase = v.phase /\ seen.round = v.round
      /\ seen.tricks_played = v.tricks_played /\ seen.num_played = v.num_played
      /\ seen.pending = v.pending /\ seen.revealed = v.revealed /\ seen.prev_phase = c.prev_phase
      /\ seen.step = c.step /\ seen.prev_trick_count = c.prev_trick_count /\ seen.saved = c.saved
      /\ seen.shown = c.shown /\ seen.settings = c.settings /\ seen.views = c.views
  BY DEF ClientFields, UpdateFields
<1>2. ApplyUpdate(c, v) =
        [seen EXCEPT
           !.phase = IF new THEN "DEALING" ELSE @, !.deal_anim = (@ \/ new),
           !.confirmed = IF new THEN {} ELSE @, !.toss_started = IF new THEN {} ELSE @,
           !.mine = (@ /\ ~new), !.async_toss = async,
           !.sub = IF async /\ c.sub \in TossSteps THEN c.sub ELSE @, !.views = Tail(@)]
  BY DEF ApplyUpdate
<1> HIDE DEF seen
<1> QED
  BY <1>1, <1>2 DEF Applied, SameTrick, ClientFields, UpdateFields

\* The play begins with a new flow.
LEMMA PhaseIsBegun ==
  ASSUME NEW c, DOMAIN c = ClientFields, NEW elapsed \in BOOLEAN
  PROVE  /\ Begun(c, PhaseTransition(c, elapsed))
         /\ c.settings => PhaseTransition(c, elapsed).phase = c.phase
<1> DEFINE scored == IF c.phase = "SCORING" /\ c.prev_phase # "SCORING" THEN [c EXCEPT !.scoring_done = FALSE] ELSE c
           dealt == IF c.deal_anim /\ c.phase = "DEALING" /\ elapsed
                    THEN [scored EXCEPT !.phase = "PASSING", !.deal_anim = FALSE] ELSE scored
           begun == IF dealt.phase = "PLAYING" /\ c.prev_phase # "PLAYING" THEN FlowInit(dealt) ELSE dealt
           d == PhaseTransition(c, elapsed)
<1>1. d = IF c.settings THEN c ELSE [begun EXCEPT !.prev_phase = begun.phase]
  BY DEF PhaseTransition
<1>2. SameTurn(c, scored) /\ scored.views = c.views
  BY DEF SameTurn, SameFlow, ClientFields, UpdateFields
<1> HIDE DEF scored
<1>3. /\ DOMAIN dealt = ClientFields /\ SameTrick(c, dealt) /\ dealt.pending = c.pending
      /\ dealt.revealed = c.revealed /\ dealt.shown = c.shown /\ dealt.settings = c.settings
      /\ dealt.views = c.views /\ dealt.step = c.step /\ dealt.prev_trick_count = c.prev_trick_count
      /\ dealt.saved = c.saved
      /\ dealt.phase = c.phase \/ (c.phase = "DEALING" /\ dealt.phase = "PASSING")
  BY <1>2 DEF SameTurn, SameFlow, SameTrick, ClientFields, UpdateFields
<1> HIDE DEF dealt
<1>4. /\ DOMAIN begun = ClientFields /\ SameTrick(c, begun) /\ begun.pending = c.pending
      /\ begun.revealed = c.revealed /\ begun.shown = c.shown /\ begun.settings = c.settings
      /\ begun.views = c.views
      /\ begun.phase = c.phase \/ (c.phase = "DEALING" /\ begun.phase = "PASSING")
      /\ IF begun.phase = "PLAYING" /\ c.prev_phase # "PLAYING"
         THEN begun.step = "IDLE" /\ begun.prev_trick_count = 0 /\ begun.saved = NoTrick
         ELSE begun.step = c.step /\ begun.prev_trick_count = c.prev_trick_count /\ begun.saved = c.saved
  BY <1>3 DEF FlowInit, SameTrick, ClientFields, UpdateFields
<1> HIDE DEF begun
<1>5. CASE c.settings
  BY <1>1, <1>5 DEF Begun, SameTrick
<1>6. CASE ~c.settings
  BY <1>1, <1>4, <1>6 DEF Begun, SameTrick, ClientFields, UpdateFields
<1> QED
  BY <1>5, <1>6

\* What follows from where the flow is to where it is and what is known with it.
LEMMA ReadyCarries ==
  ASSUME NEW c, NEW d, NEW u, Ready(c, u), SameTurn(c, d)
  PROVE  Ready(d, u)
<1>1. Knows(d, u)
  BY DEF Ready, SameTurn, SameFlow, Knows, SameTrick, ShowsBefore
<1>2. ShowsBefore(d) = ShowsBefore(c) /\ ShowsCard(d) = ShowsCard(c) /\ ShowsPile(d) = ShowsPile(c)
      /\ Pausing(d) = Pausing(c) /\ InTrick(d) = InTrick(c)
  BY DEF SameTurn, SameFlow, ShowsBefore, ShowsCard, ShowsPile, Pausing, InTrick
<1>3. /\ Shows(c, u) => Shows(d, u)
      /\ MoreToShow(c) => MoreToShow(d)
      /\ NewTrick(c) => NewTrick(d)
      /\ Chosen(c) => Chosen(d)
  BY <1>2
  DEF SameTurn, SameFlow, Shows, Resting, Opening, Amid, Piling, Going, Roguish, MoreToShow, NewTrick,
      Chosen
<1>4. d.settings => Fits(d, u)
  BY FitsCarries DEF Ready, SameTurn, SameFlow
<1> QED
  BY <1>1, <1>3, <1>4 DEF Ready, SameTurn, SameFlow

\* A frame takes an update or none, and shows at most the follower.
LEMMA FrameStep ==
  ASSUME NEW elapsed \in BOOLEAN, NEW alt \in BOOLEAN, IInv, Frame(elapsed, alt), ~lost'
  PROVE  IInv' /\ cl'.shown \in {cl.shown, Follower(cl.shown)}
<1>1. ~lost /\ srv' = srv /\ ~lost'
  BY DEF Frame
<1>2. PICK u : Fits(cl, u) /\ Queue(u, cl.views, srv)
  BY <1>1 DEF IInv
<1> DEFINE tossed == TakeConfirmed(cl)
           taken == TakeUpdate(tossed)
           scored == GameUpdate(taken, elapsed)
           begun == PhaseTransition(scored, elapsed)
           passed == PassUpdate(begun, elapsed)
<1>3. cl' = FlowUpdate(passed, elapsed, alt)
  BY DEF Frame
<1>4. Fits(tossed, u) /\ DOMAIN tossed = ClientFields /\ tossed.views = cl.views /\ tossed.shown = cl.shown
  BY <1>2, PassIsAside, FitsCarries DEF Fits, Knows, SameTurn, SameFlow
<1> HIDE DEF tossed
<1> DEFINE v == Head(tossed.views)
<1>5. ASSUME NEW w, DOMAIN taken = ClientFields, Ready(begun, w), begun.shown = cl.shown,
             Queue(w, begun.views, srv), Len(begun.views) <= STATE_QUEUE_CAP
      PROVE  IInv' /\ cl'.shown \in {cl.shown, Follower(cl.shown)}
  <2> HIDE DEF begun
  <2>1. DOMAIN begun = ClientFields
    BY <1>5 DEF Ready, Knows
  <2>2. SameTurn(begun, passed) /\ passed.views = begun.views
    BY <2>1, PassIsAside
  <2> HIDE DEF passed
  <2>3. Ready(passed, w) /\ passed.shown = begun.shown
    BY <1>5, <2>2, ReadyCarries DEF SameTurn, SameFlow
  <2>4. /\ Fits(cl', w) /\ cl'.views = passed.views /\ cl'.shown \in {passed.shown, Follower(passed.shown)}
    BY <1>3, <2>3, FlowFits
  <2> QED
    BY <1>1, <1>5, <2>2, <2>3, <2>4 DEF IInv, Counted, Told
<1>6. CASE SameTurn(tossed, taken) /\ taken.views = tossed.views
  <2>1. Fits(taken, u) /\ DOMAIN taken = ClientFields /\ taken.shown = cl.shown
    BY <1>4, <1>6, FitsCarries DEF SameTurn, SameFlow
  <2> HIDE DEF taken
  <2>2. SameTurn(taken, scored) /\ scored.views = taken.views
    BY <2>1, PassIsAside
  <2> HIDE DEF scored
  <2>3. Fits(scored, u) /\ DOMAIN scored = ClientFields /\ scored.shown = cl.shown
    BY <2>1, <2>2, FitsCarries DEF SameTurn, SameFlow
  <2>4. Begun(scored, begun) /\ (scored.settings => begun.phase = scored.phase)
    BY <2>3, PhaseIsBegun
  <2> HIDE DEF begun
  <2>5. Ready(begun, u) /\ begun.views = cl.views /\ begun.shown = cl.shown
    BY <1>4, <1>6, <2>2, <2>3, <2>4, NothingNew DEF Begun
  <2> QED
    BY <1>1, <1>2, <1>5, <2>1, <2>5 DEF IInv
<1>7. CASE tossed.views # << >> /\ ~Deferred(tossed, v) /\ taken = ApplyUpdate(tossed, v)
  <2>1. /\ DOMAIN v = UpdateFields /\ Told(v) /\ Follows(u, v) /\ Queue(v, Tail(tossed.views), srv)
        /\ Len(Tail(tossed.views)) <= STATE_QUEUE_CAP
    <3>1. /\ Queue(v, Tail(tossed.views), srv) /\ DOMAIN v = UpdateFields /\ Told(v) /\ Follows(u, v)
          /\ Len(cl.views) \in Nat /\ Len(Tail(tossed.views)) = Len(cl.views) - 1
      BY <1>2, <1>4, <1>7, QueueShrinks
    <3>2. Len(cl.views) <= STATE_QUEUE_CAP
      BY <1>1 DEF IInv
    <3> QED
      BY <3>1, <3>2, FlowAssumption
  <2> HIDE DEF v
  <2>2. Applied(tossed, v, taken) /\ taken.views = Tail(tossed.views) /\ DOMAIN taken = ClientFields
    BY <1>4, <1>7, <2>1, UpdateIsApplied DEF Applied
  <2> HIDE DEF taken
  <2>3. SameTurn(taken, scored) /\ scored.views = taken.views
    BY <2>2, PassIsAside
  <2> HIDE DEF scored
  <2>4. Applied(tossed, v, scored) /\ DOMAIN scored = ClientFields
    BY <2>2, <2>3 DEF Applied, SameTurn, SameFlow, SameTrick
  <2>5. Begun(scored, begun)
    BY <2>4, PhaseIsBegun
  <2> HIDE DEF begun
  <2>6. ~tossed.settings
    BY <1>7 DEF Deferred
  <2>7. Ready(begun, v)
    BY <1>4, <1>7, <2>1, <2>4, <2>5, <2>6, NewsOutsidePlay, NewsInPlay
  <2>8. begun.views = Tail(tossed.views) /\ begun.shown = cl.shown
    BY <1>4, <2>2, <2>3, <2>4, <2>5 DEF Begun, Applied
  <2> QED
    BY <1>5, <2>1, <2>2, <2>7, <2>8
<1>8. \/ SameTurn(tossed, taken) /\ taken.views = tossed.views
      \/ tossed.views # << >> /\ ~Deferred(tossed, v) /\ taken = ApplyUpdate(tossed, v)
  <2>1. taken = tossed => SameTurn(tossed, taken) /\ taken.views = tossed.views
    BY <1>4 DEF SameTurn, SameFlow
  <2>2. taken = StartPassAnim(tossed) => SameTurn(tossed, taken) /\ taken.views = tossed.views
    BY <1>4, PassIsAside
  <2> QED
    BY <2>1, <2>2 DEF TakeUpdate
<1> QED
  BY <1>6, <1>7, <1>8

\* The player's clicks show nothing by themselves.
LEMMA PlayerStep ==
  ASSUME IInv, ~lost', ConfirmPass \/ PickOpponent \/ PickSuit \/ ToggleSettings
  PROVE  IInv' /\ cl'.shown = cl.shown
<1>1. ~lost /\ srv' = srv
  BY DEF ConfirmPass, PickOpponent, PickSuit, ToggleSettings
<1>2. PICK u : Fits(cl, u) /\ Queue(u, cl.views, srv)
  BY <1>1 DEF IInv
<1>3. DOMAIN cl = ClientFields
  BY <1>2 DEF Fits, Knows
<1>4. ASSUME Fits(cl', u), cl'.views = cl.views
      PROVE  IInv'
  BY <1>1, <1>2, <1>4 DEF IInv, Counted, Told
<1>5. CASE ConfirmPass
  <2>1. SameTurn(cl, Toss(cl, {0})) /\ Toss(cl, {0}).views = cl.views
    BY <1>3, PassIsAside
  <2>2. SameTurn(cl, cl') /\ cl'.views = cl.views
    BY <1>5, <2>1 DEF ConfirmPass, SameTurn, SameFlow, ClientFields, UpdateFields
  <2> QED
    BY <1>2, <1>4, <2>2, FitsCarries DEF SameTurn, SameFlow
<1>6. CASE PickOpponent \/ PickSuit
  <2>1. /\ cl.step \in {"ROGUE_CHOOSING", "ROGUE_SUIT_CHOOSING"}
        /\ \E step \in RogueChoice : cl' = [cl EXCEPT !.step = step]
    BY <1>6 DEF PickOpponent, PickSuit, RogueChoice
  <2>2. cl.phase = "PLAYING" /\ Roguish(cl, u)
    BY <1>2, <2>1 DEF Fits, Shows, Resting, Opening, Amid, Piling, Going
  <2>3. /\ SameGame(cl, cl') /\ cl'.step \in RogueChoice /\ cl'.saved = cl.saved /\ cl'.shown = cl.shown
    BY <1>3, <2>1 DEF SameGame, ClientFields, UpdateFields
  <2>4. Knows(cl', u) /\ Roguish(cl', u)
    BY <1>2, <2>1, <2>2, <2>3, KnowsCarries
    DEF Fits, Roguish, ShowsBefore, SameGame, RogueChoice, RogueShown
  <2> QED
    BY <1>4, <2>2, <2>3, <2>4 DEF Fits, Shows, SameGame
<1>7. CASE ToggleSettings
  <2>1. SameFlow(cl, cl') /\ cl'.views = cl.views
    BY <1>3, <1>7 DEF ToggleSettings, SameFlow, ClientFields, UpdateFields
  <2> QED
    BY <1>2, <1>4, <2>1, FitsCarries DEF SameFlow
<1> QED
  BY <1>5, <1>6, <1>7

-----------------------------------------------------------------------------
(* The theorem *)

\* At first the client shows the menu, and the first update waits.
LEMMA Initially == Init => IInv
<1> SUFFICES ASSUME Init
             PROVE  IInv
  OBVIOUS
<1> DEFINE first == View(srv)
           u == [phase |-> "ONLINE_MENU", round |-> 0, tricks_played |-> 0, num_played |-> 0, pending |-> NoSeat]
<1>1. /\ srv.phase \in {"DEALING", "PLAYING"} /\ srv.round = 1 /\ srv.tricks_played = 0
      /\ srv.num_played = 0 /\ srv.pending = NoSeat /\ srv.rogues = 0 /\ DOMAIN srv = GameFields
  BY DEF Init, ServerStart, GameFields, UpdateFields
<1>2. Told(srv) /\ Counted(srv)
  BY <1>1, FlowAssumption DEF Told, Counted, Dealt, Over, CARDS_PER_TRICK
<1>3. DOMAIN first = UpdateFields /\ Told(first) /\ Agrees(first, srv) /\ Starts(u, first)
  BY <1>1, <1>2, ViewOf DEF Told, Agrees, SameTrick, Starts
<1>4. cl.views = <<first>>
  BY DEF Init
<1> HIDE DEF first
<1>5. Queue(u, cl.views, srv) /\ Len(cl.views) <= STATE_QUEUE_CAP
  <2>1. <<first>> \in Seq({first}) /\ Len(<<first>>) = 1 /\ <<first>>[1] = first /\ <<first>> # << >>
    OBVIOUS
  <2>2. Follows(u, first)
    BY <1>3 DEF Follows
  <2>3. \A i \in 1 .. 1 : i = 1
    OBVIOUS
  <2> HIDE DEF u
  <2>4. Queue(u, <<first>>, srv)
    BY <1>3, <2>1, <2>2, <2>3 DEF Queue
  <2> QED
    BY <1>4, <2>1, <2>4, FlowAssumption
<1>6. Fits(cl, u)
  <2>1. /\ DOMAIN cl = ClientFields /\ cl.phase = "ONLINE_MENU" /\ cl.prev_phase = "ONLINE_MENU"
        /\ cl.round = 0 /\ cl.tricks_played = 0 /\ cl.num_played = 0 /\ cl.pending = NoSeat
        /\ cl.step = "IDLE" /\ cl.saved = NoTrick /\ cl.shown = <<0, TricksPerRound - 1, Piled>>
    BY DEF Init, ClientFields, UpdateFields
  <2>2. Told(u)
    BY FlowAssumption DEF Told, Dealt, Over, CARDS_PER_TRICK
  <2>3. cl.shown = Before(1, 0)
    BY <2>1 DEF Before
  <2> QED
    BY <2>1, <2>2, <2>3 DEF Fits, Knows, SameTrick, Dealt, Over
<1> QED
  BY <1>2, <1>5, <1>6 DEF IInv

\* Every step keeps the invariant and shows at most the follower.
LEMMA StepKeeps ==
  ASSUME IInv, [Next]_vars
  PROVE  IInv' /\ (~lost' => cl'.shown \in {cl.shown, Follower(cl.shown)})
<1>1. CASE UNCHANGED vars
  BY <1>1 DEF vars, IInv, Fits, Knows, Shows, Queue
<1>2. CASE lost'
  BY <1>2 DEF IInv
<1>3. CASE Next /\ ~lost'
  <2>1. CASE Server
    BY <1>3, <2>1, ServerStep
  <2>2. CASE Frames
    BY <1>3, <2>2, FrameStep DEF Frames
  <2>3. CASE ConfirmPass \/ PickOpponent \/ PickSuit \/ ToggleSettings
    BY <1>3, <2>3, PlayerStep
  <2>4. CASE Ended
    BY <1>1, <2>4 DEF Ended
  <2> QED
    BY <1>3, <2>1, <2>2, <2>3, <2>4 DEF Next
<1> QED
  BY <1>1, <1>2, <1>3

\* The scores come when the round's last pile has been shown.
LEMMA ScoresAreLast ==
  IInv => (~lost /\ cl.phase = "SCORING" => cl.shown = <<cl.round, TricksPerRound - 1, Piled>>)
<1> SUFFICES ASSUME IInv, ~lost, cl.phase = "SCORING"
             PROVE  cl.shown = <<cl.round, TricksPerRound - 1, Piled>>
  OBVIOUS
<1>1. PICK u : Fits(cl, u)
  BY DEF IInv
<1>2. ShowsBefore(cl) /\ cl.tricks_played = TricksPerRound
  BY <1>1 DEF Fits, Knows, Told, SameTrick, Dealt, Over
<1> QED
  BY <1>2, FlowAssumption DEF ShowsBefore, Before

\* For any round and any queue: as long as no update is lost, the cards are shown one by one
\* in the order of play, each trick is piled up when it is whole, and the scores come last
\* (flow_update with the deferral of updates in main.c).
THEOREM CardsAreShownInOrder == Spec => CardsShownInOrder
<1>1. Init => IInv
  BY Initially
<1>2. IInv /\ [Next]_vars => IInv'
  BY StepKeeps
<1>3. IInv /\ [Next]_vars => [~lost' => cl'.shown \in {cl.shown, Follower(cl.shown)}]_vars
  BY StepKeeps
<1>4. IInv => (~lost /\ cl.phase = "SCORING" => cl.shown = <<cl.round, TricksPerRound - 1, Piled>>)
  BY ScoresAreLast
<1> QED
  BY <1>1, <1>2, <1>3, <1>4, PTL DEF Spec, CardsShownInOrder

=============================================================================
