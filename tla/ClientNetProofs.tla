---------------------------- MODULE ClientNetProofs ----------------------------
(*****************************************************************************)
(* What holds of ClientNet for any game, any number of rooms, seats, breaks  *)
(* and restarts: views are shown in the order they were made, the token the  *)
(* client keeps opens its seat, a view shows nothing of the others', the     *)
(* client shows the game as its seat sees it, and its hand stays in the      *)
(* order the player has put it.                                              *)
(*                                                                           *)
(* The first two need to know where a handshake stands: which messages can   *)
(* be in flight, whose seat is bound to the connection, and that every view  *)
(* on its way is of a room that had started when it was sent. The last two   *)
(* also need to know that every view on its way was made for the seat the    *)
(* client is in, and what the copy it holds mirrors (SeatInv).               *)
(*****************************************************************************)
EXTENDS ClientNet, FiniteSetTheorems, TLAPS

Token == Nat \X Nat
SeatSlot == [status : {"EMPTY", "CONNECTED", "AWAY", "OTHER"}, token : Token, mine : BOOLEAN]
ServerRoom ==
  [status : {"WAITING", "PLAYING", "GONE"}, version : 0 .. Len(Story), joins : Nat,
   confirmed : SUBSET PlayerSeats, slots : [JoinSeats -> SeatSlot]]
SavedInfo == [valid : BOOLEAN, room : RoomIds \cup {0}, token : Token]
Ordered(s) == s \in Seq(Range(s))

Types ==
  /\ g_room \in RoomIds \cup {0} /\ g_session_token \in Token /\ saved \in SavedInfo
  /\ Ordered(g_view_queue)
  /\ DOMAIN conn = {"st", "up", "down", "closing"} /\ Ordered(conn.down)
  /\ rooms \in [RoomIds -> ServerRoom]

-----------------------------------------------------------------------------
(* The handshake.                                                            *)

Answers == {"HANDSHAKE_ACK", "HANDSHAKE_REJECT"}

\* The server has accepted, and the client does not know it yet.
Greeted ==
  g_state = "HANDSHAKING" /\ conn.down # << >> /\ conn.down[1].type = "HANDSHAKE_ACK"

\* The token the client has, or will have as soon as it has read what was sent.
Due == IF Greeted THEN conn.down[1].token ELSE g_session_token

\* One handshake is under way at a time; its answer comes first, to a client that
\* waits for it and has no views.
HandshakeOK ==
  /\ g_room = 0 => g_state = "DISCONNECTED"
  /\ conn.st # "OPEN" => conn.up = << >> /\ conn.down = << >>
  /\ conn.up # << >> =>
       /\ g_state = "HANDSHAKING" /\ conn.down = << >>
       /\ conn.up = << [room |-> g_room, token |-> g_session_token] >>
  /\ g_state = "HANDSHAKING" /\ conn.down # << >> => conn.down[1].type \in Answers
  /\ \A n \in DOMAIN conn.down :
       /\ conn.down[n].type \in Answers => n = 1 /\ g_state = "HANDSHAKING"
       /\ conn.down[n].type = "HANDSHAKE_ACK" => conn.down[n].token \in Token
  /\ g_state \in {"CONNECTING", "RECONNECTING"} => conn.down = << >>
  /\ g_state \in {"CONNECTING", "RECONNECTING", "HANDSHAKING"} => g_view_queue = << >>

\* A seat bound to the connection is of the client's room, and its token is the one the
\* client has or is about to get.
BoundOK ==
  \A r \in RoomIds, s \in JoinSeats :
    rooms[r].slots[s].mine =>
      /\ r = g_room /\ conn.st = "OPEN" /\ conn.up = << >>
      /\ rooms[r].slots[s].status = "CONNECTED" /\ rooms[r].slots[s].token = Due
      /\ g_state = "CONNECTED" \/ Greeted

-----------------------------------------------------------------------------
(* The views.                                                                *)

\* What is on its way to the screen: <<room, version>>, of the queue and in flight.
Updates(ms) == {n \in DOMAIN ms : ms[n].type = "STATE_UPDATE"}
Coming == {g_view_queue[i].of : i \in DOMAIN g_view_queue}
     \cup {conn.down[n].update.of : n \in Updates(conn.down)}

OrderOK ==
  /\ \A i, j \in DOMAIN g_view_queue : i <= j => g_view_queue[i].of[2] <= g_view_queue[j].of[2]
  /\ \A m, n \in Updates(conn.down) :
       m <= n => conn.down[m].update.of[2] <= conn.down[n].update.of[2]
  /\ \A i \in DOMAIN g_view_queue, n \in Updates(conn.down) :
       g_view_queue[i].of[2] <= conn.down[n].update.of[2]
  /\ \A v \in Coming : v[1] = g_room /\ v[2] \in Nat /\ (shown[1] = g_room => shown[2] <= v[2])
  /\ shown[1] \in RoomIds \cup {0} /\ shown[2] \in Nat

\* What was made of a room had been started, and is not ahead of it.
Made(v) ==
  v[1] \in RoomIds =>
    /\ rooms[v[1]].status # "WAITING"
    /\ rooms[v[1]].status = "PLAYING" => v[2] <= rooms[v[1]].version
MadeOK == Made(shown) /\ \A v \in Coming : Made(v)

\* A token that opens the seat it was given for, as long as its room plays; a room that
\* waits might still give the seat to somebody else.
Held(room, token) ==
  room \in RoomIds /\ rooms[room].status # "WAITING" /\ Opens(room, token)
HeldOK ==
  /\ gs # NoGame \/ Coming # {} => Held(g_room, Due)
  /\ gs # NoGame => Due = g_session_token
  /\ saved.valid => Held(saved.room, saved.token)

IInv == Types /\ HandshakeOK /\ BoundOK /\ OrderOK /\ MadeOK /\ HeldOK

-----------------------------------------------------------------------------
(* The seat.                                                                 *)

\* A view of one of the game's states, from the seat.
MadeView(update, seat) ==
  /\ update.of[2] \in DOMAIN Story
  /\ \E ready \in [PlayerSeats -> BOOLEAN] :
       update.view = BuildPlayerView([Story[update.of[2]] EXCEPT !.ready = ready], seat)

\* The client is at a seat, or will be as soon as it has read what was sent; and which.
Seated == g_state = "CONNECTED" \/ Greeted
DueSeat == IF Greeted THEN conn.down[1].seat ELSE g_seat

\* In a room that plays, the seat is the one that the client's token opens.
HasSeat(seat) ==
  rooms[g_room].status = "PLAYING" =>
    /\ rooms[g_room].slots[seat].status \in {"CONNECTED", "AWAY"}
    /\ rooms[g_room].slots[seat].token = Due

\* What is bound to the connection and what is on its way is of the client's seat.
SeatedOK ==
  Seated =>
    /\ DueSeat \in JoinSeats
    /\ \A r \in RoomIds, s \in JoinSeats : rooms[r].slots[s].mine => s = DueSeat
    /\ \A i \in DOMAIN g_view_queue : MadeView(g_view_queue[i], DueSeat)
    /\ \A n \in Updates(conn.down) : MadeView(conn.down[n].update, DueSeat)
    /\ Coming # {} => HasSeat(DueSeat)

\* A copy c of the game g, as seen from the seat: the arrangement of the hand, the passes
\* confirmed and, when it is ahead, a transmutation that the server has not answered are
\* the player's own.
SlotsSeen(g, seat) == [i \in DOMAIN g.slots[seat] |-> ApplyTransmuteSlot(g.slots[seat][i], seat)]
Mirrors(c, g, seat, ahead) ==
  /\ {"phase2", "table", "trick", "ready", "hand", "p2"} \subseteq DOMAIN c
  /\ c.phase2 = g.phase2
  /\ \A p \in PlayerSeats : c.table[p] = g.table[ServerSeat(p, seat)]
  /\ c.trick = ApplyTrick(ViewOfTrick(g.trick), seat)
  /\ Ordered(c.hand)
  /\ g.phase2 =>
       /\ {"slots", "inv", "duel", "pending", "effects"} \subseteq DOMAIN c.p2
       /\ c.p2.duel.target = RemapSeat(g.duel.target, seat)
       /\ c.p2.pending = RemapSeat(g.pending, seat)
       /\ c.p2.effects = ApplyEffects(g.effects, seat)
       /\ Ordered(c.p2.slots) /\ Len(c.p2.slots) = Len(c.hand)
       /\ ~ahead => PairCounts(c.hand, c.p2.slots) = PairCounts(g.hand[seat], SlotsSeen(g, seat))

\* What is shown is a copy of one of the game's states, from the client's seat.
ShownFrom(seat) == Mirrors(gs, Story[shown[2]], seat, guess)
ShownOK ==
  gs # NoGame =>
    /\ shown[2] \in DOMAIN Story
    /\ \E seat \in JoinSeats : ShownFrom(seat) /\ HasSeat(seat) /\ (Seated => DueSeat = seat)

\* A room that plays is at one of the game's states, and no two of its players have the
\* same token.
RoomsOK ==
  \A r \in RoomIds :
    /\ rooms[r].status = "PLAYING" => rooms[r].version \in DOMAIN Story
    /\ \A s \in JoinSeats : rooms[r].slots[s].token[2] <= rooms[r].joins
    /\ \A s, t \in JoinSeats :
         /\ rooms[r].slots[s].status \in {"CONNECTED", "AWAY"}
         /\ rooms[r].slots[t].status \in {"CONNECTED", "AWAY"}
         /\ rooms[r].slots[s].token = rooms[r].slots[t].token
         => s = t

SeatInv == IInv /\ SeatedOK /\ ShownOK /\ RoomsOK

-----------------------------------------------------------------------------
(* Sequences.                                                                *)

LEMMA Nothing == Ordered(<< >>) /\ Updates(<< >>) = {}
<1>1. Range(<< >>) = {} /\ << >> \in Seq({})
  BY DEF Range
<1> QED
  BY <1>1 DEF Ordered, Updates

\* A sequence is one of its own elements, whatever set it was a sequence of.
LEMMA OfItsOwn ==
  ASSUME NEW S, NEW s \in Seq(S)
  PROVE  Ordered(s)
<1>1. Len(s) \in Nat /\ DOMAIN s = 1 .. Len(s) /\ s = [n \in 1 .. Len(s) |-> s[n]]
  OBVIOUS
<1>2. \A n \in 1 .. Len(s) : s[n] \in Range(s)
  BY <1>1 DEF Range
<1> QED
  BY <1>1, <1>2 DEF Ordered

\* What is left when the first is taken.
LEMMA Behead ==
  ASSUME NEW s, Ordered(s), s # << >>
  PROVE  /\ 1 \in DOMAIN s /\ Head(s) = s[1] /\ DOMAIN s = 1 .. Len(s) /\ Len(s) \in Nat
         /\ Ordered(Tail(s)) /\ DOMAIN Tail(s) = 1 .. Len(s) - 1
         /\ \A n \in DOMAIN Tail(s) : n + 1 \in DOMAIN s /\ n + 1 # 1 /\ Tail(s)[n] = s[n + 1]
<1> DEFINE S == Range(s)
<1>1. s \in Seq(S)
  BY DEF Ordered
<1> HIDE DEF S
<1>2. /\ 1 \in DOMAIN s /\ Head(s) = s[1] /\ DOMAIN s = 1 .. Len(s) /\ Len(s) \in Nat
      /\ Tail(s) \in Seq(S) /\ DOMAIN Tail(s) = 1 .. Len(s) - 1
      /\ \A n \in DOMAIN Tail(s) : n + 1 \in DOMAIN s /\ n + 1 # 1 /\ Tail(s)[n] = s[n + 1]
  BY <1>1
<1> QED
  BY <1>2, OfItsOwn

\* One sequence after another.
LEMMA Joined ==
  ASSUME NEW s, NEW t, Ordered(s), Ordered(t)
  PROVE  /\ Ordered(s \o t) /\ Len(s) \in Nat /\ DOMAIN s = 1 .. Len(s)
         /\ Len(t) \in Nat /\ DOMAIN t = 1 .. Len(t)
         /\ DOMAIN (s \o t) = 1 .. Len(s) + Len(t)
         /\ \A n \in DOMAIN s : n \in DOMAIN (s \o t) /\ (s \o t)[n] = s[n]
         /\ \A n \in DOMAIN (s \o t) :
              n \in DOMAIN s \/ (n > Len(s) /\ n - Len(s) \in DOMAIN t
                                 /\ (s \o t)[n] = t[n - Len(s)])
<1> DEFINE S == Range(s) \cup Range(t)
<1>1. s \in Seq(S) /\ t \in Seq(S)
  BY DEF Ordered
<1> HIDE DEF S
<1>2. s \o t \in Seq(S)
  BY <1>1
<1>3. Ordered(s \o t)
  BY <1>2, OfItsOwn
<1>4. /\ Len(s) \in Nat /\ DOMAIN s = 1 .. Len(s)
      /\ Len(t) \in Nat /\ DOMAIN t = 1 .. Len(t)
      /\ DOMAIN (s \o t) = 1 .. Len(s) + Len(t)
  BY <1>1
<1>5. \A n \in 1 .. Len(s) + Len(t) :
        (s \o t)[n] = IF n <= Len(s) THEN s[n] ELSE t[n - Len(s)]
  BY <1>1
<1> DEFINE both == s \o t
           m == Len(s)
           k == Len(t)
<1> HIDE DEF both, m, k
<1>6. /\ m \in Nat /\ DOMAIN s = 1 .. m /\ k \in Nat /\ DOMAIN t = 1 .. k
      /\ DOMAIN both = 1 .. m + k
      /\ \A n \in 1 .. m + k : both[n] = IF n <= m THEN s[n] ELSE t[n - m]
  BY <1>4, <1>5 DEF both, m, k
<1>7. /\ \A n \in DOMAIN s : n \in DOMAIN both /\ both[n] = s[n]
      /\ \A n \in DOMAIN both :
           n \in DOMAIN s \/ (n > m /\ n - m \in DOMAIN t /\ both[n] = t[n - m])
  BY ONLY <1>6
<1> QED
  BY <1>3, <1>4, <1>7 DEF both, m, k

LEMMA Added ==
  ASSUME NEW s, NEW e, Ordered(s)
  PROVE  /\ Ordered(Append(s, e)) /\ DOMAIN s = 1 .. Len(s) /\ Len(s) \in Nat
         /\ DOMAIN Append(s, e) = 1 .. Len(s) + 1
         /\ \A n \in DOMAIN s : Append(s, e)[n] = s[n]
         /\ Append(s, e)[Len(s) + 1] = e
<1> DEFINE S == Range(s) \cup {e}
<1>1. s \in Seq(S) /\ e \in S
  BY DEF Ordered
<1> HIDE DEF S
<1>2. Append(s, e) \in Seq(S)
  BY <1>1
<1>3. Ordered(Append(s, e))
  BY <1>2, OfItsOwn
<1>4. /\ DOMAIN s = 1 .. Len(s) /\ Len(s) \in Nat
      /\ DOMAIN Append(s, e) = 1 .. Len(s) + 1
      /\ \A n \in 1 .. Len(s) : Append(s, e)[n] = s[n]
      /\ Append(s, e)[Len(s) + 1] = e
  BY <1>1
<1> QED
  BY <1>3, <1>4

-----------------------------------------------------------------------------
(* Rooms go on.                                                              *)

\* A room that has started never waits again, one that plays does not go back, and a
\* seat somebody has taken in it stays with its token.
RoomsGoOn ==
  \A r \in RoomIds :
    /\ rooms'[r].status = "WAITING" => rooms[r].status = "WAITING"
    /\ rooms'[r].status = "PLAYING" /\ rooms[r].status # "WAITING" =>
         /\ rooms[r].status = "PLAYING" /\ rooms[r].version <= rooms'[r].version
         /\ \A s \in JoinSeats :
              rooms[r].slots[s].status \in {"CONNECTED", "AWAY"} =>
                /\ rooms'[r].slots[s].status \in {"CONNECTED", "AWAY"}
                /\ rooms'[r].slots[s].token = rooms[r].slots[s].token

LEMMA StaysMade ==
  ASSUME rooms \in [RoomIds -> ServerRoom], rooms' \in [RoomIds -> ServerRoom], RoomsGoOn,
         NEW v, v[2] \in Nat, Made(v)
  PROVE  Made(v)'
<1> SUFFICES ASSUME v[1] \in RoomIds
             PROVE  /\ rooms'[v[1]].status # "WAITING"
                    /\ rooms'[v[1]].status = "PLAYING" => v[2] <= rooms'[v[1]].version
  BY DEF Made
<1>1. rooms[v[1]].version \in Nat /\ rooms'[v[1]].version \in Nat
  BY DEF ServerRoom
<1>2. /\ rooms[v[1]].status # "WAITING"
      /\ rooms[v[1]].status = "PLAYING" => v[2] <= rooms[v[1]].version
  BY DEF Made
<1> QED
  BY <1>1, <1>2 DEF RoomsGoOn

LEMMA StaysHeld ==
  ASSUME RoomsGoOn, NEW room, NEW token, Held(room, token)
  PROVE  Held(room, token)'
<1>1. rooms[room].status # "WAITING" /\ room \in RoomIds
  BY DEF Held
<1>2. CASE rooms'[room].status # "PLAYING"
  BY <1>1, <1>2 DEF Held, Opens, RoomsGoOn
<1>3. CASE rooms'[room].status = "PLAYING"
  <2>1. rooms[room].status = "PLAYING"
    BY <1>1, <1>3 DEF RoomsGoOn
  <2>2. PICK s \in JoinSeats : /\ rooms[room].slots[s].token = token
                               /\ rooms[room].slots[s].status \in {"CONNECTED", "AWAY"}
    BY <2>1 DEF Held, Opens
  <2> QED
    BY <1>1, <1>3, <2>1, <2>2 DEF Held, Opens, RoomsGoOn
<1> QED
  BY <1>2, <1>3

LEMMA UnboundSlot ==
  ASSUME NEW q \in SeatSlot
  PROVE  LET n == [q EXCEPT !.mine = FALSE]
         IN  n \in SeatSlot /\ ~n.mine /\ n.status = q.status /\ n.token = q.token
BY DEF SeatSlot

LEMMA UnboundRoom ==
  ASSUME NEW q \in ServerRoom, NEW f \in [JoinSeats -> SeatSlot]
  PROVE  LET n == [q EXCEPT !.slots = f]
         IN  /\ n \in ServerRoom /\ n.slots = f
             /\ n.status = q.status /\ n.version = q.version /\ q.version \in Nat
BY DEF ServerRoom

LEMMA HeldGoesOn ==
  ASSUME RoomsGoOn, g_room' = g_room, Due' = Due, Held(g_room, Due)
  PROVE  Held(g_room, Due)'
<1>1. \A room, token : Held(room, token) => Held(room, token)'
  BY StaysHeld
<1>2. \A room, token :
        Held(room, token) =>
          /\ room \in RoomIds /\ rooms'[room].status # "WAITING"
          /\ rooms'[room].status = "PLAYING" =>
               \E s \in JoinSeats : /\ rooms'[room].slots[s].token = token
                                    /\ rooms'[room].slots[s].status \in {"CONNECTED", "AWAY"}
  BY <1>1 DEF Held, Opens
<1>3. /\ g_room \in RoomIds /\ rooms'[g_room].status # "WAITING"
      /\ rooms'[g_room].status = "PLAYING" =>
           \E s \in JoinSeats : /\ rooms'[g_room].slots[s].token = Due
                                /\ rooms'[g_room].slots[s].status \in {"CONNECTED", "AWAY"}
  BY <1>2
<1> QED
  BY <1>3 DEF Held, Opens

\* Of a server that only loses sight of this client's connection.
LEMMA UnboundIsTyped ==
  ASSUME rooms \in [RoomIds -> ServerRoom], rooms' \in {rooms, Unbound}
  PROVE  /\ rooms' \in [RoomIds -> ServerRoom] /\ RoomsGoOn
         /\ rooms' = Unbound => \A r \in RoomIds, s \in JoinSeats : ~rooms'[r].slots[s].mine
<1>1. CASE rooms' = rooms
  <2>1. \A r \in RoomIds : rooms[r].version \in Nat
    BY DEF ServerRoom
  <2>2. RoomsGoOn
    BY <1>1, <2>1 DEF RoomsGoOn
  <2>3. rooms' = Unbound => \A r \in RoomIds, s \in JoinSeats : ~rooms'[r].slots[s].mine
    BY DEF Unbound, ServerRoom, SeatSlot
  <2> QED
    BY <1>1, <2>2, <2>3
<1>2. CASE rooms' = Unbound
  <2> DEFINE f(r) == [s \in JoinSeats |-> [rooms[r].slots[s] EXCEPT !.mine = FALSE]]
  <2>1. \A r \in RoomIds : rooms[r] \in ServerRoom /\ rooms'[r] = [rooms[r] EXCEPT !.slots = f(r)]
    BY <1>2 DEF Unbound
  <2>2. \A r \in RoomIds, s \in JoinSeats :
          /\ rooms[r].slots[s] \in SeatSlot
          /\ f(r)[s] = [rooms[r].slots[s] EXCEPT !.mine = FALSE]
    BY <2>1 DEF ServerRoom
  <2>3. \A r \in RoomIds, s \in JoinSeats :
          /\ f(r)[s] \in SeatSlot /\ ~f(r)[s].mine
          /\ f(r)[s].status = rooms[r].slots[s].status
          /\ f(r)[s].token = rooms[r].slots[s].token
    BY <2>2, UnboundSlot
  <2>4. \A r \in RoomIds : f(r) \in [JoinSeats -> SeatSlot]
    BY <2>3
  <2> HIDE DEF f
  <2>5. \A r \in RoomIds :
          /\ rooms'[r] \in ServerRoom /\ rooms'[r].slots = f(r)
          /\ rooms'[r].status = rooms[r].status /\ rooms'[r].version = rooms[r].version
          /\ rooms[r].version \in Nat
    <3> SUFFICES ASSUME NEW r \in RoomIds
                 PROVE  /\ rooms'[r] \in ServerRoom /\ rooms'[r].slots = f(r)
                        /\ rooms'[r].status = rooms[r].status
                        /\ rooms'[r].version = rooms[r].version
                        /\ rooms[r].version \in Nat
      OBVIOUS
    <3> DEFINE q == rooms[r]
               g == f(r)
    <3>1. q \in ServerRoom /\ g \in [JoinSeats -> SeatSlot] /\ rooms'[r] = [q EXCEPT !.slots = g]
      BY <2>1, <2>4
    <3> HIDE DEF q, g
    <3>2. LET n == [q EXCEPT !.slots = g]
          IN  /\ n \in ServerRoom /\ n.slots = g
              /\ n.status = q.status /\ n.version = q.version /\ q.version \in Nat
      BY <3>1, UnboundRoom
    <3> QED
      BY <3>1, <3>2 DEF q, g
  <2>6. \A r \in RoomIds, s \in JoinSeats :
          /\ ~rooms'[r].slots[s].mine
          /\ rooms'[r].slots[s].status = rooms[r].slots[s].status
          /\ rooms'[r].slots[s].token = rooms[r].slots[s].token
    BY <2>3, <2>5
  <2>7. rooms' \in [RoomIds -> ServerRoom]
    BY <1>2, <2>5 DEF Unbound
  <2>8. RoomsGoOn
    BY <2>5, <2>6 DEF RoomsGoOn
  <2> QED
    BY <2>6, <2>7, <2>8
<1> QED
  BY <1>1, <1>2

-----------------------------------------------------------------------------
(* What a step leaves behind.                                                *)

\* The screen and the menu: nothing is received, and no game comes up.
ScreenOnly ==
  /\ UNCHANGED <<g_state, g_seat, g_room, g_session_token, g_view_queue, conn, rooms>>
  /\ gs' # NoGame => gs # NoGame
  /\ shown' \in {shown, <<0, 0>>} /\ saved' \in {saved, NoSaved}

LEMMA NoSavedIsTyped == NoSaved \in SavedInfo /\ ~NoSaved.valid
BY DEF NoSaved, SavedInfo, NoToken, Token

LEMMA OnTheScreen ==
  ASSUME IInv, ScreenOnly
  PROVE  IInv'
<1> USE DEF IInv
<1>1. Types'
  BY NoSavedIsTyped DEF ScreenOnly, Types
<1>2. HandshakeOK'
  BY DEF ScreenOnly, HandshakeOK
<1>3. Greeted' = Greeted /\ Due' = Due /\ Coming' = Coming
  BY DEF ScreenOnly, Greeted, Due, Coming
<1>4. BoundOK'
  BY <1>3 DEF ScreenOnly, BoundOK
<1>5. \A v : Made(v)' = Made(v)
  BY DEF ScreenOnly, Made
<1>6. \A room, token : Held(room, token)' = Held(room, token)
  BY DEF ScreenOnly, Held, Opens
<1>7. shown' = shown \/ (shown'[1] = 0 /\ shown'[2] = 0)
  BY DEF ScreenOnly
<1>8. OrderOK'
  <2>1. \A v \in Coming : shown'[1] = g_room => shown'[2] <= v[2]
    BY <1>7 DEF OrderOK
  <2>2. shown'[1] \in RoomIds \cup {0} /\ shown'[2] \in Nat
    BY <1>7 DEF OrderOK
  <2>3. g_room' = g_room /\ g_view_queue' = g_view_queue /\ conn' = conn
    BY DEF ScreenOnly
  <2> QED
    BY <1>3, <2>1, <2>2, <2>3 DEF OrderOK
<1>9. MadeOK'
  <2>1. 0 \notin RoomIds
    BY DEF RoomIds
  <2>2. Made(shown)'
    BY <1>7, <2>1 DEF Made, MadeOK, ScreenOnly
  <2>3. \A v \in Coming' : Made(v)'
    BY <1>3, <1>5 DEF MadeOK
  <2> QED
    BY <2>2, <2>3 DEF MadeOK
<1>10. HeldOK'
  BY <1>3, <1>6, NoSavedIsTyped DEF ScreenOnly, HeldOK
<1> QED
  BY <1>1, <1>2, <1>4, <1>8, <1>9, <1>10

\* The connection is gone, or a new one is opened: nothing is under way on it, and what
\* waited is kept, or thrown away by a client that begins anew.
HangsUp ==
  /\ DOMAIN conn' = {"st", "up", "down", "closing"}
  /\ conn'.st # "OPEN" /\ conn'.up = << >> /\ conn'.down = << >>
  /\ rooms' = Unbound \/ (rooms' = rooms /\ conn.st # "OPEN")
  /\ g_view_queue' \in {g_view_queue, << >>}
  /\ g_state' \in {"CONNECTING", "RECONNECTING", "HANDSHAKING"} => g_view_queue' = << >>
  /\ g_room' = 0 => g_state' = "DISCONNECTED"
  /\ g_state' = "CONNECTED" => g_state = "CONNECTED" /\ g_seat' = g_seat
  /\ \/ /\ g_room' = g_room /\ g_session_token' = g_session_token
        /\ gs' # NoGame => gs # NoGame
     \/ /\ g_room' \in RoomIds \cup {0} /\ g_session_token' \in Token
        /\ gs' = NoGame /\ g_view_queue' = << >>
  /\ shown' \in {shown, <<0, 0>>} /\ saved' \in {saved, NoSaved}

LEMMA HungUp ==
  ASSUME IInv, HangsUp
  PROVE  IInv'
<1> USE DEF IInv
<1>1. /\ rooms' \in [RoomIds -> ServerRoom] /\ RoomsGoOn
      /\ \A r \in RoomIds, s \in JoinSeats : ~rooms'[r].slots[s].mine
  <2>1. rooms \in [RoomIds -> ServerRoom] /\ rooms' \in {rooms, Unbound}
    BY DEF Types, HangsUp
  <2>2. rooms' = rooms => \A r \in RoomIds, s \in JoinSeats : ~rooms'[r].slots[s].mine
    <3>1. CASE conn.st # "OPEN"
      BY <3>1 DEF BoundOK
    <3>2. CASE rooms' = Unbound
      BY <2>1, <3>2, UnboundIsTyped
    <3> QED
      BY <3>1, <3>2 DEF HangsUp
  <2> QED
    BY <2>1, <2>2, UnboundIsTyped
<1>2. Types'
  <2>1. g_room' \in RoomIds \cup {0} /\ g_session_token' \in Token
    BY DEF HangsUp, Types
  <2>2. Ordered(g_view_queue') /\ Ordered(conn'.down)
    BY Nothing DEF HangsUp, Types
  <2>3. saved' \in SavedInfo
    BY NoSavedIsTyped DEF HangsUp, Types
  <2> QED
    BY <1>1, <2>1, <2>2, <2>3 DEF HangsUp, Types
<1>3. HandshakeOK'
  BY DEF HangsUp, HandshakeOK
<1>4. ~Greeted' /\ Due' = g_session_token'
  BY DEF HangsUp, Greeted, Due
<1>5. BoundOK'
  BY <1>1 DEF BoundOK
<1>6. /\ Coming' = {g_view_queue'[i].of : i \in DOMAIN g_view_queue'}
      /\ g_view_queue' = << >> => Coming' = {}
  BY Nothing DEF HangsUp, Coming
<1>7. Coming' # {} => /\ g_view_queue' = g_view_queue /\ Coming' \subseteq Coming
                      /\ g_room' = g_room /\ Due = g_session_token /\ Due' = Due
  <2>1. g_view_queue # << >> => ~Greeted
    BY DEF HandshakeOK, Greeted
  <2>2. Coming' # {} => g_view_queue' = g_view_queue /\ g_view_queue # << >>
    BY <1>6 DEF HangsUp
  <2>3. g_view_queue' = g_view_queue => Coming' \subseteq Coming
    BY <1>6 DEF Coming
  <2> QED
    BY <1>4, <1>6, <2>1, <2>2, <2>3 DEF HangsUp, Due
<1>8. shown' = shown \/ (shown'[1] = 0 /\ shown'[2] = 0)
  BY DEF HangsUp
<1>9. OrderOK'
  <2>1. \A i, j \in DOMAIN g_view_queue' : i <= j => g_view_queue'[i].of[2] <= g_view_queue'[j].of[2]
    BY DEF HangsUp, OrderOK
  <2>2. Updates(conn'.down) = {}
    BY Nothing DEF HangsUp
  <2>3. \A v \in Coming' : /\ v[1] = g_room' /\ v[2] \in Nat
                           /\ shown'[1] = g_room' => shown'[2] <= v[2]
    <3> SUFFICES ASSUME NEW v \in Coming'
                 PROVE  /\ v[1] = g_room' /\ v[2] \in Nat
                        /\ shown'[1] = g_room' => shown'[2] <= v[2]
      OBVIOUS
    <3>1. v \in Coming /\ g_room' = g_room
      BY <1>7
    <3>2. v[1] = g_room /\ v[2] \in Nat /\ (shown[1] = g_room => shown[2] <= v[2])
      BY <3>1 DEF OrderOK
    <3> QED
      BY <1>8, <3>1, <3>2
  <2>4. shown'[1] \in RoomIds \cup {0} /\ shown'[2] \in Nat
    BY <1>8 DEF OrderOK
  <2> QED
    BY <2>1, <2>2, <2>3, <2>4 DEF OrderOK
<1>10. MadeOK'
  <2>1. 0 \notin RoomIds
    BY DEF RoomIds
  <2>2. Made(shown)'
    <3>1. CASE shown' = shown
      <4>1. Made(shown) /\ shown[2] \in Nat /\ rooms \in [RoomIds -> ServerRoom]
        BY DEF MadeOK, OrderOK, Types
      <4> DEFINE v == shown
      <4> HIDE DEF v
      <4>2. \A w : w[2] \in Nat /\ Made(w) => Made(w)'
        BY <1>1, <4>1, StaysMade
      <4> QED
        BY <3>1, <4>1, <4>2 DEF Made
    <3>2. CASE shown'[1] = 0
      BY <3>2, <2>1 DEF Made
    <3> QED
      BY <1>8, <3>1, <3>2
  <2>3. \A v \in Coming' : Made(v)'
    <3> SUFFICES ASSUME NEW v, v \in Coming'
                 PROVE  Made(v)'
      OBVIOUS
    <3>1. v \in Coming
      BY <1>7
    <3>2. Made(v) /\ v[2] \in Nat /\ rooms \in [RoomIds -> ServerRoom]
      BY <3>1 DEF MadeOK, OrderOK, Types
    <3> QED
      BY <1>1, <3>2, StaysMade
  <2> QED
    BY <2>2, <2>3 DEF MadeOK
<1>11. HeldOK'
  <2>1. \A room, token : Held(room, token) => Held(room, token)'
    BY <1>1, StaysHeld
  <2>2. gs' # NoGame => gs # NoGame /\ g_room' = g_room /\ Due = g_session_token /\ Due' = Due
    BY <1>4 DEF HangsUp, HeldOK
  <2>3. gs' # NoGame \/ Coming' # {} => (gs # NoGame \/ Coming # {}) /\ g_room' = g_room /\ Due' = Due
    BY <1>7, <2>2
  <2>4. saved'.valid => saved.valid /\ saved' = saved
    BY NoSavedIsTyped DEF HangsUp
  <2>5. gs' # NoGame \/ Coming' # {} => Held(g_room, Due)'
    BY <1>1, <2>3, HeldGoesOn DEF HeldOK
  <2>6. saved'.valid => Held(saved.room, saved.token)'
    BY <2>1, <2>4 DEF HeldOK
  <2> QED
    BY <1>4, <2>5, <2>6 DEF HeldOK
<1> QED
  BY <1>2, <1>3, <1>5, <1>9, <1>10, <1>11

\* A message is taken from the connection by a client that is, or becomes, connected; a
\* view may have joined the queue, at its end.
ReadsOn ==
  /\ g_state \in {"HANDSHAKING", "CONNECTED"} /\ conn.st = "OPEN" /\ conn.down # << >>
  /\ conn' = [conn EXCEPT !.down = Tail(@)]
  /\ g_state' = "CONNECTED" /\ g_session_token' = Due /\ Due \in Token
  /\ Seated /\ g_seat' = DueSeat
  /\ Ordered(g_view_queue')
  /\ \A i \in DOMAIN g_view_queue' :
       \/ \E j \in DOMAIN g_view_queue : g_view_queue'[i] = g_view_queue[j]
       \/ 1 \in Updates(conn.down) /\ g_view_queue'[i] = conn.down[1].update
  /\ \A i, j \in DOMAIN g_view_queue' :
       i <= j => g_view_queue'[i].of[2] <= g_view_queue'[j].of[2]
  /\ UNCHANGED <<g_room, saved, gs, shown, rooms>>

LEMMA ReadOn ==
  ASSUME IInv, ReadsOn
  PROVE  IInv'
<1> USE DEF IInv
<1> DEFINE down == conn.down
           left == Tail(conn.down)
<1>1. /\ 1 \in DOMAIN down /\ DOMAIN left \subseteq Nat \ {0}
      /\ Ordered(left)
      /\ \A n \in DOMAIN left : n + 1 \in DOMAIN down /\ n + 1 # 1 /\ left[n] = down[n + 1]
  BY Behead DEF ReadsOn, Types
<1>2. /\ conn'.down = left /\ conn'.st = "OPEN" /\ conn'.up = conn.up
      /\ DOMAIN conn' = {"st", "up", "down", "closing"}
  BY DEF ReadsOn, Types
<1>3. conn.up = << >> /\ g_room # 0 /\ rooms' = rooms /\ g_room' = g_room
  BY DEF ReadsOn, HandshakeOK
<1>4. ~Greeted' /\ Due' = Due /\ Due = g_session_token'
  BY DEF ReadsOn, Greeted, Due
<1>5. \A n \in Updates(left) : n + 1 \in Updates(down) /\ left[n] = down[n + 1]
  BY <1>1 DEF Updates
<1> HIDE DEF left
<1>6. Types'
  BY <1>1, <1>2 DEF ReadsOn, Types
<1>7. HandshakeOK'
  <2>1. \A n \in DOMAIN left : left[n].type \notin Answers
    BY <1>1 DEF HandshakeOK
  <2> QED
    BY <1>2, <1>3, <2>1 DEF ReadsOn, HandshakeOK, Answers
<1>8. BoundOK'
  BY <1>2, <1>3, <1>4 DEF ReadsOn, BoundOK
<1>9. /\ \A n \in Updates(left) : left[n].update.of \in Coming
      /\ \A i \in DOMAIN g_view_queue' : g_view_queue'[i].of \in Coming
      /\ Coming' = {g_view_queue'[i].of : i \in DOMAIN g_view_queue'}
               \cup {left[n].update.of : n \in Updates(left)}
  BY <1>2, <1>5 DEF ReadsOn, Coming
<1>10. Coming' \subseteq Coming
  BY <1>9
<1>11. OrderOK'
  <2>1. \A m, n \in Updates(left) : m <= n => left[m].update.of[2] <= left[n].update.of[2]
    <3> SUFFICES ASSUME NEW m \in Updates(left), NEW n \in Updates(left), m <= n
                 PROVE  left[m].update.of[2] <= left[n].update.of[2]
      OBVIOUS
    <3>1. m \in Nat /\ n \in Nat /\ m + 1 <= n + 1
      BY <1>1 DEF Updates
    <3> QED
      BY <1>5, <3>1 DEF OrderOK
  <2>2. \A i \in DOMAIN g_view_queue', n \in Updates(left) :
          g_view_queue'[i].of[2] <= left[n].update.of[2]
    <3> SUFFICES ASSUME NEW i \in DOMAIN g_view_queue', NEW n \in Updates(left)
                 PROVE  g_view_queue'[i].of[2] <= left[n].update.of[2]
      OBVIOUS
    <3>1. n + 1 \in Updates(down) /\ left[n] = down[n + 1] /\ 1 <= n + 1
      BY <1>1, <1>5 DEF Updates
    <3>2. CASE \E j \in DOMAIN g_view_queue : g_view_queue'[i] = g_view_queue[j]
      BY <3>1, <3>2 DEF OrderOK
    <3>3. CASE 1 \in Updates(conn.down) /\ g_view_queue'[i] = conn.down[1].update
      BY <3>1, <3>3 DEF OrderOK
    <3> QED
      BY <3>2, <3>3 DEF ReadsOn
  <2>3. \A v \in Coming' : v[1] = g_room /\ v[2] \in Nat /\ (shown[1] = g_room => shown[2] <= v[2])
    BY <1>10 DEF OrderOK
  <2>4. g_room' = g_room /\ shown' = shown
    BY DEF ReadsOn
  <2>5. \A i, j \in DOMAIN g_view_queue' :
          i <= j => g_view_queue'[i].of[2] <= g_view_queue'[j].of[2]
    BY DEF ReadsOn
  <2> QED
    BY <1>2, <2>1, <2>2, <2>3, <2>4, <2>5 DEF OrderOK
<1>12. MadeOK'
  <2>1. \A v : Made(v)' = Made(v)
    BY <1>3 DEF Made
  <2>2. Made(shown)'
    BY <1>3 DEF Made, MadeOK, ReadsOn
  <2> QED
    BY <1>10, <2>1, <2>2 DEF MadeOK
<1>13. HeldOK'
  <2>1. Held(g_room, Due)' = Held(g_room, Due) /\ Held(saved.room, saved.token)' = Held(saved.room, saved.token)
    BY <1>3, <1>4 DEF Held, Opens, ReadsOn
  <2> QED
    BY <1>4, <1>10, <2>1 DEF HeldOK, ReadsOn
<1> QED
  BY <1>6, <1>7, <1>8, <1>11, <1>12, <1>13

\* client_net_update's messages. An ACK brings the token that was due.
LEMMA AckReads ==
  ASSUME IInv, HandleAck
  PROVE  ReadsOn
<1> USE DEF IInv
<1> USE Behead DEF Types
<1>1. /\ conn.down # << >> /\ 1 \in DOMAIN conn.down /\ Head(conn.down) = conn.down[1]
      /\ conn.down[1].type = "HANDSHAKE_ACK"
  BY DEF HandleAck, Receive
<1>2. Greeted /\ Due = conn.down[1].token /\ Due \in Token
  BY <1>1 DEF HandleAck, Greeted, Due, HandshakeOK
<1>3. \A i \in DOMAIN g_view_queue' : g_view_queue'[i] = g_view_queue[i]
  BY DEF HandleAck
<1>4. Seated /\ g_seat' = DueSeat
  BY <1>1, <1>2 DEF HandleAck, Seated, DueSeat
<1> QED
  BY <1>1, <1>2, <1>3, <1>4 DEF ReadsOn, HandleAck, Receive, Received, shownVars, OrderOK

\* Only a connected client reads anything but answers.
LEMMA ReadsConnected ==
  ASSUME IInv, NEW type, Receive(type), type \notin Answers
  PROVE  /\ g_state = "CONNECTED" /\ Due = g_session_token /\ Due \in Token
         /\ Seated /\ DueSeat = g_seat
         /\ conn.down # << >> /\ 1 \in DOMAIN conn.down /\ Head(conn.down) = conn.down[1]
         /\ conn.down[1].type = type
<1>1. /\ conn.down # << >> /\ 1 \in DOMAIN conn.down /\ Head(conn.down) = conn.down[1]
      /\ conn.down[1].type = type
  BY Behead DEF Receive, IInv, Types
<1>2. g_state # "HANDSHAKING"
  BY <1>1 DEF IInv, HandshakeOK
<1> QED
  BY <1>1, <1>2 DEF Receive, Due, Greeted, Seated, DueSeat, IInv, Types

LEMMA PassConfirmedReads ==
  ASSUME IInv, HandlePassConfirmed
  PROVE  ReadsOn
<1>1. /\ g_state = "CONNECTED" /\ Due = g_session_token /\ Due \in Token /\ conn.down # << >>
      /\ Seated /\ DueSeat = g_seat
  BY ReadsConnected DEF HandlePassConfirmed, Answers
<1> QED
  BY <1>1 DEF ReadsOn, HandlePassConfirmed, Receive, Received, shownVars, IInv, Types, OrderOK

\* A full queue loses its oldest view, and what comes in is the newest.
LEMMA Enqueued ==
  ASSUME NEW q, NEW u, Ordered(q), STATE_QUEUE_CAP \in Nat \ {0},
         \A i, j \in DOMAIN q : i <= j => q[i].of[2] <= q[j].of[2],
         \A i \in DOMAIN q : q[i].of[2] <= u.of[2], u.of[2] \in Nat
  PROVE  /\ Ordered(Enqueue(q, u))
         /\ \A i \in DOMAIN Enqueue(q, u) :
              \/ \E j \in DOMAIN q : Enqueue(q, u)[i] = q[j]
              \/ Enqueue(q, u)[i] = u
         /\ \A i, j \in DOMAIN Enqueue(q, u) :
              i <= j => Enqueue(q, u)[i].of[2] <= Enqueue(q, u)[j].of[2]
<1> DEFINE base == IF Len(q) >= STATE_QUEUE_CAP THEN Tail(q) ELSE q
           e == Append(base, u)
           k == Len(base)
<1>1. /\ Ordered(base)
      /\ \A i \in DOMAIN base : \E j \in DOMAIN q : base[i] = q[j]
      /\ \A i, j \in DOMAIN base : i <= j => base[i].of[2] <= base[j].of[2]
      /\ \A i \in DOMAIN base : base[i].of[2] <= u.of[2]
  <2>1. CASE Len(q) >= STATE_QUEUE_CAP
    <3>1. q # << >>
      BY <2>1 DEF Ordered
    <3>2. /\ base = Tail(q) /\ DOMAIN base \subseteq Nat /\ Ordered(base)
          /\ \A n \in DOMAIN base : n + 1 \in DOMAIN q /\ base[n] = q[n + 1]
      BY <2>1, <3>1, Behead
    <3> HIDE DEF base
    <3>3. \A i, j \in DOMAIN base : i <= j => base[i].of[2] <= base[j].of[2]
      <4> SUFFICES ASSUME NEW i \in DOMAIN base, NEW j \in DOMAIN base, i <= j
                   PROVE  base[i].of[2] <= base[j].of[2]
        OBVIOUS
      <4>1. i + 1 <= j + 1
        BY <3>2
      <4> QED
        BY <3>2, <4>1
    <3> QED
      BY <3>2, <3>3
  <2>2. CASE ~(Len(q) >= STATE_QUEUE_CAP)
    BY <2>2
  <2> QED
    BY <2>1, <2>2
<1> HIDE DEF base
<1>2. /\ Ordered(e) /\ DOMAIN base = 1 .. k /\ k \in Nat /\ DOMAIN e = 1 .. k + 1
      /\ \A n \in DOMAIN base : e[n] = base[n]
      /\ e[k + 1] = u
  BY <1>1, Added
<1>3. Enqueue(q, u) = e
  BY DEF Enqueue, base
<1> HIDE DEF e, k
<1>4. \A i \in DOMAIN e : i \in DOMAIN base \/ i = k + 1
  BY <1>2
<1>5. \A i \in DOMAIN e : (\E j \in DOMAIN q : e[i] = q[j]) \/ e[i] = u
  BY <1>1, <1>2, <1>4
<1>6. \A i, j \in DOMAIN e : i <= j => e[i].of[2] <= e[j].of[2]
  <2> SUFFICES ASSUME NEW i \in DOMAIN e, NEW j \in DOMAIN e, i <= j
               PROVE  e[i].of[2] <= e[j].of[2]
    OBVIOUS
  <2>1. CASE j \in DOMAIN base
    <3>1. i \in DOMAIN base
      BY <1>2, <2>1
    <3> QED
      BY <1>1, <1>2, <2>1, <3>1
  <2>2. CASE j = k + 1 /\ i \in DOMAIN base
    BY <1>1, <1>2, <2>2
  <2>3. CASE j = k + 1 /\ i = k + 1
    BY <1>2, <2>3
  <2> QED
    BY <1>4, <2>1, <2>2, <2>3
<1> QED
  BY <1>2, <1>3, <1>5, <1>6

LEMMA StateUpdateReads ==
  ASSUME IInv, HandleStateUpdate
  PROVE  ReadsOn
<1> DEFINE u == conn.down[1].update
           q == g_view_queue
<1>1. /\ g_state = "CONNECTED" /\ Due = g_session_token /\ Due \in Token /\ conn.down # << >>
      /\ Seated /\ DueSeat = g_seat
      /\ 1 \in Updates(conn.down) /\ g_view_queue' = Enqueue(q, u)
  BY ReadsConnected DEF HandleStateUpdate, Answers, Updates
<1>2. /\ Ordered(q) /\ \A i, j \in DOMAIN q : i <= j => q[i].of[2] <= q[j].of[2]
      /\ \A i \in DOMAIN q : q[i].of[2] <= u.of[2]
  BY <1>1 DEF IInv, Types, OrderOK
<1>3. u.of[2] \in Nat
  BY <1>1 DEF IInv, OrderOK, Coming
<1> HIDE DEF u, q
<1>4. /\ Ordered(Enqueue(q, u))
      /\ \A i \in DOMAIN Enqueue(q, u) :
           \/ \E j \in DOMAIN q : Enqueue(q, u)[i] = q[j]
           \/ Enqueue(q, u)[i] = u
      /\ \A i, j \in DOMAIN Enqueue(q, u) :
           i <= j => Enqueue(q, u)[i].of[2] <= Enqueue(q, u)[j].of[2]
  BY <1>2, <1>3, Enqueued, CapsAssumption
<1> QED
  BY <1>1, <1>4 DEF ReadsOn, HandleStateUpdate, Receive, Received, shownVars, u, q

-----------------------------------------------------------------------------
(* The client's other steps.                                                 *)

LEMMA SendHandshakeKeeps ==
  ASSUME IInv, SendHandshake
  PROVE  IInv'
<1> USE DEF IInv
<1>1. /\ conn.st = "OPEN" /\ conn.up = << >> /\ conn.down = << >> /\ g_view_queue = << >>
      /\ g_state \in {"CONNECTING", "RECONNECTING"} /\ g_room # 0 /\ g_state' = "HANDSHAKING"
  BY DEF SendHandshake, HandshakeOK
<1>2. /\ conn'.st = "OPEN" /\ conn'.down = << >> /\ DOMAIN conn' = {"st", "up", "down", "closing"}
      /\ conn'.up = << [room |-> g_room, token |-> g_session_token] >>
  BY <1>1 DEF SendHandshake, Types
<1>3. UNCHANGED <<g_room, g_session_token, g_view_queue, saved, gs, shown, rooms>>
  BY DEF SendHandshake, shownVars
<1>4. ~Greeted /\ ~Greeted' /\ Due' = Due
  BY <1>1, <1>2, <1>3 DEF Greeted, Due
<1>5. Types'
  BY <1>2, <1>3, Nothing DEF Types
<1>6. HandshakeOK'
  BY <1>1, <1>2, <1>3 DEF HandshakeOK
<1>7. BoundOK'
  BY <1>1, <1>3, <1>4 DEF BoundOK
<1>8. Coming' = Coming
  BY <1>1, <1>2, <1>3 DEF Coming
<1>9. OrderOK'
  BY <1>1, <1>2, <1>3, <1>8 DEF OrderOK
<1>10. MadeOK'
  BY <1>3, <1>8 DEF MadeOK, Made
<1>11. HeldOK'
  <2>1. Held(g_room, Due)' = Held(g_room, Due) /\ Held(saved.room, saved.token)' = Held(saved.room, saved.token)
    BY <1>3, <1>4 DEF Held, Opens
  <2> QED
    BY <1>3, <1>4, <1>8, <2>1 DEF HeldOK
<1> QED
  BY <1>5, <1>6, <1>7, <1>9, <1>10, <1>11

LEMMA ConnectionOpensKeeps ==
  ASSUME IInv, ConnectionOpens
  PROVE  IInv'
<1> USE DEF IInv
<1>1. conn.st # "OPEN" /\ conn.up = << >> /\ conn.down = << >>
  BY DEF ConnectionOpens, HandshakeOK
<1>2. /\ conn'.up = conn.up /\ conn'.down = conn.down
      /\ DOMAIN conn' = {"st", "up", "down", "closing"}
  BY DEF ConnectionOpens, Types
<1>3. UNCHANGED <<g_state, g_room, g_session_token, g_view_queue, saved, gs, shown, rooms>>
  BY DEF ConnectionOpens, NetworkVars, clientVars, shownVars
<1>4. Greeted' = Greeted /\ Due' = Due
  BY <1>2, <1>3 DEF Greeted, Due
<1>5. Types'
  BY <1>2, <1>3 DEF Types
<1>6. HandshakeOK'
  BY <1>1, <1>2, <1>3 DEF HandshakeOK
<1>7. BoundOK'
  BY <1>1, <1>3 DEF BoundOK
<1>8. Coming' = Coming
  BY <1>2, <1>3 DEF Coming
<1>9. OrderOK'
  BY <1>2, <1>3, <1>8 DEF OrderOK
<1>10. MadeOK'
  BY <1>3, <1>8 DEF MadeOK, Made
<1>11. HeldOK'
  <2>1. Held(g_room, Due)' = Held(g_room, Due) /\ Held(saved.room, saved.token)' = Held(saved.room, saved.token)
    BY <1>3, <1>4 DEF Held, Opens
  <2> QED
    BY <1>3, <1>4, <1>8, <2>1 DEF HeldOK
<1> QED
  BY <1>5, <1>6, <1>7, <1>9, <1>10, <1>11

\* The way back that is written down is the one the client has.
LEMMA MenuSeesGameKeeps ==
  ASSUME IInv, MenuSeesGame
  PROVE  IInv'
<1> USE DEF IInv
<1>1. UNCHANGED <<g_state, g_room, g_session_token, g_view_queue, conn, gs, shown, rooms>>
  BY DEF MenuSeesGame, clientVars, shownVars
<1>2. /\ g_state = "CONNECTED" /\ g_view_queue # << >> /\ ~Greeted /\ Due = g_session_token
      /\ saved' = [valid |-> TRUE, room |-> g_room, token |-> g_session_token]
  BY DEF MenuSeesGame, Greeted, Due
<1>3. 1 \in DOMAIN g_view_queue
  BY <1>2, Behead DEF Types
<1>4. Coming # {}
  BY <1>3 DEF Coming
<1>5. Held(g_room, g_session_token)
  BY <1>2, <1>4 DEF HeldOK
<1>6. Types'
  BY <1>1, <1>2 DEF Types, SavedInfo
<1>7. Greeted' = Greeted /\ Due' = Due /\ Coming' = Coming
  BY <1>1 DEF Greeted, Due, Coming
<1>8. HandshakeOK' /\ BoundOK' /\ OrderOK' /\ MadeOK'
  <2>1. HandshakeOK'
    BY <1>1 DEF HandshakeOK
  <2>2. BoundOK'
    BY <1>1, <1>7 DEF BoundOK
  <2>3. OrderOK'
    BY <1>1, <1>7 DEF OrderOK
  <2>4. MadeOK'
    BY <1>1, <1>7 DEF MadeOK, Made
  <2> QED
    BY <2>1, <2>2, <2>3, <2>4
<1>9. HeldOK'
  <2>1. Held(g_room, Due)' = Held(g_room, Due)
    BY <1>1, <1>7 DEF Held, Opens
  <2>2. Held(saved.room, saved.token)'
    BY <1>1, <1>2, <1>5 DEF Held, Opens
  <2> QED
    BY <1>1, <1>7, <2>1, <2>2 DEF HeldOK
<1> QED
  BY <1>6, <1>8, <1>9

\* The oldest view goes to the screen.
LEMMA ShowViewKeeps ==
  ASSUME IInv, ShowView
  PROVE  IInv'
<1> USE DEF IInv
<1> DEFINE q == g_view_queue
           rest == Tail(g_view_queue)
<1>1. /\ UNCHANGED <<g_state, g_room, g_session_token, conn, saved, rooms>>
      /\ g_state = "CONNECTED" /\ q # << >> /\ g_view_queue' = rest /\ shown' = Head(q).of
  BY DEF ShowView
<1>2. /\ 1 \in DOMAIN q /\ Head(q) = q[1] /\ Ordered(rest) /\ DOMAIN rest \subseteq Nat
      /\ \A n \in DOMAIN rest : n + 1 \in DOMAIN q /\ rest[n] = q[n + 1]
  BY <1>1, Behead DEF Types
<1> HIDE DEF rest
<1>3. ~Greeted /\ ~Greeted' /\ Due = g_session_token /\ Due' = Due
  BY <1>1 DEF Greeted, Due
<1>4. q[1].of \in Coming /\ shown' = q[1].of
  BY <1>1, <1>2 DEF Coming
<1>5. \A i \in DOMAIN rest : rest[i].of \in {q[j].of : j \in DOMAIN q}
  BY <1>2
<1>6. Coming' \subseteq Coming
  BY <1>1, <1>5 DEF Coming
<1>7. Types'
  BY <1>1, <1>2 DEF Types
<1>8. HandshakeOK'
  BY <1>1 DEF HandshakeOK
<1>9. BoundOK'
  BY <1>1, <1>3 DEF BoundOK
<1>10. OrderOK'
  <2>1. \A i, j \in DOMAIN rest : i <= j => rest[i].of[2] <= rest[j].of[2]
    <3> SUFFICES ASSUME NEW i \in DOMAIN rest, NEW j \in DOMAIN rest, i <= j
                 PROVE  rest[i].of[2] <= rest[j].of[2]
      OBVIOUS
    <3>1. i + 1 <= j + 1
      BY <1>2
    <3> QED
      BY <1>2, <3>1 DEF OrderOK
  <2>2. \A i \in DOMAIN rest, n \in Updates(conn.down) : rest[i].of[2] <= conn.down[n].update.of[2]
    BY <1>2 DEF OrderOK
  <2>3. \A v \in Coming' : v[1] = g_room /\ v[2] \in Nat /\ shown'[2] <= v[2]
    <3>1. \A i \in DOMAIN rest : q[1].of[2] <= rest[i].of[2]
      <4> SUFFICES ASSUME NEW i \in DOMAIN rest PROVE q[1].of[2] <= rest[i].of[2]
        OBVIOUS
      <4>1. i + 1 \in DOMAIN q /\ 1 <= i + 1 /\ rest[i] = q[i + 1]
        BY <1>2
      <4> QED
        BY <1>2, <4>1 DEF OrderOK
    <3>2. \A n \in Updates(conn.down) : q[1].of[2] <= conn.down[n].update.of[2]
      BY <1>2 DEF OrderOK
    <3>3. \A v \in Coming' : (\E i \in DOMAIN rest : v = rest[i].of)
                             \/ (\E n \in Updates(conn.down) : v = conn.down[n].update.of)
      BY <1>1 DEF Coming
    <3>4. \A v \in Coming' : q[1].of[2] <= v[2]
      BY <3>1, <3>2, <3>3
    <3> QED
      BY <1>4, <1>6, <3>4 DEF OrderOK
  <2>4. shown'[1] \in RoomIds \cup {0} /\ shown'[2] \in Nat
    BY <1>4 DEF OrderOK, Types
  <2> QED
    BY <1>1, <2>1, <2>2, <2>3, <2>4 DEF OrderOK
<1>11. MadeOK'
  <2>1. \A v \in Coming : Made(v)
    BY DEF MadeOK
  <2>2. Made(shown)'
    BY <1>1, <1>4, <2>1 DEF Made
  <2>3. \A v \in Coming' : Made(v)'
    BY <1>1, <1>6, <2>1 DEF Made
  <2> QED
    BY <2>2, <2>3 DEF MadeOK
<1>12. HeldOK'
  <2>1. Held(g_room, Due)' = Held(g_room, Due) /\ Held(saved.room, saved.token)' = Held(saved.room, saved.token)
    BY <1>1, <1>3 DEF Held, Opens
  <2> QED
    BY <1>1, <1>3, <1>4, <2>1 DEF HeldOK
<1> QED
  BY <1>7, <1>8, <1>9, <1>10, <1>11, <1>12

\* A client that closes its connection, or opens a new one.
LEMMA Closes ==
  ASSUME IInv,
         \/ NoticeLoss \/ ReconnectStep \/ HandleReject
         \/ (\E r \in RoomIds : JoinAssignedRoom(r)) \/ ReconnectSaved \/ Restart
         \/ ConnectionBreaks \/ ServerCloses
  PROVE  HangsUp
<1> USE DEF IInv
<1>1. /\ NoConn.st # "OPEN" /\ NoConn.up = << >> /\ NoConn.down = << >>
      /\ DOMAIN NoConn = {"st", "up", "down", "closing"}
      /\ NewConn.st # "OPEN" /\ NewConn.up = << >> /\ NewConn.down = << >>
      /\ DOMAIN NewConn = {"st", "up", "down", "closing"}
  BY DEF NoConn, NewConn
<1>2. NoToken \in Token /\ \A r \in RoomIds : <<r, 0>> \in Token
  BY DEF NoToken, Token, RoomIds
<1>3. ASSUME NoticeLoss PROVE HangsUp
  BY <1>1, <1>3 DEF NoticeLoss, HangsUp, HandshakeOK, shownVars
<1>4. ASSUME ReconnectStep PROVE HangsUp
  <2>1. conn' \in {NewConn, NoConn} /\ g_state' \in {"DISCONNECTED", "RECONNECTING"}
    BY <1>4 DEF ReconnectStep
  <2>2. /\ g_state = "RECONNECTING" /\ conn.st # "OPEN"
        /\ UNCHANGED <<g_room, g_session_token, g_view_queue, gs, shown, saved, rooms>>
    BY <1>4 DEF ReconnectStep, shownVars
  <2> QED
    BY <1>1, <2>1, <2>2 DEF HangsUp, HandshakeOK
<1>5. ASSUME HandleReject PROVE HangsUp
  <2>1. conn.down # << >> /\ 1 \in DOMAIN conn.down /\ conn.down[1].type \in Answers
    BY <1>5, Behead DEF HandleReject, Receive, Types, Answers
  <2>2. g_state = "HANDSHAKING"
    BY <2>1 DEF HandshakeOK
  <2> QED
    BY <1>1, <1>5, <2>2 DEF HandleReject, Receive, CloseConn, HangsUp, HandshakeOK, shownVars
<1>6. ASSUME NEW room \in RoomIds, NEW token \in Token, gs' = NoGame, Connect(room, token),
             UNCHANGED <<saved, shownVars>>
      PROVE  HangsUp
  BY <1>1, <1>6 DEF Connect, HangsUp, shownVars, RoomIds
<1>7. ASSUME NEW r \in RoomIds, JoinAssignedRoom(r) PROVE HangsUp
  BY <1>2, <1>6, <1>7 DEF JoinAssignedRoom, shownVars
<1>8. ASSUME ReconnectSaved PROVE HangsUp
  <2>1. saved.room \in RoomIds /\ saved.token \in Token
    BY <1>8 DEF ReconnectSaved, HeldOK, Held, Types, SavedInfo
  <2> QED
    BY <1>6, <1>8, <2>1 DEF ReconnectSaved, shownVars
<1>9. ASSUME Restart PROVE HangsUp
  BY <1>1, <1>2, <1>9 DEF Restart, CloseConn, LeaveScreen, HangsUp, Types
<1>10. ASSUME ConnectionBreaks \/ ServerCloses PROVE HangsUp
  <2>1. /\ conn' = [NoConn EXCEPT !.st = "BROKEN"] /\ rooms' = Unbound
        /\ UNCHANGED <<g_state, g_seat, g_room, g_session_token, g_view_queue, gs, shown, saved>>
    BY <1>10 DEF ConnectionBreaks, ServerCloses, NetworkVars, clientVars, shownVars
  <2>2. conn'.st = "BROKEN" /\ conn'.up = << >> /\ conn'.down = << >>
        /\ DOMAIN conn' = {"st", "up", "down", "closing"}
    BY <2>1 DEF NoConn
  <2> QED
    BY <2>1, <2>2 DEF HangsUp, HandshakeOK
<1> QED
  BY <1>3, <1>4, <1>5, <1>7, <1>8, <1>9, <1>10

\* client_net_disconnect closes the connection, or finds none.
LEMMA Disconnects ==
  ASSUME IInv, Disconnect, shown' \in {shown, <<0, 0>>}, saved' \in {saved, NoSaved},
         gs' # NoGame => gs # NoGame
  PROVE  ScreenOnly \/ HangsUp
<1> USE DEF IInv
<1>1. CASE conn.st = "NONE" \/ g_state = "DISCONNECTED"
  BY <1>1 DEF Disconnect, ScreenOnly
<1>2. CASE ~(conn.st = "NONE" \/ g_state = "DISCONNECTED")
  <2>1. NoConn.st # "OPEN" /\ NoConn.up = << >> /\ NoConn.down = << >>
        /\ DOMAIN NoConn = {"st", "up", "down", "closing"}
    BY DEF NoConn
  <2> QED
    BY <1>2, <2>1 DEF Disconnect, CloseConn, HangsUp
<1> QED
  BY <1>1, <1>2

LEMMA Cancels ==
  ASSUME IInv, Cancel
  PROVE  ScreenOnly \/ HangsUp
<1>1. shown' = shown /\ saved' = saved /\ gs' = gs
  BY DEF Cancel, shownVars
<1>2. CASE g_state # "DISCONNECTED"
  BY <1>1, <1>2, Disconnects DEF Cancel
<1>3. CASE g_state = "DISCONNECTED"
  BY <1>1, <1>3 DEF Cancel, ScreenOnly, clientVars
<1> QED
  BY <1>2, <1>3

LEMMA LeavesFinishedGame ==
  ASSUME IInv, LeaveFinishedGame
  PROVE  ScreenOnly \/ HangsUp
<1>1. shown' = <<0, 0>> /\ saved' = NoSaved /\ gs' = NoGame
  BY DEF LeaveFinishedGame, LeaveScreen
<1>2. CASE g_state = "CONNECTED"
  BY <1>1, <1>2, Disconnects DEF LeaveFinishedGame
<1>3. CASE g_state # "CONNECTED"
  BY <1>1, <1>3 DEF LeaveFinishedGame, ScreenOnly, clientVars
<1> QED
  BY <1>2, <1>3

\* The steps of the player and of the menu that stay on the screen.
LEMMA StaysOnTheScreen ==
  ASSUME \/ MenuSeesConnection \/ MenuSeesError \/ ShowPassConfirmed \/ ConfirmPass
         \/ ReturnToMenu
         \/ \E m \in Moves : ArrangeHand(m[1], m[2])
         \/ gs # NoGame /\ \E i \in DOMAIN gs.hand, id \in Range(gs.p2.inv) : TransmuteAhead(i, id)
  PROVE  ScreenOnly
<1>1. ASSUME MenuSeesConnection \/ MenuSeesError PROVE ScreenOnly
  BY <1>1 DEF MenuSeesConnection, MenuSeesError, ScreenOnly, clientVars, shownVars
<1>2. ASSUME ShowPassConfirmed PROVE ScreenOnly
  BY <1>2 DEF ShowPassConfirmed, Passing, ScreenOnly
<1>3. ASSUME ConfirmPass PROVE ScreenOnly
  BY <1>3 DEF ConfirmPass, ScreenOnly, clientVars
<1>4. ASSUME ReturnToMenu PROVE ScreenOnly
  BY <1>4 DEF ReturnToMenu, LeaveScreen, ScreenOnly, clientVars
<1>5. ASSUME NEW from, NEW to, ArrangeHand(from, to) PROVE ScreenOnly
  BY <1>5 DEF ArrangeHand, ScreenOnly, clientVars
<1>6. ASSUME NEW i, NEW id, TransmuteAhead(i, id) PROVE ScreenOnly
  BY <1>6 DEF TransmuteAhead, Passing, ScreenOnly, clientVars
<1> QED
  BY <1>1, <1>2, <1>3, <1>4, <1>5, <1>6

-----------------------------------------------------------------------------
(* The server.                                                               *)

\* The server gives nobody a seat, and a game is at one of its states.
NoNewSeats ==
  \A r \in RoomIds :
    /\ rooms'[r].status = "PLAYING" =>
         \/ rooms'[r].version \in DOMAIN Story
         \/ rooms[r].status = "PLAYING" /\ rooms'[r].version = rooms[r].version
    /\ \A s \in JoinSeats :
         \/ rooms'[r].slots[s].token[2] = 0 /\ rooms'[r].slots[s].status = "EMPTY"
         \/ /\ rooms'[r].joins = rooms[r].joins
            /\ rooms'[r].slots[s].token = rooms[r].slots[s].token
            /\ rooms'[r].slots[s].status \in {"CONNECTED", "AWAY"} =>
                 rooms[r].slots[s].status \in {"CONNECTED", "AWAY"}

\* Messages ms of the room the connection is bound to follow what is under way; those
\* that are views show version ver of it.
Sends(ms, ver) ==
  /\ Ordered(ms)
  /\ DOMAIN conn' = {"st", "up", "down", "closing"}
  /\ conn'.st = conn.st /\ conn'.up = conn.up /\ conn'.down = conn.down \o ms
  /\ UNCHANGED <<g_state, g_seat, g_room, g_session_token, g_view_queue, gs, shown, saved>>
  /\ rooms' \in [RoomIds -> ServerRoom] /\ RoomsGoOn /\ NoNewSeats
  /\ \A r \in RoomIds, s \in JoinSeats :
       rooms'[r].slots[s].mine =>
         /\ rooms[r].slots[s].mine /\ rooms'[r].slots[s].status = rooms[r].slots[s].status
         /\ rooms'[r].slots[s].token = rooms[r].slots[s].token
  /\ ms # << >> => \E r \in RoomIds, s \in JoinSeats : rooms[r].slots[s].mine
  /\ \A n \in DOMAIN ms : ms[n].type \notin Answers
  /\ \A n \in Updates(ms) :
       /\ ms[n].update.of[1] = g_room /\ ms[n].update.of[2] = ver
       /\ \E s \in JoinSeats : rooms[g_room].slots[s].mine /\ MadeView(ms[n].update, s)
  /\ Updates(ms) # {} =>
       /\ ver \in Nat /\ (shown[1] = g_room => shown[2] <= ver) /\ \A v \in Coming : v[2] <= ver
       /\ g_room \in RoomIds
       /\ rooms'[g_room].status = "PLAYING" /\ rooms'[g_room].version = ver
       /\ \E s \in JoinSeats : /\ rooms[g_room].slots[s].mine
                               /\ rooms'[g_room].slots[s].status = rooms[g_room].slots[s].status
                               /\ rooms'[g_room].slots[s].token = rooms[g_room].slots[s].token

LEMMA Sent ==
  ASSUME IInv, NEW ms, NEW ver, Sends(ms, ver)
  PROVE  /\ IInv' /\ Greeted' = Greeted /\ Due' = Due /\ DueSeat' = DueSeat
         /\ \A n \in Updates(conn'.down) :
              \/ n \in Updates(conn.down) /\ conn'.down[n] = conn.down[n]
              \/ \E m \in Updates(ms) : conn'.down[n] = ms[m]
         /\ Coming' # {} => Coming # {} \/ Updates(ms) # {}
<1> USE DEF IInv
<1> DEFINE down == conn.down
           more == conn.down \o ms
           k == Len(conn.down)
<1>1. /\ Ordered(more) /\ k \in Nat /\ DOMAIN down = 1 .. k
      /\ DOMAIN ms \subseteq Nat \ {0} /\ DOMAIN more \subseteq Nat \ {0}
      /\ \A n \in DOMAIN down : n \in DOMAIN more /\ more[n] = down[n]
      /\ \A n \in DOMAIN more :
           n \in DOMAIN down \/ (n > k /\ n - k \in DOMAIN ms /\ more[n] = ms[n - k])
  BY Joined DEF Sends, Types
<1>2. ms = << >> => more = down
  BY DEF Types, Ordered
<1>3. down # << >> => 1 \in DOMAIN down
  BY Behead DEF Types
<1> HIDE DEF more, k
<1>4. conn'.down = more /\ conn'.st = conn.st /\ conn'.up = conn.up
  BY DEF Sends, more
<1>5. ms # << >> => /\ conn.st = "OPEN" /\ conn.up = << >> /\ g_room # 0
                    /\ g_state = "CONNECTED" \/ Greeted
  BY DEF Sends, BoundOK, RoomIds
<1>6. UNCHANGED <<g_state, g_seat, g_room, g_session_token, g_view_queue, gs, shown, saved>>
  BY DEF Sends
<1>7. Greeted' = Greeted /\ Due' = Due /\ DueSeat' = DueSeat
  <2>1. CASE ms = << >>
    BY <1>2, <1>4, <1>6, <2>1 DEF Greeted, Due, DueSeat
  <2>2. CASE ms # << >> /\ g_state = "CONNECTED"
    BY <1>6, <2>2 DEF Greeted, Due, DueSeat
  <2>3. CASE Greeted
    <3>1. more[1] = down[1] /\ more # << >>
      BY <1>1, <1>3, <2>3 DEF Greeted
    <3> QED
      BY <1>4, <1>6, <2>3, <3>1 DEF Greeted, Due, DueSeat
  <2> QED
    BY <1>5, <2>1, <2>2, <2>3
<1>8. Types'
  BY <1>1, <1>4, <1>6 DEF Sends, Types
<1>9. HandshakeOK'
  <2>1. \A n \in DOMAIN more : /\ more[n].type \in Answers => n = 1 /\ g_state = "HANDSHAKING"
                               /\ more[n].type = "HANDSHAKE_ACK" => more[n].token \in Token
    <3> SUFFICES ASSUME NEW n \in DOMAIN more
                 PROVE  /\ more[n].type \in Answers => n = 1 /\ g_state = "HANDSHAKING"
                        /\ more[n].type = "HANDSHAKE_ACK" => more[n].token \in Token
      OBVIOUS
    <3>1. CASE n \in DOMAIN down
      BY <1>1, <3>1 DEF HandshakeOK
    <3>2. CASE n - k \in DOMAIN ms /\ more[n] = ms[n - k]
      BY <3>2 DEF Sends, Answers
    <3> QED
      BY <1>1, <3>1, <3>2
  <2>2. g_state = "HANDSHAKING" /\ more # << >> => more[1].type \in Answers
    <3>1. CASE ms = << >>
      BY <1>2, <3>1 DEF HandshakeOK
    <3>2. CASE Greeted
      BY <1>1, <1>3, <3>2 DEF Greeted, Answers
    <3> QED
      BY <1>5, <3>1, <3>2
  <2>3. /\ conn.st # "OPEN" => conn.up = << >> /\ more = << >>
        /\ g_state \in {"CONNECTING", "RECONNECTING"} => more = << >>
        /\ conn.up # << >> => /\ g_state = "HANDSHAKING" /\ more = << >>
                              /\ conn.up = << [room |-> g_room, token |-> g_session_token] >>
    BY <1>2, <1>5 DEF HandshakeOK, Greeted
  <2> QED
    BY <1>4, <1>6, <2>1, <2>2, <2>3 DEF HandshakeOK
<1>10. BoundOK'
  BY <1>4, <1>6, <1>7 DEF Sends, BoundOK
<1>11. \A n \in Updates(more) : \/ n \in Updates(down) /\ more[n] = down[n]
                                \/ n > k /\ n - k \in Updates(ms) /\ more[n] = ms[n - k]
  BY <1>1 DEF Updates
<1>12. Coming' = {g_view_queue[i].of : i \in DOMAIN g_view_queue}
             \cup {more[n].update.of : n \in Updates(more)}
  BY <1>4, <1>6 DEF Coming
<1>13. \A v \in Coming' : \/ v \in Coming
                          \/ Updates(ms) # {} /\ v[1] = g_room /\ v[2] = ver
  <2> SUFFICES ASSUME NEW v \in Coming', v \notin Coming
               PROVE  Updates(ms) # {} /\ v[1] = g_room /\ v[2] = ver
    OBVIOUS
  <2>1. PICK n \in Updates(more) : v = more[n].update.of
    BY <1>12 DEF Coming
  <2>2. n - k \in Updates(ms) /\ more[n] = ms[n - k]
    BY <1>11, <2>1 DEF Coming
  <2> QED
    BY <2>1, <2>2 DEF Sends
<1>14. Updates(ms) # {} =>
         /\ ver \in Nat /\ (shown[1] = g_room => shown[2] <= ver) /\ \A v \in Coming : v[2] <= ver
  BY DEF Sends
<1>15. OrderOK'
  <2>1. \A m, n \in Updates(more) : m <= n => more[m].update.of[2] <= more[n].update.of[2]
    <3> SUFFICES ASSUME NEW m \in Updates(more), NEW n \in Updates(more), m <= n
                 PROVE  more[m].update.of[2] <= more[n].update.of[2]
      OBVIOUS
    <3>1. CASE m \in Updates(down) /\ more[m] = down[m] /\ n \in Updates(down) /\ more[n] = down[n]
      BY <3>1 DEF OrderOK
    <3>2. CASE /\ m \in Updates(down) /\ more[m] = down[m]
               /\ n - k \in Updates(ms) /\ more[n] = ms[n - k]
      <4>1. down[m].update.of \in Coming
        BY <3>2 DEF Coming
      <4> QED
        BY <1>14, <3>2, <4>1 DEF Sends
    <3>3. CASE /\ m > k /\ m - k \in Updates(ms) /\ more[m] = ms[m - k]
               /\ n - k \in Updates(ms) /\ more[n] = ms[n - k]
      BY <1>14, <3>3 DEF Sends
    <3>4. CASE m > k /\ n \in Updates(down)
      <4>1. m \in Nat /\ n \in Nat /\ n <= k
        BY <1>1, <3>4 DEF Updates
      <4> QED
        BY <1>1, <3>4, <4>1
    <3> QED
      BY <1>11, <3>1, <3>2, <3>3, <3>4
  <2>2. \A i \in DOMAIN g_view_queue, n \in Updates(more) :
          g_view_queue[i].of[2] <= more[n].update.of[2]
    <3> SUFFICES ASSUME NEW i \in DOMAIN g_view_queue, NEW n \in Updates(more)
                 PROVE  g_view_queue[i].of[2] <= more[n].update.of[2]
      OBVIOUS
    <3>1. CASE n \in Updates(down) /\ more[n] = down[n]
      BY <3>1 DEF OrderOK
    <3>2. CASE n - k \in Updates(ms) /\ more[n] = ms[n - k]
      <4>1. g_view_queue[i].of \in Coming
        BY DEF Coming
      <4> QED
        BY <1>14, <3>2, <4>1 DEF Sends
    <3> QED
      BY <1>11, <3>1, <3>2
  <2>3. \A v \in Coming' : v[1] = g_room /\ v[2] \in Nat /\ (shown[1] = g_room => shown[2] <= v[2])
    BY <1>13, <1>14 DEF OrderOK
  <2> QED
    BY <1>4, <1>6, <2>1, <2>2, <2>3 DEF OrderOK
<1>16. MadeOK'
  <2>1. ASSUME NEW v, v[2] \in Nat, Made(v) PROVE Made(v)'
    BY <2>1, StaysMade DEF Sends, Types
  <2>2. Made(shown)'
    <3>1. \A v : v[2] \in Nat /\ Made(v) =>
            (v[1] \in RoomIds =>
               /\ rooms'[v[1]].status # "WAITING"
               /\ rooms'[v[1]].status = "PLAYING" => v[2] <= rooms'[v[1]].version)
      BY <2>1 DEF Made
    <3> QED
      BY <1>6, <3>1 DEF Made, MadeOK, OrderOK
  <2>3. ASSUME NEW v, v \in Coming' PROVE Made(v)'
    <3>1. CASE v \in Coming
      BY <2>1, <3>1 DEF MadeOK, OrderOK
    <3>2. CASE Updates(ms) # {} /\ v[1] = g_room /\ v[2] = ver
      BY <3>2 DEF Made, Sends
    <3> QED
      BY <1>13, <2>3, <3>1, <3>2
  <2> QED
    BY <2>2, <2>3 DEF MadeOK
<1>17. HeldOK'
  <2>1. \A room, token : Held(room, token) => Held(room, token)'
    BY StaysHeld DEF Sends
  <2>2. saved'.valid => Held(saved.room, saved.token)'
    <3>1. \A room, token : Held(room, token) =>
            /\ room \in RoomIds /\ rooms'[room].status # "WAITING"
            /\ rooms'[room].status = "PLAYING" =>
                 \E s \in JoinSeats : /\ rooms'[room].slots[s].token = token
                                      /\ rooms'[room].slots[s].status \in {"CONNECTED", "AWAY"}
      BY <2>1 DEF Held, Opens
    <3>2. saved' = saved /\ (saved.valid => Held(saved.room, saved.token))
      BY <1>6 DEF HeldOK
    <3>3. saved.valid =>
            /\ saved.room \in RoomIds /\ rooms'[saved.room].status # "WAITING"
            /\ rooms'[saved.room].status = "PLAYING" =>
                 \E s \in JoinSeats : /\ rooms'[saved.room].slots[s].token = saved.token
                                      /\ rooms'[saved.room].slots[s].status \in {"CONNECTED", "AWAY"}
      BY <3>1, <3>2
    <3> QED
      BY <3>2, <3>3 DEF Held, Opens
  <2>3. Held(g_room, Due) => Held(g_room, Due)'
    BY <1>6, <1>7, HeldGoesOn DEF Sends
  <2>4. Updates(ms) # {} => Held(g_room, Due)'
    <3> SUFFICES ASSUME Updates(ms) # {} PROVE Held(g_room, Due)'
      OBVIOUS
    <3>1. PICK s \in JoinSeats : /\ rooms[g_room].slots[s].mine
                                 /\ rooms'[g_room].slots[s].status = rooms[g_room].slots[s].status
                                 /\ rooms'[g_room].slots[s].token = rooms[g_room].slots[s].token
      BY DEF Sends
    <3>2. /\ g_room \in RoomIds /\ rooms'[g_room].status = "PLAYING"
          /\ rooms'[g_room].slots[s].token = Due /\ rooms'[g_room].slots[s].status = "CONNECTED"
      BY <3>1 DEF Sends, BoundOK
    <3> QED
      BY <1>6, <1>7, <3>2 DEF Held, Opens
  <2>5. gs' # NoGame \/ Coming' # {} => Held(g_room, Due)'
    BY <1>6, <1>13, <2>3, <2>4 DEF HeldOK
  <2> QED
    BY <1>6, <1>7, <2>2, <2>5 DEF HeldOK
<1>18. IInv'
  BY <1>8, <1>9, <1>10, <1>15, <1>16, <1>17
<1> HIDE DEF IInv
<1> QED
  BY <1>4, <1>7, <1>11, <1>13, <1>18

\* A room is rewritten.
LEMMA Rewritten ==
  ASSUME rooms \in [RoomIds -> ServerRoom], NEW r \in RoomIds, NEW q \in ServerRoom,
         rooms' = [rooms EXCEPT ![r] = q],
         q.status = "WAITING" => rooms[r].status = "WAITING",
         q.status = "PLAYING" /\ rooms[r].status # "WAITING" =>
           /\ rooms[r].status = "PLAYING" /\ rooms[r].version <= q.version
           /\ \A s \in JoinSeats :
                rooms[r].slots[s].status \in {"CONNECTED", "AWAY"} =>
                  q.slots[s].status \in {"CONNECTED", "AWAY"} /\ q.slots[s].token = rooms[r].slots[s].token
  PROVE  /\ rooms' \in [RoomIds -> ServerRoom] /\ RoomsGoOn
         /\ rooms'[r] = q /\ \A t \in RoomIds : t # r => rooms'[t] = rooms[t]
<1>1. rooms' \in [RoomIds -> ServerRoom] /\ rooms'[r] = q /\ \A t \in RoomIds : t # r => rooms'[t] = rooms[t]
  OBVIOUS
<1>2. \A t \in RoomIds : rooms[t].version \in Nat
  BY DEF ServerRoom
<1>3. RoomsGoOn
  <2> SUFFICES ASSUME NEW t \in RoomIds
               PROVE  /\ rooms'[t].status = "WAITING" => rooms[t].status = "WAITING"
                      /\ rooms'[t].status = "PLAYING" /\ rooms[t].status # "WAITING" =>
                           /\ rooms[t].status = "PLAYING" /\ rooms[t].version <= rooms'[t].version
                           /\ \A s \in JoinSeats :
                                rooms[t].slots[s].status \in {"CONNECTED", "AWAY"} =>
                                  /\ rooms'[t].slots[s].status \in {"CONNECTED", "AWAY"}
                                  /\ rooms'[t].slots[s].token = rooms[t].slots[s].token
    BY DEF RoomsGoOn
  <2>1. CASE t = r
    BY <1>1, <2>1
  <2>2. CASE t # r
    BY <1>1, <1>2, <2>2
  <2> QED
    BY <2>1, <2>2
<1> QED
  BY <1>1, <1>3

\* As many messages as the room has seats bound to the connection.
LEMMA Copies ==
  ASSUME NEW r, NEW m
  PROVE  LET ms == [i \in 1 .. Cardinality(Bound(r)) |-> m]
         IN  /\ Ordered(ms) /\ \A n \in DOMAIN ms : ms[n] = m
             /\ ms # << >> => \E s \in JoinSeats : rooms[r].slots[s].mine
<1> DEFINE c == Cardinality(Bound(r))
           ms == [i \in 1 .. c |-> m]
<1>1. IsFiniteSet(PlayerSeats)
  <2>1. 0 \in Int /\ 3 \in Int /\ PlayerSeats = 0 .. 3
    BY DEF PlayerSeats, NumPlayers
  <2> QED
    BY <2>1, FS_Interval, Zenon
<1>2. IsFiniteSet(Bound(r))
  BY <1>1, FS_Subset, SeatsAssumption DEF Bound
<1>3. c \in Nat /\ (c = 0 <=> Bound(r) = {})
  BY <1>2, FS_CardinalityType, FS_EmptySet
<1> HIDE DEF c
<1>4. ms \in Seq({m}) /\ Len(ms) = c
  BY <1>3
<1>5. Ordered(ms)
  BY <1>4, OfItsOwn
<1>6. ms # << >> => c # 0
  BY <1>4
<1>7. \A n \in DOMAIN ms : ms[n] = m
  OBVIOUS
<1> QED
  BY <1>3, <1>5, <1>6, <1>7 DEF c, Bound

\* A message that says nothing of a room, or of one that has just been changed.
LEMMA UpdateIsOf ==
  ASSUME NEW r, NEW seat, NEW v
  PROVE  /\ StateUpdate(r, seat, v).type = "STATE_UPDATE"
         /\ StateUpdate(r, seat, v).update.of = <<r, v>>
BY DEF StateUpdate

LEMMA FirstStory == 1 \in DOMAIN Story /\ DOMAIN Story = 1 .. Len(Story) /\ Len(Story) \in Nat
<1>1. Story \in Seq(Range(Story)) /\ Story # << >>
  BY StoryAssumption
<1> DEFINE S == Range(Story)
<1> HIDE DEF S
<1>2. Story \in Seq(S) /\ Story # << >>
  BY <1>1 DEF S
<1> QED
  BY <1>2

\* A set of seats has a first and a last.
LEMMA SeatsHaveEnds ==
  ASSUME NEW seats \in SUBSET JoinSeats, seats # {}
  PROVE  Min(seats) \in seats /\ Max(seats) \in seats
<1>1. seats \subseteq 0 .. 3
  BY SeatsAssumption DEF PlayerSeats, NumPlayers
<1>2. \E s \in seats : \A t \in seats : s <= t
  <2>1. CASE 0 \in seats
    BY <1>1, <2>1
  <2>2. CASE 0 \notin seats /\ 1 \in seats
    BY <1>1, <2>2
  <2>3. CASE seats \cap {0, 1} = {} /\ 2 \in seats
    BY <1>1, <2>3
  <2>4. CASE seats \cap {0, 1, 2} = {}
    <3>1. \A s \in seats : s = 3
      BY <1>1, <2>4
    <3> QED
      BY <3>1
  <2> QED
    BY <2>1, <2>2, <2>3, <2>4
<1>3. \E s \in seats : \A t \in seats : s >= t
  <2>1. CASE 3 \in seats
    BY <1>1, <2>1
  <2>2. CASE 3 \notin seats /\ 2 \in seats
    BY <1>1, <2>2
  <2>3. CASE seats \cap {2, 3} = {} /\ 1 \in seats
    BY <1>1, <2>3
  <2>4. CASE seats \cap {1, 2, 3} = {}
    <3>1. \A s \in seats : s = 0
      BY <1>1, <2>4
    <3> QED
      BY <3>1
  <2> QED
    BY <2>1, <2>2, <2>3, <2>4
<1> QED
  BY <1>2, <1>3 DEF Min, Max

\* What is sent to the connection is a view of the state it is sent for.
LEMMA UpdateIsMade ==
  ASSUME NEW r, NEW seat, NEW v \in DOMAIN Story
  PROVE  MadeView(StateUpdate(r, seat, v).update, seat)
<1> DEFINE ready == [p \in PlayerSeats |-> p \in rooms[r].confirmed]
<1>1. ready \in [PlayerSeats -> BOOLEAN]
  OBVIOUS
<1>2. /\ StateUpdate(r, seat, v).update.of[2] = v
      /\ StateUpdate(r, seat, v).update.view = BuildPlayerView([Story[v] EXCEPT !.ready = ready], seat)
  BY DEF StateUpdate
<1> QED
  BY <1>1, <1>2 DEF MadeView

LEMMA ViewIsMade ==
  ASSUME NEW r, NEW v \in DOMAIN Story, \E s \in JoinSeats : rooms[r].slots[s].mine
  PROVE  \E s \in JoinSeats : /\ rooms[r].slots[s].mine
                              /\ MadeView(StateUpdate(r, Max(Bound(r)), v).update, s)
<1>1. Bound(r) \in SUBSET JoinSeats /\ Bound(r) # {}
  BY DEF Bound
<1>2. Max(Bound(r)) \in Bound(r)
  BY <1>1, SeatsHaveEnds
<1> QED
  BY <1>2, UpdateIsMade DEF Bound

LEMMA GameStartsSent ==
  ASSUME IInv, NEW r \in RoomIds, GameStarts(r)
  PROVE  \E ms, ver : Sends(ms, ver)
<1> USE DEF IInv
<1> DEFINE seats == [s \in JoinSeats |->
                      IF rooms[r].slots[s].status = "EMPTY"
                      THEN [rooms[r].slots[s] EXCEPT !.status = "OTHER"] ELSE rooms[r].slots[s]]
           q == [rooms[r] EXCEPT !.status = "PLAYING", !.version = 1, !.confirmed = Prompt,
                                 !.slots = seats]
           u == StateUpdate(r, Max(Bound(r)), 1)
           ms == [i \in 1 .. Cardinality(Bound(r)) |-> u]
<1>1. rooms \in [RoomIds -> ServerRoom] /\ rooms[r] \in ServerRoom /\ rooms[r].status = "WAITING"
  BY DEF Types, GameStarts
<1>2. rooms' = [rooms EXCEPT ![r] = q]
  BY <1>1 DEF GameStarts, ServerRoom
<1>3. \A s \in JoinSeats :
        /\ rooms[r].slots[s] \in SeatSlot /\ seats[s] \in SeatSlot
        /\ seats[s].mine = rooms[r].slots[s].mine /\ seats[s].token = rooms[r].slots[s].token
        /\ rooms[r].slots[s].status # "EMPTY" => seats[s] = rooms[r].slots[s]
        /\ rooms[r].slots[s].status = "EMPTY" => seats[s].status = "OTHER"
  BY <1>1 DEF ServerRoom, SeatSlot
<1>4. seats \in [JoinSeats -> SeatSlot]
  BY <1>3
<1> HIDE DEF seats
<1>5. 1 \in 0 .. Len(Story) /\ Len(Story) \in Nat
  BY StoryAssumption
<1>6. /\ q \in ServerRoom /\ q.status = "PLAYING" /\ q.version = 1 /\ q.slots = seats
      /\ q.joins = rooms[r].joins
  BY <1>1, <1>4, <1>5, SeatsAssumption DEF ServerRoom
<1> HIDE DEF q
<1>7. /\ rooms' \in [RoomIds -> ServerRoom] /\ RoomsGoOn
      /\ rooms'[r] = q /\ \A t \in RoomIds : t # r => rooms'[t] = rooms[t]
  BY <1>1, <1>2, <1>6, Rewritten
<1>8. u.type = "STATE_UPDATE" /\ u.update.of = <<r, 1>>
  BY UpdateIsOf
<1> HIDE DEF u
<1>9. /\ Ordered(ms) /\ \A n \in DOMAIN ms : ms[n] = u
      /\ ms # << >> => \E s \in JoinSeats : rooms[r].slots[s].mine
  BY Copies
<1>10. /\ DOMAIN conn' = {"st", "up", "down", "closing"}
       /\ conn'.st = conn.st /\ conn'.up = conn.up /\ conn'.down = conn.down \o ms
       /\ UNCHANGED <<g_state, g_seat, g_room, g_session_token, g_view_queue, gs, shown, saved>>
  BY DEF GameStarts, Send, Types, NetworkVars, clientVars, shownVars, u
<1> HIDE DEF ms
<1>11. \A t \in RoomIds, s \in JoinSeats :
         /\ rooms'[t].slots[s].mine = rooms[t].slots[s].mine
         /\ rooms'[t].slots[s].mine =>
              /\ rooms'[t].slots[s].status = rooms[t].slots[s].status
              /\ rooms'[t].slots[s].token = rooms[t].slots[s].token
  <2> SUFFICES ASSUME NEW t \in RoomIds, NEW s \in JoinSeats
               PROVE  /\ rooms'[t].slots[s].mine = rooms[t].slots[s].mine
                      /\ rooms'[t].slots[s].mine =>
                           /\ rooms'[t].slots[s].status = rooms[t].slots[s].status
                           /\ rooms'[t].slots[s].token = rooms[t].slots[s].token
    OBVIOUS
  <2>1. rooms[t].slots[s].mine => rooms[t].slots[s].status # "EMPTY"
    BY DEF BoundOK
  <2> QED
    BY <1>3, <1>6, <1>7, <2>1
<1>12. ms # << >> => g_room = r /\ \E s \in JoinSeats : rooms[r].slots[s].mine
  BY <1>9 DEF BoundOK
<1>13. Updates(ms) # {} => ms # << >>
  BY Nothing
<1>14. ms # << >> => shown[1] # g_room /\ Coming = {}
  BY <1>1, <1>12 DEF MadeOK, Made, OrderOK
<1>15. NoNewSeats
  <2>1. \A t \in RoomIds : t # r => rooms'[t] = rooms[t]
    BY <1>7
  <2>2. /\ rooms'[r].version \in DOMAIN Story /\ rooms'[r].joins = rooms[r].joins
        /\ \A s \in JoinSeats : /\ rooms'[r].slots[s].token = rooms[r].slots[s].token
                                /\ rooms'[r].slots[s].status \in {"CONNECTED", "AWAY"} =>
                                      rooms[r].slots[s].status \in {"CONNECTED", "AWAY"}
    BY <1>3, <1>6, <1>7, FirstStory
  <2> QED
    BY <2>1, <2>2 DEF NoNewSeats
<1>16. ms # << >> => \E s \in JoinSeats : rooms[g_room].slots[s].mine /\ MadeView(u.update, s)
  BY <1>12, FirstStory, ViewIsMade DEF u
<1>17. Sends(ms, 1)
  <2>1. \A n \in DOMAIN ms : ms[n].type \notin Answers
    BY <1>8, <1>9 DEF Answers
  <2>2. \A n \in Updates(ms) :
          /\ ms[n].update.of[1] = g_room /\ ms[n].update.of[2] = 1
          /\ \E s \in JoinSeats : rooms[g_room].slots[s].mine /\ MadeView(ms[n].update, s)
    BY <1>8, <1>9, <1>12, <1>13, <1>16 DEF Updates
  <2>3. ms # << >> => \E t \in RoomIds, s \in JoinSeats : rooms[t].slots[s].mine
    BY <1>12
  <2>4. Updates(ms) # {} =>
          /\ 1 \in Nat /\ (shown[1] = g_room => shown[2] <= 1) /\ \A v \in Coming : v[2] <= 1
          /\ g_room \in RoomIds
          /\ rooms'[g_room].status = "PLAYING" /\ rooms'[g_room].version = 1
    BY <1>6, <1>7, <1>12, <1>13, <1>14
  <2>5. Updates(ms) # {} =>
          \E s \in JoinSeats : /\ rooms[g_room].slots[s].mine
                               /\ rooms'[g_room].slots[s].status = rooms[g_room].slots[s].status
                               /\ rooms'[g_room].slots[s].token = rooms[g_room].slots[s].token
    BY <1>11, <1>12, <1>13
  <2> QED
    BY <1>7, <1>9, <1>10, <1>11, <1>15, <2>1, <2>2, <2>3, <2>4, <2>5 DEF Sends
<1> QED
  BY <1>17

LEMMA GameMovesOnSent ==
  ASSUME IInv, NEW r \in RoomIds, GameMovesOn(r)
  PROVE  \E ms, ver : Sends(ms, ver)
<1> USE DEF IInv
<1> DEFINE v == rooms[r].version
           again == Story[v].phase # "PASSING" /\ Story[v + 1].phase = "PASSING"
           confirmed == IF again THEN Prompt ELSE rooms[r].confirmed
           q == [rooms[r] EXCEPT !.version = v + 1, !.confirmed = confirmed]
           u == StateUpdate(r, Max(Bound(r)), v + 1)
           ms == [i \in 1 .. Cardinality(Bound(r)) |-> u]
<1>1. /\ rooms \in [RoomIds -> ServerRoom] /\ rooms[r] \in ServerRoom /\ rooms[r].status = "PLAYING"
      /\ v < Len(Story)
  BY DEF Types, GameMovesOn
<1>2. rooms' = [rooms EXCEPT ![r] = q]
  BY <1>1 DEF GameMovesOn, ServerRoom
<1>3. confirmed \in SUBSET PlayerSeats
  BY <1>1, SeatsAssumption DEF ServerRoom
<1> HIDE DEF confirmed
<1>4. v \in Nat /\ v + 1 \in 0 .. Len(Story)
  BY <1>1, StoryAssumption DEF ServerRoom
<1>5. /\ q \in ServerRoom /\ q.status = "PLAYING" /\ q.version = v + 1 /\ q.slots = rooms[r].slots
      /\ q.joins = rooms[r].joins
  BY <1>1, <1>3, <1>4 DEF ServerRoom
<1> HIDE DEF q
<1>6. /\ rooms' \in [RoomIds -> ServerRoom] /\ RoomsGoOn
      /\ rooms'[r] = q /\ \A t \in RoomIds : t # r => rooms'[t] = rooms[t]
  <2>1. rooms[r].version <= q.version
    BY <1>4, <1>5
  <2>2. \A s \in JoinSeats : q.slots[s] = rooms[r].slots[s]
    BY <1>5
  <2> HIDE DEF v
  <2> QED
    BY <1>1, <1>2, <1>5, <2>1, <2>2, Rewritten
<1>7. u.type = "STATE_UPDATE" /\ u.update.of = <<r, v + 1>>
  BY UpdateIsOf
<1>8. /\ DOMAIN conn' = {"st", "up", "down", "closing"}
      /\ conn'.st = conn.st /\ conn'.up = conn.up /\ conn'.down = conn.down \o ms
      /\ UNCHANGED <<g_state, g_seat, g_room, g_session_token, g_view_queue, gs, shown, saved>>
  BY DEF GameMovesOn, Send, Types, NetworkVars, clientVars, shownVars
<1> HIDE DEF u
<1>9. /\ Ordered(ms) /\ \A n \in DOMAIN ms : ms[n] = u
      /\ ms # << >> => \E s \in JoinSeats : rooms[r].slots[s].mine
  BY Copies
<1> HIDE DEF ms
<1>10. \A t \in RoomIds : rooms'[t].slots = rooms[t].slots
  BY <1>5, <1>6
<1>11. ms # << >> => g_room = r /\ \E s \in JoinSeats : rooms[r].slots[s].mine
  BY <1>9 DEF BoundOK
<1>12. Updates(ms) # {} => ms # << >>
  BY Nothing
<1>13. ms # << >> => (shown[1] = g_room => shown[2] <= v + 1) /\ \A w \in Coming : w[2] <= v + 1
  <2> SUFFICES ASSUME ms # << >>
               PROVE  (shown[1] = g_room => shown[2] <= v + 1) /\ \A w \in Coming : w[2] <= v + 1
    OBVIOUS
  <2>1. g_room = r
    BY <1>11
  <2>2. shown[1] = g_room => shown[2] <= v /\ shown[2] \in Nat
    BY <1>1, <2>1 DEF MadeOK, Made, OrderOK
  <2>3. \A w \in Coming : w[2] <= v /\ w[2] \in Nat
    BY <1>1, <2>1 DEF MadeOK, Made, OrderOK
  <2> HIDE DEF v
  <2> QED
    BY <1>4, <2>2, <2>3
<1>14. NoNewSeats
  <2>1. \A t \in RoomIds : t # r => rooms'[t] = rooms[t]
    BY <1>6
  <2>2. v + 1 \in DOMAIN Story
    BY <1>4, StoryAssumption
  <2>3. /\ rooms'[r].version \in DOMAIN Story /\ rooms'[r].joins = rooms[r].joins
        /\ rooms'[r].slots = rooms[r].slots
    BY <1>5, <1>6, <2>2
  <2> QED
    BY <2>1, <2>3 DEF NoNewSeats
<1>15. ms # << >> => \E s \in JoinSeats : rooms[g_room].slots[s].mine /\ MadeView(u.update, s)
  <2>1. v + 1 \in DOMAIN Story
    BY <1>4, StoryAssumption
  <2> HIDE DEF v
  <2> QED
    BY <1>11, <2>1, ViewIsMade DEF u
<1>16. Sends(ms, v + 1)
  <2>1. \A n \in DOMAIN ms : ms[n].type \notin Answers
    BY <1>7, <1>9 DEF Answers
  <2>2. \A n \in Updates(ms) :
          /\ ms[n].update.of[1] = g_room /\ ms[n].update.of[2] = v + 1
          /\ \E s \in JoinSeats : rooms[g_room].slots[s].mine /\ MadeView(ms[n].update, s)
    BY <1>7, <1>9, <1>11, <1>12, <1>15 DEF Updates
  <2>3. ms # << >> => \E t \in RoomIds, s \in JoinSeats : rooms[t].slots[s].mine
    BY <1>11
  <2>4. Updates(ms) # {} =>
          /\ v + 1 \in Nat /\ (shown[1] = g_room => shown[2] <= v + 1)
          /\ \A w \in Coming : w[2] <= v + 1
          /\ g_room \in RoomIds
          /\ rooms'[g_room].status = "PLAYING" /\ rooms'[g_room].version = v + 1
    BY <1>4, <1>5, <1>6, <1>11, <1>12, <1>13
  <2>5. Updates(ms) # {} =>
          \E s \in JoinSeats : /\ rooms[g_room].slots[s].mine
                               /\ rooms'[g_room].slots[s].status = rooms[g_room].slots[s].status
                               /\ rooms'[g_room].slots[s].token = rooms[g_room].slots[s].token
    BY <1>10, <1>11, <1>12
  <2>6. \A t \in RoomIds, s \in JoinSeats :
          rooms'[t].slots[s].mine =>
            /\ rooms[t].slots[s].mine /\ rooms'[t].slots[s].status = rooms[t].slots[s].status
            /\ rooms'[t].slots[s].token = rooms[t].slots[s].token
    BY <1>10
  <2> HIDE DEF v
  <2> QED
    BY <1>6, <1>8, <1>9, <1>14, <2>1, <2>2, <2>3, <2>4, <2>5, <2>6 DEF Sends
<1> QED
  BY <1>16

LEMMA PassConfirmedSent ==
  ASSUME IInv, NEW r \in RoomIds, NEW seat \in PlayerSeats, PassConfirmed(r, seat)
  PROVE  \E ms, ver : Sends(ms, ver)
<1> USE DEF IInv
<1> DEFINE confirmed == rooms[r].confirmed \cup {seat}
           q == [rooms[r] EXCEPT !.confirmed = confirmed]
           u == [type |-> "PASS_CONFIRMED", seat |-> seat]
           ms == [i \in 1 .. Cardinality(Bound(r)) |-> u]
<1>1. rooms \in [RoomIds -> ServerRoom] /\ rooms[r] \in ServerRoom
  BY DEF Types
<1>2. rooms' = [rooms EXCEPT ![r] = q]
  BY <1>1 DEF PassConfirmed, ServerRoom
<1>3. /\ q \in ServerRoom /\ q.status = rooms[r].status /\ q.version = rooms[r].version
      /\ q.slots = rooms[r].slots /\ rooms[r].version <= q.version /\ q.joins = rooms[r].joins
  BY <1>1 DEF ServerRoom
<1> HIDE DEF q
<1>4. /\ rooms' \in [RoomIds -> ServerRoom] /\ RoomsGoOn
      /\ rooms'[r] = q /\ \A t \in RoomIds : t # r => rooms'[t] = rooms[t]
  <2>1. \A s \in JoinSeats : q.slots[s] = rooms[r].slots[s]
    BY <1>3
  <2> QED
    BY <1>1, <1>2, <1>3, <2>1, Rewritten
<1>5. /\ DOMAIN conn' = {"st", "up", "down", "closing"}
      /\ conn'.st = conn.st /\ conn'.up = conn.up /\ conn'.down = conn.down \o ms
      /\ UNCHANGED <<g_state, g_seat, g_room, g_session_token, g_view_queue, gs, shown, saved>>
  BY DEF PassConfirmed, Send, Types, NetworkVars, clientVars, shownVars
<1>6. u.type = "PASS_CONFIRMED"
  OBVIOUS
<1> HIDE DEF u
<1>7. /\ Ordered(ms) /\ \A n \in DOMAIN ms : ms[n] = u
      /\ ms # << >> => \E s \in JoinSeats : rooms[r].slots[s].mine
  BY Copies
<1> HIDE DEF ms
<1>8. \A t \in RoomIds : rooms'[t].slots = rooms[t].slots
  BY <1>3, <1>4
<1>9. Updates(ms) = {} /\ \A n \in DOMAIN ms : ms[n].type \notin Answers
  BY <1>6, <1>7 DEF Updates, Answers
<1>10. NoNewSeats
  BY <1>3, <1>4 DEF NoNewSeats
<1>11. Sends(ms, 0)
  BY <1>4, <1>5, <1>7, <1>8, <1>9, <1>10 DEF Sends
<1> QED
  BY <1>11

\* A step of the server that says nothing.
LEMMA SentNothing ==
  ASSUME IInv,
         DOMAIN conn' = {"st", "up", "down", "closing"},
         conn'.st = conn.st, conn'.up = conn.up, conn'.down = conn.down,
         UNCHANGED <<g_state, g_seat, g_room, g_session_token, g_view_queue, gs, shown, saved>>,
         rooms' \in [RoomIds -> ServerRoom], RoomsGoOn, NoNewSeats,
         \A r \in RoomIds, s \in JoinSeats :
           rooms'[r].slots[s].mine =>
             /\ rooms[r].slots[s].mine /\ rooms'[r].slots[s].status = rooms[r].slots[s].status
             /\ rooms'[r].slots[s].token = rooms[r].slots[s].token
  PROVE  \E ms, ver : Sends(ms, ver)
<1>1. conn'.down = conn.down \o << >>
  BY DEF IInv, Types, Ordered
<1>2. Updates(<< >>) = {} /\ DOMAIN << >> = {}
  BY Nothing
<1>3. Sends(<< >>, 0)
  BY <1>1, <1>2, Nothing DEF Sends
<1> QED
  BY <1>3

LEMMA RoomClosesSent ==
  ASSUME IInv, NEW r \in RoomIds, RoomCloses(r)
  PROVE  \E ms, ver : Sends(ms, ver)
<1> DEFINE q == [NewRoom EXCEPT !.status = "GONE"]
<1>1. rooms \in [RoomIds -> ServerRoom] /\ rooms' = [rooms EXCEPT ![r] = q]
  BY DEF IInv, Types, RoomCloses
<1>2. /\ EmptySeat \in SeatSlot /\ ~EmptySeat.mine
      /\ EmptySeat.status = "EMPTY" /\ EmptySeat.token[2] = 0
  BY DEF EmptySeat, SeatSlot, NoToken, Token
<1>3. 0 \in 0 .. Len(Story)
  BY StoryAssumption
<1>4. NewRoom \in ServerRoom /\ NewRoom.slots = [s \in JoinSeats |-> EmptySeat]
  BY <1>2, <1>3 DEF NewRoom, ServerRoom
<1>5. /\ q \in ServerRoom /\ q.status = "GONE"
      /\ \A s \in JoinSeats : /\ ~q.slots[s].mine /\ q.slots[s].status = "EMPTY"
                              /\ q.slots[s].token[2] = 0
  BY <1>2, <1>4 DEF ServerRoom
<1> HIDE DEF q
<1>6. /\ rooms' \in [RoomIds -> ServerRoom] /\ RoomsGoOn
      /\ rooms'[r] = q /\ \A t \in RoomIds : t # r => rooms'[t] = rooms[t]
  BY <1>1, <1>5, Rewritten
<1>7. /\ DOMAIN conn' = {"st", "up", "down", "closing"}
      /\ conn'.st = conn.st /\ conn'.up = conn.up /\ conn'.down = conn.down
      /\ UNCHANGED <<g_state, g_seat, g_room, g_session_token, g_view_queue, gs, shown, saved>>
  BY DEF RoomCloses, IInv, Types, NetworkVars, clientVars, shownVars
<1>8. \A t \in RoomIds, s \in JoinSeats :
        rooms'[t].slots[s].mine =>
          /\ rooms[t].slots[s].mine /\ rooms'[t].slots[s].status = rooms[t].slots[s].status
          /\ rooms'[t].slots[s].token = rooms[t].slots[s].token
  BY <1>5, <1>6
<1>9. NoNewSeats
  BY <1>5, <1>6 DEF NoNewSeats
<1> QED
  BY <1>6, <1>7, <1>8, <1>9, SentNothing

LEMMA ServerNoticesDropSent ==
  ASSUME IInv, NEW r \in RoomIds, NEW seat \in JoinSeats, ServerNoticesDrop(r, seat)
  PROVE  \E ms, ver : Sends(ms, ver)
<1> DEFINE left == IF rooms[r].status = "WAITING" THEN EmptySeat
                   ELSE [rooms[r].slots[seat] EXCEPT !.status = "AWAY"]
           seats == [rooms[r].slots EXCEPT ![seat] = left]
           q == [rooms[r] EXCEPT !.slots = seats]
<1>1. rooms \in [RoomIds -> ServerRoom] /\ rooms[r] \in ServerRoom
  BY DEF IInv, Types
<1>2. rooms[r].slots \in [JoinSeats -> SeatSlot] /\ rooms[r].slots[seat] \in SeatSlot
  BY <1>1 DEF ServerRoom
<1>3. rooms' = [rooms EXCEPT ![r] = q]
  <2>1. rooms' = [rooms EXCEPT ![r].slots[seat] = left]
    BY <1>1, <1>2 DEF ServerNoticesDrop
  <2> HIDE DEF left
  <2> QED
    BY <1>1, <1>2, <2>1 DEF ServerRoom
<1>4. /\ EmptySeat \in SeatSlot /\ ~EmptySeat.mine
      /\ EmptySeat.status = "EMPTY" /\ EmptySeat.token[2] = 0
  BY DEF EmptySeat, SeatSlot, NoToken, Token
<1>5. /\ left \in SeatSlot /\ ~left.mine
      /\ rooms[r].status = "WAITING" => left.status = "EMPTY" /\ left.token[2] = 0
      /\ rooms[r].status # "WAITING" => left.status = "AWAY" /\ left.token = rooms[r].slots[seat].token
      /\ rooms[r].slots[seat].status = "CONNECTED"
  BY <1>2, <1>4 DEF ServerNoticesDrop, SeatSlot
<1> HIDE DEF left
<1>6. /\ seats \in [JoinSeats -> SeatSlot] /\ seats[seat] = left
      /\ \A s \in JoinSeats : s # seat => seats[s] = rooms[r].slots[s]
  BY <1>2, <1>5
<1> HIDE DEF seats
<1>7. /\ q \in ServerRoom /\ q.status = rooms[r].status /\ q.version = rooms[r].version
      /\ q.slots = seats /\ rooms[r].version <= q.version /\ q.joins = rooms[r].joins
  <2>1. rooms[r].version \in Nat
    BY <1>1 DEF ServerRoom
  <2>2. seats \in [JoinSeats -> SeatSlot]
    BY <1>6
  <2>3. /\ q \in ServerRoom /\ q.status = rooms[r].status /\ q.version = rooms[r].version
        /\ q.slots = seats /\ q.joins = rooms[r].joins
    BY <1>1, <2>2 DEF ServerRoom
  <2> QED
    BY <2>1, <2>3
<1> HIDE DEF q
<1>8. q.status # "WAITING" =>
        \A s \in JoinSeats :
          rooms[r].slots[s].status \in {"CONNECTED", "AWAY"} =>
            q.slots[s].status \in {"CONNECTED", "AWAY"} /\ q.slots[s].token = rooms[r].slots[s].token
  BY <1>5, <1>6, <1>7
<1>9. /\ rooms' \in [RoomIds -> ServerRoom] /\ RoomsGoOn
      /\ rooms'[r] = q /\ \A t \in RoomIds : t # r => rooms'[t] = rooms[t]
  <2>1. q.status = "PLAYING" /\ rooms[r].status # "WAITING" =>
          /\ rooms[r].status = "PLAYING" /\ rooms[r].version <= q.version
          /\ \A s \in JoinSeats :
               rooms[r].slots[s].status \in {"CONNECTED", "AWAY"} =>
                 q.slots[s].status \in {"CONNECTED", "AWAY"} /\ q.slots[s].token = rooms[r].slots[s].token
    BY <1>7, <1>8
  <2> QED
    BY <1>1, <1>3, <1>7, <2>1, Rewritten
<1>10. /\ DOMAIN conn' = {"st", "up", "down", "closing"}
       /\ conn'.st = conn.st /\ conn'.up = conn.up /\ conn'.down = conn.down
       /\ UNCHANGED <<g_state, g_seat, g_room, g_session_token, g_view_queue, gs, shown, saved>>
  BY DEF ServerNoticesDrop, IInv, Types, NetworkVars, clientVars, shownVars
<1>11. \A t \in RoomIds, s \in JoinSeats :
         rooms'[t].slots[s].mine =>
           /\ rooms[t].slots[s].mine /\ rooms'[t].slots[s].status = rooms[t].slots[s].status
           /\ rooms'[t].slots[s].token = rooms[t].slots[s].token
  BY <1>5, <1>6, <1>7, <1>9
<1>12. NoNewSeats
  BY <1>5, <1>6, <1>7, <1>9 DEF NoNewSeats
<1> QED
  BY <1>9, <1>10, <1>11, <1>12, SentNothing

-----------------------------------------------------------------------------
(* The answer to a handshake.                                                *)

\* A client whose handshake is under way waits for the answer, and has no seat.
LEMMA Waits ==
  ASSUME IInv, conn.up # << >>
  PROVE  /\ g_state = "HANDSHAKING" /\ conn.st = "OPEN" /\ conn.down = << >> /\ g_view_queue = << >>
         /\ conn.up = << [room |-> g_room, token |-> g_session_token] >>
         /\ Head(conn.up) = [room |-> g_room, token |-> g_session_token] /\ Tail(conn.up) = << >>
         /\ g_room \in RoomIds /\ ~Greeted /\ Due = g_session_token /\ Coming = {}
         /\ \A r \in RoomIds, s \in JoinSeats : ~rooms[r].slots[s].mine
<1> USE DEF IInv
<1>1. /\ g_state = "HANDSHAKING" /\ conn.st = "OPEN" /\ conn.down = << >> /\ g_view_queue = << >>
      /\ conn.up = << [room |-> g_room, token |-> g_session_token] >>
  BY DEF HandshakeOK
<1>2. Head(conn.up) = [room |-> g_room, token |-> g_session_token] /\ Tail(conn.up) = << >>
  BY <1>1
<1>3. g_room \in RoomIds
  BY <1>1 DEF HandshakeOK, Types
<1>4. ~Greeted /\ Due = g_session_token
  BY <1>1 DEF Greeted, Due
<1>5. Coming = {}
  BY <1>1, Nothing DEF Coming
<1>6. \A r \in RoomIds, s \in JoinSeats : ~rooms[r].slots[s].mine
  BY DEF BoundOK
<1> QED
  BY <1>1, <1>2, <1>3, <1>4, <1>5, <1>6

\* The client is turned away.
Rejects ==
  /\ conn.up # << >> /\ Reject
  /\ UNCHANGED <<g_state, g_seat, g_room, g_session_token, g_view_queue, gs, shown, saved, rooms>>

LEMMA Rejected ==
  ASSUME IInv, Rejects
  PROVE  IInv' /\ ~Greeted' /\ Due' = Due /\ Coming' = {} /\ Updates(conn'.down) = {}
<1> USE DEF IInv, Rejects
<1> USE Waits
<1> DEFINE reject == [type |-> "HANDSHAKE_REJECT"]
<1>1. /\ conn'.up = << >> /\ conn'.down = <<reject>> /\ conn'.st = "OPEN"
      /\ DOMAIN conn' = {"st", "up", "down", "closing"}
  <2>1. /\ conn'.up = Tail(conn.up) /\ conn'.down = Append(conn.down, reject)
        /\ conn'.st = conn.st /\ DOMAIN conn' = DOMAIN conn
    BY DEF Reject, Types
  <2> HIDE DEF reject
  <2>2. Append(<< >>, reject) = <<reject>>
    OBVIOUS
  <2> QED
    BY <2>1, <2>2 DEF Types
<1>2. Ordered(<<reject>>) /\ DOMAIN <<reject>> = {1} /\ <<reject>>[1] = reject
  <2> HIDE DEF reject
  <2>1. <<reject>> \in Seq({reject}) /\ DOMAIN <<reject>> = {1} /\ <<reject>>[1] = reject
    OBVIOUS
  <2> QED
    BY <2>1, OfItsOwn
<1>3. ~Greeted /\ ~Greeted' /\ Due' = Due
  BY <1>1, <1>2 DEF Greeted, Due
<1>4. Types'
  BY <1>1, <1>2 DEF Types
<1>5. HandshakeOK'
  BY <1>1, <1>2 DEF HandshakeOK, Answers
<1>6. BoundOK'
  BY DEF BoundOK
<1>7. Updates(conn'.down) = {} /\ Coming' = {}
  BY <1>1, <1>2, Nothing DEF Updates, Coming
<1>8. OrderOK'
  BY <1>7 DEF OrderOK
<1>9. MadeOK'
  BY <1>7 DEF MadeOK, Made
<1>10. HeldOK'
  <2>1. Held(g_room, Due)' = Held(g_room, Due) /\ Held(saved.room, saved.token)' = Held(saved.room, saved.token)
    BY <1>3 DEF Held, Opens
  <2> QED
    BY <1>3, <1>7, <2>1 DEF HeldOK
<1> QED
  BY <1>3, <1>4, <1>5, <1>6, <1>7, <1>8, <1>9, <1>10

\* A seat is given: the acknowledgement comes first, then the messages ms of the game, if
\* it runs.
Welcomes(r, s, token, ms) ==
  /\ conn.up # << >> /\ r = g_room /\ s \in JoinSeats /\ token \in Token
  /\ Welcome(r, s, token, ms)
  /\ UNCHANGED <<g_state, g_seat, g_room, g_session_token, g_view_queue, gs, shown, saved>>
  /\ \/ /\ rooms[r].status = "WAITING" /\ ms = << >>
        /\ token = <<r, rooms[r].joins + 1>>
     \/ /\ rooms[r].status = "PLAYING" /\ token = g_session_token
        /\ rooms[r].slots[s].status = "AWAY" /\ rooms[r].slots[s].token = token
        /\ ms = <<StateUpdate(r, s, rooms[r].version)>>

LEMMA Welcomed ==
  ASSUME IInv, NEW r, NEW s, NEW token, NEW ms, Welcomes(r, s, token, ms)
  PROVE  /\ IInv' /\ Greeted' /\ Due' = token /\ DueSeat' = s
         /\ \A n \in Updates(conn'.down) :
              /\ rooms[r].status = "PLAYING"
              /\ conn'.down[n] = StateUpdate(r, s, rooms[r].version)
         /\ Coming' # {} => rooms[r].status = "PLAYING"
         /\ rooms[r] \in ServerRoom /\ rooms' \in [RoomIds -> ServerRoom] /\ RoomsGoOn
         /\ rooms'[r].status = rooms[r].status /\ rooms'[r].version = rooms[r].version
         /\ rooms'[r].joins = IF token = rooms[r].slots[s].token THEN rooms[r].joins ELSE token[2]
         /\ rooms'[r].slots[s] = [status |-> "CONNECTED", token |-> token, mine |-> TRUE]
         /\ \A t \in JoinSeats : t # s => rooms'[r].slots[t] = rooms[r].slots[t]
         /\ \A t \in RoomIds : t # r => rooms'[t] = rooms[t]
<1> USE DEF IInv
<1>0. conn.up # << >>
  BY DEF Welcomes
<1> USE <1>0, Waits
<1> DEFINE seat == [status |-> "CONNECTED", token |-> token, mine |-> TRUE]
           joins == IF token = rooms[r].slots[s].token THEN rooms[r].joins ELSE token[2]
           seats == [rooms[r].slots EXCEPT ![s] = seat]
           q == [rooms[r] EXCEPT !.slots = seats, !.joins = joins]
           ack == [type |-> "HANDSHAKE_ACK", seat |-> s, token |-> token]
           all == <<ack>> \o ms
           v == rooms[r].version
<1>1. /\ rooms \in [RoomIds -> ServerRoom] /\ r \in RoomIds /\ rooms[r] \in ServerRoom
      /\ s \in JoinSeats /\ rooms[r].slots \in [JoinSeats -> SeatSlot] /\ v \in Nat
  BY DEF Types, Welcomes, ServerRoom
<1>2. rooms' = [rooms EXCEPT ![r] = q]
  <2>1. rooms' = [rooms EXCEPT ![r].slots[s] = seat, ![r].joins = joins]
    BY <1>1 DEF Welcomes, Welcome, ServerRoom
  <2> HIDE DEF seat, joins
  <2> QED
    BY <1>1, <2>1 DEF ServerRoom
<1>3. seat \in SeatSlot /\ seat.mine /\ seat.status = "CONNECTED" /\ seat.token = token
  BY DEF Welcomes, SeatSlot
<1>4. joins \in Nat
  BY <1>1 DEF Welcomes, Token, ServerRoom
<1> HIDE DEF seat, joins
<1>5. /\ seats \in [JoinSeats -> SeatSlot] /\ seats[s] = seat
      /\ \A t \in JoinSeats : t # s => seats[t] = rooms[r].slots[t]
  BY <1>1, <1>3
<1> HIDE DEF seats
<1>6. /\ q \in ServerRoom /\ q.status = rooms[r].status /\ q.version = v /\ q.slots = seats
      /\ q.joins = joins
  BY <1>1, <1>4, <1>5 DEF ServerRoom
<1> HIDE DEF q
<1>7. /\ rooms' \in [RoomIds -> ServerRoom] /\ RoomsGoOn
      /\ rooms'[r] = q /\ \A t \in RoomIds : t # r => rooms'[t] = rooms[t]
  <2>1. rooms[r].version <= q.version
    BY <1>1, <1>6
  <2>2. rooms[r].status # "WAITING" =>
          \A t \in JoinSeats :
            rooms[r].slots[t].status \in {"CONNECTED", "AWAY"} =>
              q.slots[t].status \in {"CONNECTED", "AWAY"} /\ q.slots[t].token = rooms[r].slots[t].token
    BY <1>3, <1>5, <1>6 DEF Welcomes
  <2>3. q.status = "PLAYING" /\ rooms[r].status # "WAITING" =>
          /\ rooms[r].status = "PLAYING" /\ rooms[r].version <= q.version
          /\ \A t \in JoinSeats :
               rooms[r].slots[t].status \in {"CONNECTED", "AWAY"} =>
                 q.slots[t].status \in {"CONNECTED", "AWAY"} /\ q.slots[t].token = rooms[r].slots[t].token
    BY <1>6, <2>1, <2>2
  <2> HIDE DEF v
  <2> QED
    BY <1>1, <1>2, <1>6, <2>3, Rewritten
<1>8. /\ Ordered(all) /\ 1 \in DOMAIN all /\ all[1] = ack /\ all # << >>
      /\ \A n \in DOMAIN all : n # 1 => all[n].type = "STATE_UPDATE" /\ rooms[r].status = "PLAYING"
                                        /\ all[n].update.of = <<r, v>> /\ n = 2
                                        /\ all[n] = StateUpdate(r, s, v)
  <2>1. CASE ms = << >>
    <3>1. all = <<ack>>
      BY <2>1
    <3> HIDE DEF ack
    <3>2. <<ack>> \in Seq({ack}) /\ DOMAIN <<ack>> = {1} /\ <<ack>>[1] = ack /\ <<ack>> # << >>
      OBVIOUS
    <3>3. Ordered(<<ack>>)
      BY <3>2, OfItsOwn
    <3> HIDE DEF all
    <3> QED
      BY <3>1, <3>2, <3>3
  <2>2. CASE rooms[r].status = "PLAYING" /\ ms = <<StateUpdate(r, s, v)>>
    <3> DEFINE u == StateUpdate(r, s, v)
    <3>1. ms = <<u>>
      BY <2>2
    <3>2. u.type = "STATE_UPDATE" /\ u.update.of = <<r, v>>
      BY UpdateIsOf
    <3> HIDE DEF u, ack
    <3>3. all = <<ack>> \o <<u>>
      BY <3>1
    <3>4. /\ <<ack>> \in Seq({ack}) /\ Len(<<ack>>) = 1 /\ DOMAIN <<ack>> = {1} /\ <<ack>>[1] = ack
          /\ <<u>> \in Seq({u}) /\ Len(<<u>>) = 1 /\ DOMAIN <<u>> = {1} /\ <<u>>[1] = u
      OBVIOUS
    <3>5. Ordered(<<ack>>) /\ Ordered(<<u>>)
      BY <3>4, OfItsOwn
    <3>6. /\ Ordered(all) /\ DOMAIN all = 1 .. 2
          /\ \A n \in DOMAIN <<ack>> : all[n] = <<ack>>[n]
          /\ \A n \in DOMAIN all : n \in DOMAIN <<ack>> \/ all[n] = <<u>>[n - 1]
      <4> DEFINE a1 == <<ack>>
                 u1 == <<u>>
      <4>1. Len(a1) = 1 /\ Len(u1) = 1 /\ Ordered(a1) /\ Ordered(u1) /\ all = a1 \o u1
        BY <3>3, <3>4, <3>5
      <4> HIDE DEF a1, u1, all
      <4>2. /\ Ordered(all) /\ DOMAIN all = 1 .. 2
            /\ \A n \in DOMAIN a1 : all[n] = a1[n]
            /\ \A n \in DOMAIN all : n \in DOMAIN a1 \/ all[n] = u1[n - 1]
        <5>1. /\ Ordered(a1 \o u1) /\ DOMAIN (a1 \o u1) = 1 .. Len(a1) + Len(u1)
              /\ \A n \in DOMAIN a1 : (a1 \o u1)[n] = a1[n]
              /\ \A n \in DOMAIN (a1 \o u1) :
                   n \in DOMAIN a1 \/ (n > Len(a1) /\ n - Len(a1) \in DOMAIN u1
                                       /\ (a1 \o u1)[n] = u1[n - Len(a1)])
          BY ONLY <4>1, Joined
        <5> QED
          BY <4>1, <5>1
      <4> QED
        BY <4>2 DEF a1, u1
    <3> HIDE DEF all
    <3>7. all[1] = ack /\ all[2] = u
      BY <3>4, <3>6
    <3>8. all # << >> /\ \A n \in DOMAIN all : n \in {1, 2}
      BY <3>6
    <3> QED
      BY <2>2, <3>2, <3>6, <3>7, <3>8 DEF u
  <2> QED
    BY <2>1, <2>2 DEF Welcomes
<1>9. /\ conn'.up = << >> /\ conn'.down = all /\ conn'.st = "OPEN"
      /\ DOMAIN conn' = {"st", "up", "down", "closing"}
  <2>1. conn'.down = (<< >> \o <<ack>>) \o ms /\ << >> \o <<ack>> = <<ack>>
    BY DEF Welcomes, Welcome, Types
  <2> QED
    BY <2>1 DEF Welcomes, Welcome, Types
<1> HIDE DEF all
<1>10. UNCHANGED <<g_state, g_seat, g_room, g_session_token, g_view_queue, gs, shown, saved>>
  BY DEF Welcomes
<1>11. Greeted' /\ Due' = token /\ DueSeat' = s /\ r = g_room /\ token \in Token
  BY <1>8, <1>9, <1>10 DEF Greeted, Due, DueSeat, Welcomes
<1>12. Types'
  BY <1>7, <1>8, <1>9, <1>10 DEF Types
<1>13. HandshakeOK'
  <2>1. \A n \in DOMAIN all : /\ all[n].type \in Answers => n = 1
                              /\ all[n].type = "HANDSHAKE_ACK" => all[n].token \in Token
    BY <1>8, <1>11 DEF Answers
  <2>2. all[1].type \in Answers /\ g_room # 0
    BY <1>8 DEF Answers, RoomIds
  <2> QED
    BY <1>9, <1>10, <2>1, <2>2 DEF HandshakeOK
<1>14. BoundOK'
  <2>1. \A t \in RoomIds, i \in JoinSeats :
          rooms'[t].slots[i].mine => t = r /\ rooms'[t].slots[i] = seat
    BY <1>5, <1>6, <1>7
  <2> QED
    BY <1>3, <1>9, <1>10, <1>11, <2>1 DEF BoundOK
<1>15. /\ \A v1 \in Coming' : v1[1] = r /\ v1[2] = v /\ rooms[r].status = "PLAYING"
       /\ \A n \in Updates(all) : /\ n = 2 /\ all[n].update.of[2] = v
                                  /\ all[n] = StateUpdate(r, s, v) /\ rooms[r].status = "PLAYING"
  <2>1. \A n \in Updates(all) : n # 1
    BY <1>8 DEF Updates
  <2>2. \A n \in Updates(all) : /\ all[n].update.of = <<r, v>> /\ rooms[r].status = "PLAYING" /\ n = 2
                                /\ all[n] = StateUpdate(r, s, v)
    BY <1>8, <2>1 DEF Updates
  <2>3. Coming' = {all[n].update.of : n \in Updates(all)}
    BY <1>9, <1>10, Nothing DEF Coming
  <2> QED
    BY <2>2, <2>3
<1>16. OrderOK'
  <2>1. rooms[r].status = "PLAYING" /\ shown[1] = r => shown[2] <= v
    BY <1>1, <1>11 DEF MadeOK, Made
  <2>2. shown[1] \in RoomIds \cup {0} /\ shown[2] \in Nat
    BY DEF OrderOK
  <2>3. \A m, n \in Updates(all) : m <= n => all[m].update.of[2] <= all[n].update.of[2]
    BY <1>1, <1>15
  <2>4. \A w \in Coming' : w[1] = g_room /\ w[2] \in Nat /\ (shown[1] = g_room => shown[2] <= w[2])
    BY <1>1, <1>11, <1>15, <2>1
  <2>5. DOMAIN g_view_queue = {}
    OBVIOUS
  <2> QED
    BY <1>9, <1>10, <2>2, <2>3, <2>4, <2>5 DEF OrderOK
<1>17. MadeOK'
  <2>1. ASSUME NEW w, w[2] \in Nat, Made(w) PROVE Made(w)'
    BY <1>1, <1>7, <2>1, StaysMade
  <2>2. \A w : w[2] \in Nat /\ Made(w) =>
            (w[1] \in RoomIds =>
               /\ rooms'[w[1]].status # "WAITING"
               /\ rooms'[w[1]].status = "PLAYING" => w[2] <= rooms'[w[1]].version)
    BY <2>1 DEF Made
  <2>3. Made(shown)'
    BY <1>10, <2>2 DEF Made, MadeOK, OrderOK
  <2>4. \A w \in Coming' : Made(w)'
    BY <1>1, <1>6, <1>7, <1>15 DEF Made
  <2> QED
    BY <2>3, <2>4 DEF MadeOK
<1>18. HeldOK'
  <2>1. \A room, tok : Held(room, tok) =>
          /\ room \in RoomIds /\ rooms'[room].status # "WAITING"
          /\ rooms'[room].status = "PLAYING" =>
               \E i \in JoinSeats : /\ rooms'[room].slots[i].token = tok
                                    /\ rooms'[room].slots[i].status \in {"CONNECTED", "AWAY"}
    <3>1. \A room, tok : Held(room, tok) => Held(room, tok)'
      BY <1>7, StaysHeld
    <3> QED
      BY <3>1 DEF Held, Opens
  <2>2. saved'.valid => Held(saved.room, saved.token)'
    <3>1. saved.valid =>
            /\ saved.room \in RoomIds /\ rooms'[saved.room].status # "WAITING"
            /\ rooms'[saved.room].status = "PLAYING" =>
                 \E i \in JoinSeats : /\ rooms'[saved.room].slots[i].token = saved.token
                                      /\ rooms'[saved.room].slots[i].status \in {"CONNECTED", "AWAY"}
      BY <2>1 DEF HeldOK
    <3> QED
      BY <1>10, <3>1 DEF Held, Opens
  <2>3. gs # NoGame => rooms[r].status = "PLAYING" /\ token = g_session_token
    BY <1>1, <1>11 DEF HeldOK, Held, Welcomes
  <2>4. rooms[r].status = "PLAYING" => Held(g_room, Due)'
    <3>1. /\ rooms'[r].status = rooms[r].status /\ rooms'[r].slots[s].token = token
          /\ rooms'[r].slots[s].status = "CONNECTED"
      BY <1>3, <1>5, <1>6, <1>7
    <3> QED
      BY <1>1, <1>10, <1>11, <3>1 DEF Held, Opens
  <2> QED
    BY <1>10, <1>11, <1>15, <2>2, <2>3, <2>4 DEF HeldOK
<1>19. IInv'
  BY <1>12, <1>13, <1>14, <1>16, <1>17, <1>18
<1>20. /\ rooms'[r].status = rooms[r].status /\ rooms'[r].version = v /\ rooms'[r].joins = joins
       /\ rooms'[r].slots[s] = seat /\ \A t \in JoinSeats : t # s => rooms'[r].slots[t] = rooms[r].slots[t]
  BY <1>1, <1>5, <1>6, <1>7
<1>21. \A n \in Updates(conn'.down) : /\ rooms[r].status = "PLAYING"
                                      /\ conn'.down[n] = StateUpdate(r, s, v)
  BY <1>9, <1>15
<1> HIDE DEF IInv
<1> QED
  BY <1>1, <1>7, <1>11, <1>15, <1>19, <1>20, <1>21 DEF seat, joins

LEMMA HandshakeAnswered ==
  ASSUME IInv, HandshakeArrives
  PROVE  Rejects \/ \E r, s, token, ms : Welcomes(r, s, token, ms)
<1>1. /\ conn.up # << >>
      /\ UNCHANGED <<g_state, g_seat, g_room, g_session_token, g_view_queue, gs, shown, saved>>
  BY DEF HandshakeArrives, NetworkVars, clientVars, shownVars
<1>2. /\ Head(conn.up).room = g_room /\ Head(conn.up).token = g_session_token /\ g_room \in RoomIds
      /\ g_session_token \in Token
  BY <1>1, Waits DEF IInv, Types
<1>3. rooms[g_room] \in ServerRoom /\ rooms[g_room].joins \in Nat
  BY <1>2 DEF IInv, Types, ServerRoom
<1>4. \A seats \in SUBSET JoinSeats : seats # {} => Min(seats) \in JoinSeats /\ Min(seats) \in seats
  BY SeatsHaveEnds
<1>5. CASE rooms[g_room].status = "WAITING"
  <2> DEFINE empty == {s \in JoinSeats : rooms[g_room].slots[s].status = "EMPTY"}
             token == <<g_room, rooms[g_room].joins + 1>>
  <2>1. RoomJoin(g_room)
    BY <1>2, <1>5 DEF HandshakeArrives
  <2>2. CASE empty = {}
    BY <1>1, <2>1, <2>2 DEF RoomJoin, Rejects
  <2>3. CASE empty # {}
    <3>1. token \in Token
      BY <1>2, <1>3 DEF Token, RoomIds
    <3>2. Min(empty) \in JoinSeats
      BY <1>4, <2>3
    <3>3. Welcome(g_room, Min(empty), token, << >>)
      BY <2>1, <2>3 DEF RoomJoin
    <3> HIDE DEF empty
    <3>4. Welcomes(g_room, Min(empty), token, << >>)
      BY <1>1, <1>5, <3>1, <3>2, <3>3 DEF Welcomes
    <3> QED
      BY <3>4
  <2> QED
    BY <2>2, <2>3
<1>6. CASE rooms[g_room].status = "PLAYING"
  <2> DEFINE matching == {s \in JoinSeats : /\ rooms[g_room].slots[s].status = "AWAY"
                                            /\ rooms[g_room].slots[s].token = g_session_token}
             ms == <<StateUpdate(g_room, Min(matching), rooms[g_room].version)>>
  <2>1. RoomReconnect(g_room, g_session_token)
    BY <1>2, <1>6 DEF HandshakeArrives
  <2>2. CASE matching = {}
    BY <1>1, <2>1, <2>2 DEF RoomReconnect, Rejects
  <2>3. CASE matching # {}
    <3>1. /\ Min(matching) \in JoinSeats /\ rooms[g_room].slots[Min(matching)].status = "AWAY"
          /\ rooms[g_room].slots[Min(matching)].token = g_session_token
      BY <1>4, <2>3
    <3>2. Welcome(g_room, Min(matching), g_session_token, ms)
      BY <2>1, <2>3 DEF RoomReconnect
    <3>3. ms = <<StateUpdate(g_room, Min(matching), rooms[g_room].version)>>
      OBVIOUS
    <3> HIDE DEF matching, ms
    <3>4. Welcomes(g_room, Min(matching), g_session_token, ms)
      BY <1>1, <1>2, <1>6, <3>1, <3>2, <3>3 DEF Welcomes
    <3> QED
      BY <3>4
  <2> QED
    BY <2>2, <2>3
<1>7. CASE rooms[g_room].status = "GONE"
  <2>1. Reject /\ UNCHANGED rooms
    BY <1>2, <1>7 DEF HandshakeArrives
  <2> QED
    BY <1>1, <2>1 DEF Rejects
<1> QED
  BY <1>3, <1>5, <1>6, <1>7 DEF ServerRoom

-----------------------------------------------------------------------------
(* The invariant.                                                            *)

LEMMA InitSatisfies ==
  ASSUME Init
  PROVE  IInv
<1>1. NoToken \in Token /\ NoSaved \in SavedInfo /\ ~NoSaved.valid
  BY NoSavedIsTyped DEF NoToken, Token
<1>2. /\ DOMAIN conn = {"st", "up", "down", "closing"} /\ conn.st = "NONE"
      /\ conn.up = << >> /\ conn.down = << >>
  BY DEF Init, NoConn
<1>3. EmptySeat \in SeatSlot /\ ~EmptySeat.mine
  BY DEF EmptySeat, SeatSlot, NoToken, Token
<1>4. 0 \in 0 .. Len(Story)
  BY StoryAssumption
<1>5. NewRoom \in ServerRoom /\ NewRoom.slots = [s \in JoinSeats |-> EmptySeat]
  BY <1>3, <1>4 DEF NewRoom, ServerRoom
<1>6. /\ rooms \in [RoomIds -> ServerRoom]
      /\ \A r \in RoomIds, s \in JoinSeats : ~rooms[r].slots[s].mine
  <2> HIDE DEF NewRoom
  <2> QED
    BY <1>3, <1>5 DEF Init
<1>7. g_state = "DISCONNECTED" /\ g_view_queue = << >> /\ ~Greeted
  BY DEF Init, Greeted
<1>8. Updates(conn.down) = {} /\ Coming = {}
  BY <1>2, <1>7, Nothing DEF Coming
<1>9. Types
  BY <1>1, <1>2, <1>6, Nothing DEF Init, Types
<1>10. HandshakeOK
  BY <1>2, <1>7 DEF HandshakeOK
<1>11. BoundOK
  BY <1>6 DEF BoundOK
<1>12. shown[1] = 0 /\ shown[2] = 0 /\ 0 \notin RoomIds
  BY DEF Init, RoomIds
<1>13. OrderOK
  BY <1>7, <1>8, <1>12 DEF OrderOK
<1>14. MadeOK
  BY <1>8, <1>12 DEF MadeOK, Made
<1>15. HeldOK
  BY <1>1, <1>8 DEF Init, HeldOK
<1> QED
  BY <1>9, <1>10, <1>11, <1>13, <1>14, <1>15 DEF IInv

\* What a step is.
LEMMA StepIs ==
  ASSUME IInv, [Next]_vars
  PROVE  \/ ScreenOnly \/ HangsUp \/ ReadsOn \/ SendHandshake \/ ConnectionOpens \/ MenuSeesGame
         \/ ShowView \/ (\E ms, ver : Sends(ms, ver))
         \/ Rejects \/ (\E r, s, token, ms : Welcomes(r, s, token, ms))
<1>1. CASE UNCHANGED vars
  BY <1>1 DEF vars, clientVars, shownVars, ScreenOnly
<1>2. CASE ClientNetUpdate
  BY <1>2, Closes, AckReads, StateUpdateReads, PassConfirmedReads DEF ClientNetUpdate
<1>3. CASE Menu
  BY <1>3, Closes, Cancels, StaysOnTheScreen DEF Menu
<1>4. CASE ShowPassConfirmed
  BY <1>4, StaysOnTheScreen
<1>5. CASE Player
  BY <1>5, StaysOnTheScreen, LeavesFinishedGame, Closes DEF Player
<1>6. CASE Environment
  BY <1>6, Closes, HandshakeAnswered, GameStartsSent, GameMovesOnSent, RoomClosesSent,
     PassConfirmedSent, ServerNoticesDropSent DEF Environment
<1> QED
  BY <1>1, <1>2, <1>3, <1>4, <1>5, <1>6 DEF Next

LEMMA StepKeeps ==
  ASSUME IInv, [Next]_vars
  PROVE  IInv'
BY StepIs, OnTheScreen, HungUp, ReadOn, SendHandshakeKeeps, ConnectionOpensKeeps,
   MenuSeesGameKeeps, ShowViewKeeps, Sent, Rejected, Welcomed

LEMMA AlwaysIInv == Spec => []IInv
BY InitSatisfies, StepKeeps, PTL DEF Spec

-----------------------------------------------------------------------------
(* Finite sets.                                                              *)

\* Induction is on the subsets of a finite set: a family of them that is not empty has a
\* smallest member.
LEMMA SmallestSet ==
  ASSUME NEW S, IsFiniteSet(S), NEW T, T \subseteq SUBSET S, T # {}
  PROVE  \E x \in T : \A y \in T : y \subseteq x => y = x
<1>1. IsWellFoundedOn(StrictSubsetOrdering(S), SUBSET S)
  BY FS_StrictSubsetOrderingWellFounded, FS_FiniteSubsetsOfFinite
<1>2. PICK x \in T : \A y \in T : ~ (<<y, x>> \in StrictSubsetOrdering(S))
  BY <1>1, WFMin, Zenon
<1>3. ASSUME NEW y \in T, y \subseteq x PROVE y = x
  <2>1. <<y, x>> \in (SUBSET S) \X (SUBSET S)
    BY <1>3
  <2>2. <<y, x>>[1] = y /\ <<y, x>>[2] = x
    OBVIOUS
  <2> QED
    BY <1>2, <1>3, <2>1, <2>2 DEF StrictSubsetOrdering
<1> QED
  BY <1>3

\* The least of some numbers, which Min chooses.
LEMMA Least ==
  ASSUME NEW m \in Nat, NEW N, N \subseteq 0 .. m, N # {}
  PROVE  Min(N) \in N /\ \A n \in N : Min(N) <= n
<1> DEFINE S == 0 .. m
           T == {0 .. n : n \in N}
<1>1. IsFiniteSet(S)
  BY FS_Interval
<1>2. PICK x \in T : \A y \in T : y \subseteq x => y = x
  <2>1. \A n \in N : 0 .. n \subseteq S
    OBVIOUS
  <2>2. T \subseteq SUBSET S /\ T # {}
    BY <2>1
  <2> HIDE DEF S, T
  <2> QED
    BY <1>1, <2>2, SmallestSet
<1>3. PICK l \in N : x = 0 .. l
  OBVIOUS
<1>4. ASSUME NEW n \in N PROVE l <= n
  <2>1. l \in Nat /\ n \in Nat
    OBVIOUS
  <2>2. 0 .. n \in T
    OBVIOUS
  <2>3. n <= l => 0 .. n \subseteq 0 .. l
    BY <2>1
  <2>4. n <= l => 0 .. n = 0 .. l
    BY <1>2, <1>3, <2>2, <2>3
  <2> QED
    BY <2>1, <2>4
<1> QED
  BY <1>4 DEF Min

-----------------------------------------------------------------------------
(* The order of a hand.                                                      *)

\* The cards of the new hand that may come k-th, and the order with one of them.
Left(old, new, k, done) ==
  (IF k <= Len(old) THEN {n \in DOMAIN new : new[n] = old[k]} ELSE {k - Len(old)}) \ Range(done)
Grown(old, new, k, done) ==
  IF Left(old, new, k, done) = {} THEN done ELSE Append(done, Min(Left(old, new, k, done)))
IsOrder(old, new, m, f) ==
  f = [k \in 0 .. m |-> IF k = 0 THEN << >> ELSE Grown(old, new, k, f[k - 1])]

LEMMA OrderExists ==
  ASSUME NEW old, NEW new, NEW m \in Nat
  PROVE  \E f : IsOrder(old, new, m, f)
<1> DEFINE N == {n \in 0 .. m : ~\E f : IsOrder(old, new, n, f)}
<1>1. SUFFICES ASSUME N # {} PROVE FALSE
  OBVIOUS
<1>2. PICK l \in N : \A n \in N : l <= n
  <2> N \subseteq 0 .. m
    OBVIOUS
  <2> HIDE DEF N
  <2> QED
    BY <1>1, Least
<1>3. CASE l = 0
  <2> DEFINE f == [k \in 0 .. 0 |-> << >>]
  <2>1. f = [k \in 0 .. 0 |-> IF k = 0 THEN << >> ELSE Grown(old, new, k, f[k - 1])]
    OBVIOUS
  <2>2. IsOrder(old, new, 0, f)
    BY <2>1 DEF IsOrder
  <2> QED
    BY <1>3, <2>2
<1>4. CASE l # 0
  <2>1. l - 1 \in 0 .. m /\ l - 1 \notin N /\ l \in Nat \ {0}
    BY <1>2, <1>4
  <2>2. PICK g : IsOrder(old, new, l - 1, g)
    BY <2>1
  <2> DEFINE f == [k \in 0 .. l |-> IF k < l THEN g[k] ELSE Grown(old, new, k, g[k - 1])]
  <2>3. \A k \in 0 .. l - 1 : g[k] = IF k = 0 THEN << >> ELSE Grown(old, new, k, g[k - 1])
    <3>1. g = [k \in 0 .. l - 1 |-> IF k = 0 THEN << >> ELSE Grown(old, new, k, g[k - 1])]
      BY <2>2 DEF IsOrder
    <3> QED
      BY <3>1, Zenon
  <2>4. \A k \in 0 .. l : f[k] = IF k = 0 THEN << >> ELSE Grown(old, new, k, f[k - 1])
    BY <2>1, <2>3
  <2>5. f = [k \in 0 .. l |-> f[k]]
    OBVIOUS
  <2> HIDE DEF f
  <2>6. f = [k \in 0 .. l |-> IF k = 0 THEN << >> ELSE Grown(old, new, k, f[k - 1])]
    BY <2>4, <2>5
  <2>7. IsOrder(old, new, l, f)
    BY <2>6 DEF IsOrder
  <2> QED
    BY <2>7
<1> QED
  BY <1>3, <1>4

LEMMA ArrangementIsOrder ==
  ASSUME NEW old, NEW new, Len(old) \in Nat, Len(new) \in Nat
  PROVE  \E f : /\ IsOrder(old, new, Len(old) + Len(new), f)
                /\ Arrangement(old, new) = f[Len(old) + Len(new)]
<1> DEFINE m == Len(old) + Len(new)
           f == CHOOSE h : IsOrder(old, new, m, h)
<1>1. m \in Nat
  OBVIOUS
<1>2. IsOrder(old, new, m, f)
  BY <1>1, OrderExists
<1>3. Arrangement(old, new) = f[m]
  BY DEF Arrangement, IsOrder, Grown, Left
<1> QED
  BY <1>2, <1>3

\* What the first k steps have laid out: places of the new hand, none twice; as far as the
\* old cards go only theirs, afterwards every place passed; and in the order of the old
\* cards: a card comes before those that the old hand does not have so early.
Laid(old, new, k, done) ==
  /\ done \in Seq(DOMAIN new)
  /\ \A i, j \in DOMAIN done : done[i] = done[j] => i = j
  /\ k <= Len(old) => \A i \in DOMAIN done : \E o \in 1 .. k : new[done[i]] = old[o]
  /\ \A n \in 1 .. k - Len(old) : n \in Range(done)
  /\ \A o \in DOMAIN old : \A d :
       o <= k /\ old[o] \in Range(new) /\ (\A p \in 1 .. o : old[p] # d) =>
         \E i \in DOMAIN done : /\ new[done[i]] = old[o]
                                /\ \A j \in 1 .. i : new[done[j]] # d

LEMMA LaidAtFirst ==
  ASSUME NEW S, NEW old \in Seq(S), NEW T, NEW new \in Seq(T)
  PROVE  Laid(old, new, 0, << >>)
BY DEF Laid

LEMMA LaidFurther ==
  ASSUME NEW S, NEW old \in Seq(S), NEW T, NEW new \in Seq(T),
         NEW k \in 1 .. Len(old) + Len(new), NEW done, Laid(old, new, k - 1, done)
  PROVE  Laid(old, new, k, Grown(old, new, k, done))
<1> DEFINE left == Left(old, new, k, done)
           after == Grown(old, new, k, done)
<1>1. /\ done \in Seq(DOMAIN new) /\ Len(done) \in Nat /\ DOMAIN done = 1 .. Len(done)
      /\ Len(old) \in Nat /\ DOMAIN old = 1 .. Len(old)
      /\ Len(new) \in Nat /\ DOMAIN new = 1 .. Len(new)
  BY DEF Laid
<1>2. CASE left = {}
  <2>1. after = done
    BY <1>2 DEF Grown
  <2>2. k <= Len(old) => \A i \in DOMAIN done : \E o \in 1 .. k : new[done[i]] = old[o]
    <3>1. k - 1 <= Len(old) => \A i \in DOMAIN done : \E o \in 1 .. k - 1 : new[done[i]] = old[o]
      BY DEF Laid
    <3>2. 1 .. k - 1 \subseteq 1 .. k /\ (k <= Len(old) => k - 1 <= Len(old))
      BY <1>1
    <3> QED
      BY <3>1, <3>2
  <2>3. \A n \in 1 .. k - Len(old) : n \in Range(done)
    <3> SUFFICES ASSUME NEW n \in 1 .. k - Len(old) PROVE n \in Range(done)
      OBVIOUS
    <3>1. CASE n <= (k - 1) - Len(old)
      BY <1>1, <3>1 DEF Laid
    <3>2. CASE n = k - Len(old)
      <4>1. ~(k <= Len(old))
        BY <1>1, <3>2
      <4>2. {n} \ Range(done) = {}
        BY <1>2, <3>2, <4>1 DEF Left
      <4> QED
        BY <4>2
    <3>3. n <= (k - 1) - Len(old) \/ n = k - Len(old)
      BY <1>1
    <3> QED
      BY <3>1, <3>2, <3>3
  <2>4. ASSUME NEW o \in DOMAIN old, NEW d,
               o <= k, old[o] \in Range(new), \A p \in 1 .. o : old[p] # d
        PROVE  \E i \in DOMAIN done : /\ new[done[i]] = old[o]
                                      /\ \A j \in 1 .. i : new[done[j]] # d
    <3>1. CASE o <= k - 1
      BY <2>4, <3>1 DEF Laid
    <3>2. CASE o = k
      <4>1. PICK n \in DOMAIN new : new[n] = old[k]
        BY <2>4, <3>2 DEF Range
      <4>2. n \in Range(done)
        BY <1>1, <1>2, <3>2, <4>1 DEF Left
      <4>3. PICK i \in DOMAIN done : done[i] = n
        BY <4>2 DEF Range
      <4>4. \A j \in DOMAIN done : \E p \in 1 .. k - 1 : new[done[j]] = old[p]
        <5>1. k - 1 <= Len(old)
          BY <1>1, <3>2
        <5> QED
          BY <5>1 DEF Laid
      <4>5. ASSUME NEW j \in 1 .. i PROVE new[done[j]] # d
        <5>1. j \in DOMAIN done
          BY <1>1
        <5>2. PICK p \in 1 .. k - 1 : new[done[j]] = old[p]
          BY <4>4, <5>1
        <5>3. p \in 1 .. o
          BY <3>2
        <5> QED
          BY <2>4, <5>2, <5>3
      <4> QED
        BY <3>2, <4>1, <4>3, <4>5
    <3> QED
      BY <1>1, <2>4, <3>1, <3>2
  <2> QED
    BY <2>1, <2>2, <2>3, <2>4 DEF Laid
<1>3. CASE left # {}
  <2> DEFINE next == Min(left)
             m == Len(done)
  <2>1. left \subseteq DOMAIN new
    BY <1>1 DEF Left
  <2>2. next \in left
    <3>1. left \subseteq 0 .. Len(new)
      BY <1>1, <2>1
    <3> HIDE DEF left
    <3> QED
      BY <1>1, <1>3, <3>1, Least
  <2>3. next \in DOMAIN new /\ next \notin Range(done)
    BY <2>1, <2>2 DEF Left
  <2>4. after = Append(done, next)
    BY <1>3 DEF Grown
  <2> HIDE DEF left, next, after
  <2>5. /\ after \in Seq(DOMAIN new) /\ DOMAIN after = 1 .. m + 1 /\ after[m + 1] = next
        /\ \A i \in 1 .. m : after[i] = done[i]
    BY <1>1, <2>3, <2>4
  <2>6. \A i \in 1 .. m : done[i] # next
    BY <1>1, <2>3 DEF Range
  <2>7. \A i, j \in DOMAIN after : after[i] = after[j] => i = j
    <3>1. \A i, j \in 1 .. m : done[i] = done[j] => i = j
      BY <1>1 DEF Laid
    <3>2. \A i \in 1 .. m + 1 : i \in 1 .. m \/ i = m + 1
      BY <1>1
    <3> QED
      BY <2>5, <2>6, <3>1, <3>2
  <2>8. k <= Len(old) => new[next] = old[k]
    BY <2>2 DEF left, Left
  <2>9. k > Len(old) => next = k - Len(old)
    BY <1>1, <2>2 DEF left, Left
  <2>10. k <= Len(old) => \A i \in 1 .. m : \E o \in 1 .. k - 1 : new[done[i]] = old[o]
    BY <1>1 DEF Laid
  <2>11. k <= Len(old) => \A i \in DOMAIN after : \E o \in 1 .. k : new[after[i]] = old[o]
    <3> SUFFICES ASSUME k <= Len(old), NEW i \in DOMAIN after
                 PROVE  \E o \in 1 .. k : new[after[i]] = old[o]
      OBVIOUS
    <3>1. CASE i = m + 1
      BY <2>5, <2>8, <3>1
    <3>2. CASE i # m + 1
      <4>1. i \in 1 .. m
        BY <1>1, <2>5, <3>2
      <4>2. PICK o \in 1 .. k - 1 : new[done[i]] = old[o]
        BY <2>10, <4>1
      <4>3. o \in 1 .. k
        OBVIOUS
      <4> QED
        BY <2>5, <4>1, <4>2, <4>3
    <3> QED
      BY <3>1, <3>2
  <2>12. \A n \in 1 .. k - Len(old) : n \in Range(after)
    <3> SUFFICES ASSUME NEW n \in 1 .. k - Len(old) PROVE \E i \in DOMAIN after : after[i] = n
      BY DEF Range
    <3>1. CASE n <= (k - 1) - Len(old)
      <4>1. PICK i \in DOMAIN done : done[i] = n
        BY <1>1, <3>1 DEF Laid, Range
      <4>2. i \in 1 .. m /\ i \in DOMAIN after
        BY <1>1, <2>5
      <4> QED
        BY <2>5, <4>1, <4>2
    <3>2. CASE n = k - Len(old)
      <4>1. n = next
        BY <1>1, <2>9, <3>2
      <4>2. m + 1 \in DOMAIN after
        BY <1>1, <2>5
      <4> QED
        BY <2>5, <4>1, <4>2
    <3>3. n <= (k - 1) - Len(old) \/ n = k - Len(old)
      BY <1>1
    <3> QED
      BY <3>1, <3>2, <3>3
  <2>13. ASSUME NEW o \in DOMAIN old, NEW d,
                o <= k, old[o] \in Range(new), \A p \in 1 .. o : old[p] # d
         PROVE  \E i \in DOMAIN after : /\ new[after[i]] = old[o]
                                        /\ \A j \in 1 .. i : new[after[j]] # d
    <3>1. CASE o <= k - 1
      <4>1. PICK i \in DOMAIN done : /\ new[done[i]] = old[o]
                                     /\ \A j \in 1 .. i : new[done[j]] # d
        BY <2>13, <3>1 DEF Laid
      <4>2. i \in 1 .. m /\ i \in DOMAIN after /\ \A j \in 1 .. i : j \in 1 .. m
        BY <1>1, <2>5
      <4> QED
        BY <2>5, <4>1, <4>2
    <3>2. CASE o = k
      <4>1. \A j \in DOMAIN after : \E p \in 1 .. k : new[after[j]] = old[p]
        BY <1>1, <2>11, <3>2
      <4>2. \A j \in DOMAIN after : new[after[j]] # d
        BY <2>13, <3>2, <4>1
      <4>3. m + 1 \in DOMAIN after /\ \A j \in 1 .. m + 1 : j \in DOMAIN after
        BY <1>1, <2>5
      <4>4. new[after[m + 1]] = old[o]
        BY <1>1, <2>5, <2>8, <3>2
      <4> QED
        BY <4>2, <4>3, <4>4
    <3> QED
      BY <1>1, <2>13, <3>1, <3>2
  <2> QED
    BY <2>5, <2>7, <2>11, <2>12, <2>13 DEF Laid, after
<1> QED
  BY <1>2, <1>3

\* A new hand is laid out whole, each of its cards once.
LEMMA Arranged ==
  ASSUME NEW S, NEW old \in Seq(S), NEW T, NEW new \in Seq(T)
  PROVE  LET order == Arrangement(old, new)
         IN  /\ Laid(old, new, Len(old) + Len(new), order)
             /\ order \in Seq(DOMAIN new) /\ Len(order) = Len(new)
             /\ \A i, j \in DOMAIN order : order[i] = order[j] => i = j
             /\ \A n \in DOMAIN new : n \in Range(order)
<1> DEFINE order == Arrangement(old, new)
           m == Len(old) + Len(new)
<1>1. /\ Len(old) \in Nat /\ DOMAIN old = 1 .. Len(old)
      /\ Len(new) \in Nat /\ DOMAIN new = 1 .. Len(new) /\ m \in Nat
  OBVIOUS
<1>2. PICK f : IsOrder(old, new, m, f) /\ order = f[m]
  BY <1>1, ArrangementIsOrder
<1>3. \A k \in 0 .. m : f[k] = IF k = 0 THEN << >> ELSE Grown(old, new, k, f[k - 1])
  <2>1. f = [k \in 0 .. m |-> IF k = 0 THEN << >> ELSE Grown(old, new, k, f[k - 1])]
    BY <1>2 DEF IsOrder
  <2> HIDE DEF m
  <2> QED
    BY <2>1, Zenon
<1> HIDE DEF m
<1>4. \A k \in 0 .. m : Laid(old, new, k, f[k])
  <2> DEFINE N == {k \in 0 .. m : ~Laid(old, new, k, f[k])}
  <2>1. SUFFICES ASSUME N # {} PROVE FALSE
    OBVIOUS
  <2>2. PICK k \in N : \A n \in N : k <= n
    <3> N \subseteq 0 .. m
      OBVIOUS
    <3> HIDE DEF N
    <3> QED
      BY <1>1, <2>1, Least
  <2>3. CASE k = 0
    <3>1. f[0] = << >>
      BY <1>1, <1>3
    <3> QED
      BY <2>3, <3>1, LaidAtFirst
  <2>4. CASE k # 0
    <3>1. k \in 1 .. Len(old) + Len(new) /\ k - 1 \in 0 .. m /\ ~(k <= k - 1)
      BY <1>1, <2>4 DEF m
    <3>2. k - 1 \notin N
      BY <2>2, <3>1
    <3>3. Laid(old, new, k - 1, f[k - 1])
      BY <3>1, <3>2
    <3>4. Laid(old, new, k, Grown(old, new, k, f[k - 1]))
      BY <3>1, <3>3, LaidFurther
    <3> QED
      BY <1>3, <2>4, <3>4
  <2> QED
    BY <2>3, <2>4
<1>5. Laid(old, new, m, order)
  BY <1>1, <1>2, <1>4
<1>6. /\ order \in Seq(DOMAIN new) /\ DOMAIN order = 1 .. Len(order) /\ Len(order) \in Nat
      /\ \A i, j \in DOMAIN order : order[i] = order[j] => i = j
  BY <1>5 DEF Laid
<1>7. \A n \in DOMAIN new : n \in Range(order)
  <2>1. m - Len(old) = Len(new)
    BY <1>1 DEF m
  <2> QED
    BY <1>1, <1>5, <2>1 DEF Laid
<1>8. Len(order) = Len(new)
  <2> DEFINE A == 1 .. Len(order)
             B == 1 .. Len(new)
             o == [i \in A |-> order[i]]
  <2>1. o \in [A -> B] /\ \A i, j \in A : o[i] = o[j] => i = j
    <3>1. \A i \in A : order[i] \in B
      BY <1>1, <1>6
    <3> QED
      BY <1>6, <3>1
  <2>2. \A n \in B : \E i \in A : o[i] = n
    BY <1>1, <1>6, <1>7 DEF Range
  <2>3. /\ IsFiniteSet(A) /\ Cardinality(A) = Len(order)
        /\ IsFiniteSet(B) /\ Cardinality(B) = Len(new)
    <3>1. \A k \in Nat : IsFiniteSet(1 .. k) /\ Cardinality(1 .. k) = k
      BY FS_Interval
    <3> QED
      BY <1>1, <1>6, <3>1
  <2> HIDE DEF A, B, o
  <2>4. o \in Injection(A, B) /\ o \in Surjection(A, B)
    BY <2>1, <2>2 DEF Injection, Surjection, IsInjective
  <2>5. Cardinality(A) = Cardinality(B)
    BY <2>3, <2>4, FS_Injection
  <2> QED
    BY <2>3, <2>5
<1> QED
  BY <1>5, <1>6, <1>7, <1>8 DEF m

-----------------------------------------------------------------------------
(* The same cards in another order.                                          *)

\* p turns the places 1 to n around.
Permutes(p, n) ==
  /\ \A i \in 1 .. n : p[i] \in 1 .. n
  /\ \A i, j \in 1 .. n : p[i] = p[j] => i = j
  /\ \A j \in 1 .. n : \E i \in 1 .. n : p[i] = j

\* p turns the n cards of a hand around, and their slots with them.
Rearranges(p, n, hand, slots, hand2, slots2) ==
  /\ n \in Nat /\ Permutes(p, n) /\ DOMAIN hand = 1 .. n /\ DOMAIN hand2 = 1 .. n
  /\ \A i \in 1 .. n : hand2[i] = hand[p[i]] /\ slots2[i] = slots[p[i]]

\* Pairs are counted whatever their order.
LEMMA PairsInAnyOrder ==
  ASSUME NEW p, NEW n, NEW hand, NEW slots, NEW hand2, NEW slots2,
         Rearranges(p, n, hand, slots, hand2, slots2)
  PROVE  PairCounts(hand2, slots2) = PairCounts(hand, slots)
<1> USE DEF Rearranges
<1> DEFINE I == 1 .. n
           pairs == [i \in I |-> <<hand[i], slots[i]>>]
           pairs2 == [i \in I |-> <<hand2[i], slots2[i]>>]
           At(q) == {i \in I : pairs[i] = q}
           At2(q) == {i \in I : pairs2[i] = q}
<1>1. \A i \in I : p[i] \in I /\ pairs2[i] = pairs[p[i]]
  BY DEF Permutes
<1>2. \A j \in I : \E i \in I : p[i] = j
  BY DEF Permutes
<1>3. DOMAIN pairs = I /\ DOMAIN pairs2 = I
  OBVIOUS
<1>4. /\ PairCounts(hand, slots) = [q \in Range(pairs) |-> Cardinality(At(q))]
      /\ PairCounts(hand2, slots2) = [q \in Range(pairs2) |-> Cardinality(At2(q))]
  BY DEF PairCounts
<1>5. \A i, j \in I : p[i] = p[j] => i = j
  BY DEF Permutes
<1>6. IsFiniteSet(I)
  <2>1. \A k \in Nat : IsFiniteSet(1 .. k)
    BY FS_Interval
  <2> QED
    BY <2>1
<1> HIDE DEF I, pairs, pairs2
<1>7. Range(pairs) = Range(pairs2)
  BY <1>1, <1>2, <1>3 DEF Range
<1>8. ASSUME NEW q PROVE Cardinality(At(q)) = Cardinality(At2(q))
  <2> DEFINE A == At(q)
             B == At2(q)
             b == [i \in B |-> p[i]]
  <2>1. b \in [B -> A] /\ \A i, j \in B : b[i] = b[j] => i = j
    BY <1>1, <1>5
  <2>2. \A j \in A : \E i \in B : b[i] = j
    BY <1>1, <1>2
  <2>3. IsFiniteSet(B)
    BY <1>6, FS_Subset
  <2> HIDE DEF A, B, b
  <2>4. b \in Bijection(B, A)
    BY <2>1, <2>2 DEF Bijection, Injection, Surjection, IsInjective
  <2>5. ExistsBijection(B, A)
    BY <2>4 DEF ExistsBijection
  <2>6. Cardinality(A) = Cardinality(B)
    BY <2>3, <2>5, FS_Bijection
  <2> QED
    BY <2>6 DEF A, B
<1> QED
  BY <1>4, <1>7, <1>8

LEMMA OneAfterAnother ==
  ASSUME NEW S, NEW s \in Seq(S), NEW t \in Seq(S), NEW m, Len(s) = m, NEW n, Len(s) + Len(t) = n
  PROVE  /\ s \o t \in Seq(S) /\ Len(s \o t) = n
         /\ \A i \in 1 .. n : (s \o t)[i] = IF i <= m THEN s[i] ELSE t[i - m]
OBVIOUS

LEMMA MovedItem ==
  ASSUME NEW n \in Nat, NEW from \in 1 .. n, NEW to \in 1 .. n
  PROVE  \E p : /\ Permutes(p, n)
                /\ \A S : \A s \in Seq(S) :
                     Len(s) = n =>
                       /\ MoveItem(s, from, to) \in Seq(S) /\ Len(MoveItem(s, from, to)) = n
                       /\ \A i \in 1 .. n : MoveItem(s, from, to)[i] = s[p[i]]
<1> DEFINE p == [i \in 1 .. n |-> IF i = to THEN from
                                  ELSE IF from <= i /\ i < to THEN i + 1
                                  ELSE IF to < i /\ i <= from THEN i - 1 ELSE i]
<1>1. Permutes(p, n)
  <2>1. \A i \in 1 .. n : p[i] \in 1 .. n
    OBVIOUS
  <2>2. \A i, j \in 1 .. n : p[i] = p[j] => i = j
    OBVIOUS
  <2>3. ASSUME NEW j \in 1 .. n PROVE \E i \in 1 .. n : p[i] = j
    <3>1. CASE j = from
      BY <3>1
    <3>2. CASE from < j /\ j <= to
      <4>1. j - 1 \in 1 .. n /\ p[j - 1] = j
        BY <3>2
      <4> QED
        BY <4>1
    <3>3. CASE to <= j /\ j < from
      <4>1. j + 1 \in 1 .. n /\ p[j + 1] = j
        BY <3>3
      <4> QED
        BY <4>1
    <3>4. CASE j # from /\ ~(from < j /\ j <= to) /\ ~(to <= j /\ j < from)
      <4>1. p[j] = j
        BY <3>4
      <4> QED
        BY <4>1
    <3> QED
      BY <3>1, <3>2, <3>3, <3>4
  <2> QED
    BY <2>1, <2>2, <2>3 DEF Permutes
<1>2. ASSUME NEW S, NEW s \in Seq(S), Len(s) = n
      PROVE  /\ MoveItem(s, from, to) \in Seq(S) /\ Len(MoveItem(s, from, to)) = n
             /\ \A i \in 1 .. n : MoveItem(s, from, to)[i] = s[p[i]]
  <2> DEFINE a == SubSeq(s, 1, from - 1)
             b == SubSeq(s, from + 1, n)
             r == RemoveAt(s, from)
             c == SubSeq(r, 1, to - 1)
             d == SubSeq(r, to, Len(r))
             t == MoveItem(s, from, to)
  <2>1. /\ a \in Seq(S) /\ Len(a) = from - 1 /\ \A i \in 1 .. from - 1 : a[i] = s[i]
        /\ b \in Seq(S) /\ Len(b) = n - from /\ \A i \in 1 .. n - from : b[i] = s[from + i]
    BY <1>2
  <2>2. r = a \o b
    BY <1>2 DEF RemoveAt
  <2> HIDE DEF a, b, r
  <2>3. /\ r \in Seq(S) /\ Len(r) = n - 1
        /\ \A i \in 1 .. n - 1 : r[i] = IF i < from THEN s[i] ELSE s[i + 1]
    <3>1. /\ a \in Seq(S) /\ b \in Seq(S)
          /\ Len(a) = from - 1 /\ Len(a) + Len(b) = n - 1
      BY <2>1
    <3>2. /\ r \in Seq(S) /\ Len(r) = n - 1
          /\ \A i \in 1 .. n - 1 : r[i] = IF i <= from - 1 THEN a[i] ELSE b[i - (from - 1)]
      BY <2>2, <3>1, OneAfterAnother
    <3>3. ASSUME NEW i \in 1 .. n - 1 PROVE r[i] = IF i < from THEN s[i] ELSE s[i + 1]
      <4>1. CASE i < from
        <5>1. i \in 1 .. from - 1 /\ i <= from - 1
          BY <4>1
        <5> QED
          BY <2>1, <3>2, <4>1, <5>1
      <4>2. CASE ~(i < from)
        <5>1. /\ i - (from - 1) \in 1 .. n - from /\ ~(i <= from - 1)
              /\ from + (i - (from - 1)) = i + 1
          BY <4>2
        <5> QED
          BY <2>1, <3>2, <4>2, <5>1
      <4> QED
        BY <4>1, <4>2
    <3> QED
      BY <3>2, <3>3
  <2>4. /\ c \in Seq(S) /\ Len(c) = to - 1 /\ \A i \in 1 .. to - 1 : c[i] = r[i]
        /\ d \in Seq(S) /\ Len(d) = n - to /\ \A i \in 1 .. n - to : d[i] = r[to + i - 1]
    BY <2>3
  <2>5. t = c \o << s[from] >> \o d
    BY DEF MoveItem, InsertAt, r
  <2>6. s[from] \in S
    BY <1>2
  <2> HIDE DEF c, d
  <2> DEFINE e == c \o << s[from] >>
  <2>7. /\ e \in Seq(S) /\ Len(e) = to /\ e[to] = s[from]
        /\ \A i \in 1 .. to - 1 : e[i] = c[i]
    <3>1. << s[from] >> \in Seq(S) /\ Len(<< s[from] >>) = 1 /\ << s[from] >>[1] = s[from]
      BY <2>6
    <3>2. Len(c) = to - 1 /\ Len(c) + Len(<< s[from] >>) = to
      BY <2>4, <3>1
    <3>3. /\ e \in Seq(S) /\ Len(e) = to
          /\ \A i \in 1 .. to : e[i] = IF i <= to - 1 THEN c[i] ELSE << s[from] >>[i - (to - 1)]
      BY <2>4, <3>1, <3>2, OneAfterAnother
    <3>4. to \in 1 .. to /\ ~(to <= to - 1) /\ to - (to - 1) = 1
      OBVIOUS
    <3>5. \A i \in 1 .. to - 1 : i \in 1 .. to /\ i <= to - 1
      OBVIOUS
    <3> QED
      BY <3>1, <3>3, <3>4, <3>5
  <2> HIDE DEF e, t
  <2>8. t = e \o d
    BY <2>5 DEF e
  <2>9. /\ t \in Seq(S) /\ Len(t) = n
        /\ \A i \in 1 .. n : t[i] = IF i <= to THEN e[i] ELSE d[i - to]
    <3>1. /\ e \in Seq(S) /\ d \in Seq(S)
          /\ Len(e) = to /\ Len(e) + Len(d) = n
      BY <2>4, <2>7
    <3> QED
      <4> DEFINE u == e \o d
      <4>1. /\ u \in Seq(S) /\ Len(u) = n
            /\ \A i \in 1 .. n : u[i] = IF i <= to THEN e[i] ELSE d[i - to]
        BY <3>1, OneAfterAnother
      <4> HIDE DEF u
      <4> QED
        BY <2>8, <4>1 DEF u
  <2>10. ASSUME NEW i \in 1 .. n PROVE t[i] = s[p[i]]
    <3>1. CASE i = to
      BY <2>7, <2>9, <3>1
    <3>2. CASE i < to
      <4>1. i \in 1 .. to - 1 /\ i \in 1 .. n - 1
        BY <3>2
      <4>2. t[i] = r[i]
        BY <2>4, <2>7, <2>9, <3>2, <4>1
      <4> QED
        BY <2>3, <3>2, <4>1, <4>2
    <3>3. CASE i > to
      <4>1. i - to \in 1 .. n - to /\ to + (i - to) - 1 = i - 1 /\ i - 1 \in 1 .. n - 1
        BY <3>3
      <4>2. t[i] = d[i - to] /\ d[i - to] = r[to + (i - to) - 1]
        <5>1. ~(i <= to)
          BY <3>3
        <5> QED
          BY <2>4, <2>9, <4>1, <5>1
      <4> QED
        BY <2>3, <3>3, <4>1, <4>2
    <3> QED
      BY <3>1, <3>2, <3>3
  <2> QED
    BY <2>9, <2>10 DEF t
<1> HIDE DEF p
<1> QED
  BY <1>1, <1>2

\* Where a card is first.
LEMMA FirstPlace ==
  ASSUME NEW hand, Ordered(hand), NEW c \in Range(hand)
  PROVE  /\ PlaceIn(hand, c) \in DOMAIN hand /\ hand[PlaceIn(hand, c)] = c
         /\ \A i \in DOMAIN hand : hand[i] = c => PlaceIn(hand, c) <= i
<1> DEFINE places == {i \in DOMAIN hand : hand[i] = c}
<1>1. Len(hand) \in Nat /\ DOMAIN hand = 1 .. Len(hand)
  BY DEF Ordered
<1>2. places # {} /\ places \subseteq 0 .. Len(hand)
  BY <1>1 DEF Range
<1>3. PlaceIn(hand, c) = Min(places)
  BY DEF PlaceIn
<1> HIDE DEF places
<1>4. Min(places) \in places /\ \A i \in places : Min(places) <= i
  BY <1>1, <1>2, Least
<1> QED
  BY <1>3, <1>4 DEF places

\* A hand laid out: all of the new cards, those that were held in their old order.
LEMMA HandLaidOut ==
  ASSUME NEW old, Ordered(old), NEW new, Ordered(new)
  PROVE  LET order == Arrangement(old, new)
             hand  == [i \in DOMAIN order |-> new[order[i]]]
         IN  /\ Permutes(order, Len(new)) /\ Len(new) \in Nat
             /\ DOMAIN order = 1 .. Len(new) /\ Ordered(hand)
             /\ \A c, d \in Range(old) \cap Range(hand) :
                  PlaceIn(old, c) < PlaceIn(old, d) => PlaceIn(hand, c) < PlaceIn(hand, d)
<1> DEFINE order == Arrangement(old, new)
           hand == [i \in DOMAIN order |-> new[order[i]]]
<1>1. old \in Seq(Range(old)) /\ new \in Seq(Range(new))
  BY DEF Ordered
<1>2. /\ Len(old) \in Nat /\ DOMAIN old = 1 .. Len(old)
      /\ Len(new) \in Nat /\ DOMAIN new = 1 .. Len(new)
  BY <1>1
<1>3. /\ Laid(old, new, Len(old) + Len(new), order)
      /\ order \in Seq(DOMAIN new) /\ Len(order) = Len(new)
      /\ \A i, j \in DOMAIN order : order[i] = order[j] => i = j
      /\ \A n \in DOMAIN new : n \in Range(order)
  BY <1>1, Arranged
<1> HIDE DEF order
<1>4. DOMAIN order = 1 .. Len(new) /\ \A i \in 1 .. Len(new) : order[i] \in 1 .. Len(new)
  BY <1>2, <1>3
<1>5. Permutes(order, Len(new))
  BY <1>2, <1>3, <1>4 DEF Permutes, Range
<1>6. Ordered(hand)
  <2>1. \A i \in 1 .. Len(new) : new[order[i]] \in Range(new)
    BY <1>2, <1>4 DEF Range
  <2>2. hand \in Seq(Range(new))
    BY <1>2, <1>4, <2>1
  <2> HIDE DEF hand
  <2> QED
    BY <2>2, OfItsOwn
<1>7. ASSUME NEW c \in Range(old) \cap Range(hand), NEW d \in Range(old) \cap Range(hand),
             PlaceIn(old, c) < PlaceIn(old, d)
      PROVE  PlaceIn(hand, c) < PlaceIn(hand, d)
  <2> DEFINE o == PlaceIn(old, c)
  <2>1. /\ o \in DOMAIN old /\ old[o] = c /\ PlaceIn(old, d) \in DOMAIN old
        /\ \A p \in DOMAIN old : old[p] = d => PlaceIn(old, d) <= p
    BY FirstPlace
  <2>2. \A p \in 1 .. o : old[p] # d
    BY <1>2, <1>7, <2>1
  <2>3. c \in Range(new)
    BY <1>2, <1>4 DEF Range
  <2>4. o <= Len(old) + Len(new)
    BY <1>2, <2>1
  <2> HIDE DEF o
  <2>5. PICK i \in DOMAIN order : new[order[i]] = c /\ \A j \in 1 .. i : new[order[j]] # d
    <3>1. \A q \in DOMAIN old : \A e :
            q <= Len(old) + Len(new) /\ old[q] \in Range(new) /\ (\A p \in 1 .. q : old[p] # e) =>
              \E i \in DOMAIN order : /\ new[order[i]] = old[q]
                                      /\ \A j \in 1 .. i : new[order[j]] # e
      BY <1>3, Zenon DEF Laid
    <3>2. /\ o \in DOMAIN old /\ o <= Len(old) + Len(new) /\ old[o] \in Range(new)
          /\ \A p \in 1 .. o : old[p] # d
      BY <2>1, <2>2, <2>3, <2>4
    <3>3. \E i \in DOMAIN order : new[order[i]] = old[o] /\ \A j \in 1 .. i : new[order[j]] # d
      BY <3>1, <3>2, Zenon
    <3> QED
      BY <2>1, <3>3
  <2>6. i \in DOMAIN hand /\ hand[i] = c /\ DOMAIN hand = 1 .. Len(new)
    BY <1>4, <2>5
  <2>7. \A j \in 1 .. i : hand[j] # d
    BY <1>2, <1>4, <2>5, <2>6
  <2> HIDE DEF hand
  <2>8. PlaceIn(hand, c) <= i /\ PlaceIn(hand, c) \in 1 .. Len(new)
    BY <1>6, <2>6, FirstPlace
  <2>9. PlaceIn(hand, d) \in 1 .. Len(new) /\ hand[PlaceIn(hand, d)] = d
    BY <1>6, <2>6, FirstPlace
  <2>10. PlaceIn(hand, d) \notin 1 .. i
    BY <2>7, <2>9
  <2> QED
    BY <1>2, <2>6, <2>8, <2>9, <2>10
<1> QED
  BY <1>2, <1>4, <1>5, <1>6, <1>7 DEF order

-----------------------------------------------------------------------------
(* The copy.                                                                 *)

\* What the client makes of a view.
LEMMA CopyReceived ==
  ASSUME NEW g \in Range(Story), NEW ready, NEW seat \in JoinSeats, NEW c, Ordered(c.hand),
         NEW ahead
  PROVE  Mirrors(StateRecvApply(c, BuildPlayerView([g EXCEPT !.ready = ready], seat)),
                 g, seat, ahead)
<1> DEFINE h == [g EXCEPT !.ready = ready]
           view == BuildPlayerView(h, seat)
           d == StateRecvApply(c, view)
           order == Arrangement(c.hand, view.hand)
           n == Len(view.hand)
<1>1. /\ h.table = g.table /\ h.trick = g.trick /\ h.hand = g.hand /\ h.slots = g.slots
      /\ h.effects = g.effects /\ h.pending = g.pending /\ h.duel = g.duel /\ h.phase2 = g.phase2
  BY StoryAssumption
<1>2. /\ seat \in PlayerSeats /\ g.hand[seat] \in Seq(Range(g.hand[seat]))
      /\ "target" \in DOMAIN g.duel
      /\ g.phase2 => g.slots[seat] \in Seq(Range(g.slots[seat])) /\ Len(g.slots[seat]) = Len(g.hand[seat])
  BY StoryAssumption, SeatsAssumption
<1> HIDE DEF h
<1>3. /\ view.my_seat = seat /\ view.hand = g.hand[seat] /\ view.table = g.table
      /\ view.trick = ViewOfTrick(g.trick) /\ view.phase2 = g.phase2
      /\ g.phase2 => view.p2 = ViewOfPhase2(h, seat)
  BY <1>1 DEF BuildPlayerView
<1>4. g.phase2 => /\ view.p2.slots = g.slots[seat] /\ view.p2.effects = g.effects
                  /\ view.p2.pending = g.pending /\ view.p2.duel = ViewOfDuel(g.duel, seat)
  BY <1>1, <1>3 DEF ViewOfPhase2
<1> HIDE DEF view
<1>5. ViewOfDuel(g.duel, seat).target = g.duel.target /\ "target" \in DOMAIN ViewOfDuel(g.duel, seat)
  BY <1>2 DEF ViewOfDuel
<1>6. /\ DOMAIN d = {"phase", "round", "lead", "hand", "table", "trick", "ready", "selections",
                     "phase2", "p2"}
      /\ d.hand = [i \in DOMAIN order |-> view.hand[order[i]]]
      /\ d.table = ByLocalPlayer(view.table, seat) /\ d.trick = ApplyTrick(view.trick, seat)
      /\ d.phase2 = view.phase2
      /\ view.phase2 => d.p2 = ApplyPhase2(view, order)
  BY <1>3 DEF StateRecvApply
<1>7. g.phase2 =>
        /\ DOMAIN d.p2 = {"contracts", "inv", "slots", "draft", "effects", "pending", "duel"}
        /\ d.p2.slots = [i \in DOMAIN order |-> ApplyTransmuteSlot(view.p2.slots[order[i]], seat)]
        /\ d.p2.effects = ApplyEffects(view.p2.effects, seat)
        /\ d.p2.pending = RemapSeat(view.p2.pending, seat)
        /\ d.p2.duel = [view.p2.duel EXCEPT !.winner = RemapSeat(@, seat), !.target = RemapSeat(@, seat)]
  BY <1>3, <1>6 DEF ApplyPhase2
<1>8. /\ Permutes(order, n) /\ n \in Nat /\ DOMAIN order = 1 .. n /\ Ordered(d.hand)
  BY <1>2, <1>3, <1>6, HandLaidOut DEF Ordered
<1> HIDE DEF d, order, n
<1>9. \A p \in PlayerSeats : d.table[p] = g.table[ServerSeat(p, seat)]
  BY <1>3, <1>6 DEF ByLocalPlayer
<1>10. ASSUME g.phase2
       PROVE  /\ d.p2.duel.target = RemapSeat(g.duel.target, seat)
              /\ d.p2.pending = RemapSeat(g.pending, seat)
              /\ d.p2.effects = ApplyEffects(g.effects, seat)
  <2> DEFINE e == ViewOfDuel(g.duel, seat)
  <2>1. e.target = g.duel.target /\ "target" \in DOMAIN e
    BY <1>5
  <2> HIDE DEF e
  <2>2. d.p2.duel = [e EXCEPT !.winner = RemapSeat(@, seat), !.target = RemapSeat(@, seat)]
    BY <1>4, <1>7, <1>10 DEF e
  <2>3. d.p2.duel.target = RemapSeat(e.target, seat)
    BY <2>1, <2>2
  <2> QED
    BY <1>4, <1>7, <1>10, <2>1, <2>3
<1>11. ASSUME g.phase2
       PROVE  /\ Ordered(d.p2.slots) /\ Len(d.p2.slots) = Len(d.hand)
              /\ PairCounts(d.hand, d.p2.slots) = PairCounts(g.hand[seat], SlotsSeen(g, seat))
  <2> DEFINE held == g.hand[seat]
             seen == SlotsSeen(g, seat)
             slots == d.p2.slots
  <2>1. /\ DOMAIN held = 1 .. n /\ view.hand = held /\ DOMAIN g.slots[seat] = 1 .. n
        /\ g.slots[seat] = view.p2.slots
    BY <1>2, <1>3, <1>4, <1>11 DEF n
  <2>2. \A j \in 1 .. n : seen[j] = ApplyTransmuteSlot(g.slots[seat][j], seat)
    BY <2>1 DEF SlotsSeen
  <2>3. \A i \in 1 .. n : order[i] \in 1 .. n
    BY <1>8 DEF Permutes
  <2>4. /\ DOMAIN slots = 1 .. n /\ DOMAIN d.hand = 1 .. n
        /\ \A i \in 1 .. n : d.hand[i] = held[order[i]] /\ slots[i] = seen[order[i]]
    BY <1>6, <1>7, <1>8, <1>11, <2>1, <2>2, <2>3
  <2>5. slots = [i \in 1 .. n |-> slots[i]]
    BY <1>7, <1>8, <1>11
  <2> DEFINE S == Range(slots)
  <2>6. \A i \in 1 .. n : slots[i] \in S
    BY <2>4 DEF Range
  <2>7. PairCounts(d.hand, slots) = PairCounts(held, seen)
    <3> DEFINE hand == d.hand
    <3>1. Rearranges(order, n, held, seen, hand, slots)
      BY <1>8, <2>1, <2>4 DEF Rearranges
    <3> HIDE DEF held, seen, slots, hand
    <3>2. PairCounts(hand, slots) = PairCounts(held, seen)
      BY ONLY <3>1, PairsInAnyOrder
    <3> QED
      BY <3>2 DEF hand
  <2>8. Len(d.hand) = n
    BY <1>8, <2>4 DEF Ordered
  <2> HIDE DEF slots, S
  <2>9. slots \in Seq(S) /\ Len(slots) = n
    BY <1>8, <2>5, <2>6
  <2> QED
    BY <2>7, <2>8, <2>9, OfItsOwn DEF slots
<1>12. /\ {"phase2", "table", "trick", "ready", "hand", "p2"} \subseteq DOMAIN d
       /\ g.phase2 => {"slots", "inv", "duel", "pending", "effects"} \subseteq DOMAIN d.p2
  BY <1>6, <1>7
<1>13. d.phase2 = g.phase2 /\ d.trick = ApplyTrick(ViewOfTrick(g.trick), seat)
  BY <1>3, <1>6
<1>14. Mirrors(d, g, seat, ahead)
  BY <1>8, <1>9, <1>10, <1>11, <1>12, <1>13 DEF Mirrors
<1> QED
  BY <1>14 DEF d, view, h

\* A card put to another place takes its slot along.
LEMMA CopyArranged ==
  ASSUME NEW c, NEW g, NEW seat, NEW ahead, Mirrors(c, g, seat, ahead),
         NEW from \in DOMAIN c.hand, NEW to \in DOMAIN c.hand
  PROVE  Mirrors(ReorderHand(c, from, to), g, seat, ahead)
<1> DEFINE d == ReorderHand(c, from, to)
           n == Len(c.hand)
           H == Range(c.hand)
           S == Range(c.p2.slots)
<1>1. /\ {"phase2", "table", "trick", "ready", "hand", "p2"} \subseteq DOMAIN c
      /\ Ordered(c.hand) /\ n \in Nat /\ DOMAIN c.hand = 1 .. n
  BY DEF Mirrors, Ordered
<1>2. PICK p : /\ Permutes(p, n)
               /\ \A T : \A s \in Seq(T) :
                    Len(s) = n =>
                      /\ MoveItem(s, from, to) \in Seq(T) /\ Len(MoveItem(s, from, to)) = n
                      /\ \A i \in 1 .. n : MoveItem(s, from, to)[i] = s[p[i]]
  <2>1. n \in Nat /\ from \in 1 .. n /\ to \in 1 .. n
    BY <1>1
  <2> HIDE DEF n
  <2> QED
    BY ONLY <2>1, MovedItem
<1>3. /\ DOMAIN d = DOMAIN c
      /\ \A f \in DOMAIN c : f \notin {"hand", "p2"} => d[f] = c[f]
      /\ d.hand = MoveItem(c.hand, from, to)
      /\ d.p2 = [c.p2 EXCEPT !.slots = IF c.phase2 THEN MoveItem(@, from, to) ELSE @]
  BY <1>1 DEF ReorderHand
<1> HIDE DEF d
<1>4. c.hand \in Seq(H) /\ Len(c.hand) = n
  BY <1>1 DEF Ordered
<1> HIDE DEF H, S, n
<1>5. /\ d.hand \in Seq(H) /\ Len(d.hand) = n /\ \A i \in 1 .. n : d.hand[i] = c.hand[p[i]]
  BY <1>2, <1>3, <1>4
<1>6. Ordered(d.hand)
  BY <1>5, OfItsOwn
<1>7. /\ d.phase2 = c.phase2 /\ d.table = c.table /\ d.trick = c.trick
      /\ {"phase2", "table", "trick", "ready", "hand", "p2"} \subseteq DOMAIN d
  BY <1>1, <1>3
<1>8. ASSUME g.phase2
      PROVE  /\ {"slots", "inv", "duel", "pending", "effects"} \subseteq DOMAIN d.p2
             /\ d.p2.duel = c.p2.duel /\ d.p2.pending = c.p2.pending /\ d.p2.effects = c.p2.effects
             /\ Ordered(d.p2.slots) /\ Len(d.p2.slots) = Len(d.hand)
             /\ PairCounts(d.hand, d.p2.slots) = PairCounts(c.hand, c.p2.slots)
  <2> DEFINE slots == c.p2.slots
  <2>1. /\ {"slots", "inv", "duel", "pending", "effects"} \subseteq DOMAIN c.p2
        /\ Ordered(slots) /\ Len(slots) = n /\ c.phase2
    BY <1>8 DEF Mirrors, n
  <2>2. /\ DOMAIN d.p2 = DOMAIN c.p2 /\ d.p2.slots = MoveItem(slots, from, to)
        /\ d.p2.duel = c.p2.duel /\ d.p2.pending = c.p2.pending /\ d.p2.effects = c.p2.effects
    BY <1>3, <2>1
  <2>3. slots \in Seq(S)
    BY <2>1 DEF Ordered, S
  <2> HIDE DEF slots
  <2>4. /\ d.p2.slots \in Seq(S) /\ Len(d.p2.slots) = n
        /\ \A i \in 1 .. n : d.p2.slots[i] = slots[p[i]]
    BY <1>2, <2>1, <2>2, <2>3
  <2>5. Ordered(d.p2.slots)
    BY <2>4, OfItsOwn
  <2>6. DOMAIN d.hand = 1 .. n /\ DOMAIN c.hand = 1 .. n /\ n \in Nat
    BY <1>1, <1>5 DEF n
  <2>7. PairCounts(d.hand, d.p2.slots) = PairCounts(c.hand, slots)
    <3> DEFINE hand == c.hand
               hand2 == d.hand
               slots2 == d.p2.slots
    <3>1. Rearranges(p, n, hand, slots, hand2, slots2)
      BY <1>2, <1>5, <2>4, <2>6 DEF Rearranges
    <3> HIDE DEF hand, hand2, slots2
    <3>2. PairCounts(hand2, slots2) = PairCounts(hand, slots)
      BY ONLY <3>1, PairsInAnyOrder
    <3> QED
      BY <3>2 DEF hand, hand2, slots2
  <2> QED
    BY <1>5, <2>1, <2>2, <2>4, <2>5, <2>7 DEF slots
<1>9. Mirrors(d, g, seat, ahead)
  BY <1>6, <1>7, <1>8 DEF Mirrors
<1> QED
  BY <1>9 DEF d

\* A transmutation ahead of the server changes a card and its slot.
LEMMA CopyTransmuted ==
  ASSUME NEW c, NEW g, NEW seat, NEW ahead, Mirrors(c, g, seat, ahead), c.phase2,
         NEW i \in DOMAIN c.hand, NEW id
  PROVE  Mirrors(TransmuteLocally(c, i, id, Transmuted), g, seat, TRUE)
<1> DEFINE d == TransmuteLocally(c, i, id, Transmuted)
           slot == [EmptySlot EXCEPT !.id = id, !.original = c.hand[i], !.by = 0]
           Put(s, e) == [s EXCEPT ![i] = e]
<1>1. /\ {"phase2", "table", "trick", "ready", "hand", "p2"} \subseteq DOMAIN c
      /\ {"slots", "inv", "duel", "pending", "effects"} \subseteq DOMAIN c.p2
      /\ Ordered(c.hand) /\ Ordered(c.p2.slots) /\ Len(c.p2.slots) = Len(c.hand)
  BY DEF Mirrors
<1>2. /\ DOMAIN d = DOMAIN c /\ d.hand = [c.hand EXCEPT ![i] = Transmuted]
      /\ \A f \in DOMAIN c : f \notin {"hand", "p2"} => d[f] = c[f]
      /\ DOMAIN d.p2 = DOMAIN c.p2
      /\ d.p2.slots = [c.p2.slots EXCEPT ![i] = slot]
      /\ \A f \in DOMAIN c.p2 : f \notin {"slots", "inv"} => d.p2[f] = c.p2[f]
  BY <1>1 DEF TransmuteLocally
<1> HIDE DEF d, slot
<1>3. ASSUME NEW s, Ordered(s), NEW e
      PROVE  Ordered(Put(s, e)) /\ Len(Put(s, e)) = Len(s)
  <2> DEFINE S == Range(s) \cup {e}
             r == Put(s, e)
             n == Len(s)
  <2>1. s \in Seq(Range(s)) /\ n \in Nat /\ DOMAIN s = 1 .. n
    BY <1>3 DEF Ordered
  <2>2. \A j \in 1 .. n : r[j] \in S
    BY <1>3, <2>1 DEF Range
  <2>3. DOMAIN r = 1 .. n /\ r = [j \in 1 .. n |-> r[j]]
    BY <1>3, <2>1
  <2> HIDE DEF S, r, n
  <2>4. r \in Seq(S) /\ Len(r) = n
    BY <2>1, <2>2, <2>3
  <2> QED
    BY <2>4, OfItsOwn DEF n, r
<1>4. Ordered(d.hand) /\ Ordered(d.p2.slots) /\ Len(d.p2.slots) = Len(d.hand)
  <2>1. d.hand = Put(c.hand, Transmuted) /\ d.p2.slots = Put(c.p2.slots, slot)
    BY <1>2
  <2> HIDE DEF Put
  <2>2. Ordered(d.hand) /\ Len(d.hand) = Len(c.hand)
    BY <1>1, <1>3, <2>1
  <2>3. Ordered(d.p2.slots) /\ Len(d.p2.slots) = Len(c.p2.slots)
    BY <1>1, <1>3, <2>1
  <2> QED
    BY <1>1, <2>2, <2>3
<1>5. /\ {"phase2", "table", "trick", "ready", "hand", "p2"} \subseteq DOMAIN d
      /\ {"slots", "inv", "duel", "pending", "effects"} \subseteq DOMAIN d.p2
      /\ d.phase2 = c.phase2 /\ d.table = c.table /\ d.trick = c.trick
      /\ d.p2.duel = c.p2.duel /\ d.p2.pending = c.p2.pending /\ d.p2.effects = c.p2.effects
  BY <1>1, <1>2
<1>6. Mirrors(d, g, seat, TRUE)
  BY <1>4, <1>5 DEF Mirrors
<1> QED
  BY <1>6 DEF d

\* The passes confirmed are no part of it.
LEMMA CopyConfirmed ==
  ASSUME NEW c, NEW g, NEW seat, NEW ahead, Mirrors(c, g, seat, ahead), NEW who
  PROVE  Mirrors([c EXCEPT !.ready[who] = TRUE], g, seat, ahead)
<1> DEFINE d == [c EXCEPT !.ready[who] = TRUE]
<1>1. {"phase2", "table", "trick", "ready", "hand", "p2"} \subseteq DOMAIN c
  BY DEF Mirrors
<1>2. DOMAIN d = DOMAIN c /\ \A f \in DOMAIN c : f # "ready" => d[f] = c[f]
  OBVIOUS
<1> HIDE DEF d
<1>3. /\ {"phase2", "table", "trick", "ready", "hand", "p2"} \subseteq DOMAIN d
      /\ d.phase2 = c.phase2 /\ d.table = c.table /\ d.trick = c.trick /\ d.hand = c.hand
      /\ d.p2 = c.p2
  BY <1>1, <1>2
<1>4. Mirrors(d, g, seat, ahead)
  BY <1>3 DEF Mirrors
<1> QED
  BY <1>4 DEF d

\* But for a new view, what is shown stays a copy of the same state, if it is shown at all.
CopyStays ==
  gs' # NoGame =>
    /\ gs # NoGame /\ shown' = shown
    /\ \A seat \in JoinSeats : ShownFrom(seat) => ShownFrom(seat)'

LEMMA CopyUntouched ==
  ASSUME UNCHANGED shownVars
  PROVE  CopyStays
BY DEF CopyStays, shownVars, ShownFrom

LEMMA CopyKept ==
  ASSUME [Next]_vars, ~ShowView
  PROVE  CopyStays
<1>1. CASE UNCHANGED vars
  BY <1>1, CopyUntouched DEF vars, shownVars
<1>2. CASE ClientNetUpdate
  <2>1. UNCHANGED shownVars
    BY <1>2 DEF ClientNetUpdate, NoticeLoss, ReconnectStep, SendHandshake, HandleAck, HandleReject,
          HandleStateUpdate, HandlePassConfirmed, Receive
  <2> QED
    BY <2>1, CopyUntouched
<1>3. CASE Menu
  <2>1. UNCHANGED shownVars
    BY <1>3 DEF Menu, JoinAssignedRoom, ReconnectSaved, Cancel, MenuSeesConnection, MenuSeesError,
          MenuSeesGame
  <2> QED
    BY <2>1, CopyUntouched
<1>4. CASE ShowPassConfirmed
  <2>1. /\ gs # NoGame /\ UNCHANGED <<shown, guess>>
        /\ \E who : gs' = [gs EXCEPT !.ready[who] = TRUE]
    BY <1>4 DEF ShowPassConfirmed, Passing
  <2> QED
    BY <2>1, CopyConfirmed DEF CopyStays, ShownFrom
<1>5. CASE Player
  <2>1. CASE LeaveFinishedGame \/ ReturnToMenu \/ Restart
    BY <2>1 DEF LeaveFinishedGame, ReturnToMenu, Restart, LeaveScreen, CopyStays
  <2>2. CASE ConfirmPass
    BY <2>2 DEF ConfirmPass, CopyStays, ShownFrom
  <2>3. ASSUME NEW from, NEW to, ArrangeHand(from, to) PROVE CopyStays
    <3>1. /\ gs # NoGame /\ from \in DOMAIN gs.hand /\ to \in DOMAIN gs.hand
          /\ gs' = ReorderHand(gs, from, to) /\ UNCHANGED <<shown, guess>>
      BY <2>3 DEF ArrangeHand
    <3> QED
      BY <3>1, CopyArranged DEF CopyStays, ShownFrom
  <2>4. ASSUME NEW i, NEW id, TransmuteAhead(i, id) PROVE CopyStays
    <3>1. /\ gs # NoGame /\ gs.phase2 /\ i \in DOMAIN gs.hand
          /\ gs' = TransmuteLocally(gs, i, id, Transmuted) /\ shown' = shown /\ guess' = TRUE
      BY <2>4 DEF TransmuteAhead, Passing
    <3> QED
      BY <3>1, CopyTransmuted DEF CopyStays, ShownFrom
  <2> QED
    BY <1>5, <2>1, <2>2, <2>3, <2>4 DEF Player
<1>6. CASE Environment
  <2>1. UNCHANGED shownVars
    BY <1>6 DEF Environment, ConnectionOpens, ConnectionBreaks, ServerCloses, HandshakeArrives,
          GameStarts, GameMovesOn, RoomCloses, PassConfirmed, ServerNoticesDrop, NetworkVars
  <2> QED
    BY <2>1, CopyUntouched
<1> QED
  BY <1>1, <1>2, <1>3, <1>4, <1>5, <1>6 DEF Next

-----------------------------------------------------------------------------
(* The seat of the client.                                                   *)

LEMMA SeatGoesOn ==
  ASSUME RoomsGoOn, g_room \in RoomIds, rooms[g_room].status # "WAITING",
         g_room' = g_room, Due' = Due, NEW seat \in JoinSeats, HasSeat(seat)
  PROVE  HasSeat(seat)'
<1>1. CASE rooms'[g_room].status = "PLAYING"
  <2>1. /\ rooms[g_room].status = "PLAYING"
        /\ rooms[g_room].slots[seat].status \in {"CONNECTED", "AWAY"} =>
             /\ rooms'[g_room].slots[seat].status \in {"CONNECTED", "AWAY"}
             /\ rooms'[g_room].slots[seat].token = rooms[g_room].slots[seat].token
    BY <1>1 DEF RoomsGoOn
  <2> QED
    BY <2>1 DEF HasSeat
<1>2. CASE rooms'[g_room].status # "PLAYING"
  BY <1>2 DEF HasSeat
<1> QED
  BY <1>1, <1>2

\* A copy that stays on the screen is still from the client's seat.
LEMMA ShownOn ==
  ASSUME SeatInv, CopyStays, RoomsGoOn,
         gs' # NoGame => g_room' = g_room /\ Due' = Due,
         \A seat \in JoinSeats :
           gs' # NoGame /\ gs # NoGame /\ HasSeat(seat) /\ (Seated => DueSeat = seat) =>
             (Seated' => DueSeat' = seat)
  PROVE  ShownOK'
<1> SUFFICES ASSUME gs' # NoGame PROVE ShownOK'
  BY DEF ShownOK
<1>1. gs # NoGame /\ shown'[2] = shown[2] /\ \A seat \in JoinSeats : ShownFrom(seat) => ShownFrom(seat)'
  BY DEF CopyStays
<1>2. shown[2] \in DOMAIN Story
  BY <1>1 DEF SeatInv, ShownOK
<1>3. PICK seat \in JoinSeats : ShownFrom(seat) /\ HasSeat(seat) /\ (Seated => DueSeat = seat)
  BY <1>1 DEF SeatInv, ShownOK
<1>4. g_room \in RoomIds /\ rooms[g_room].status # "WAITING" /\ g_room' = g_room /\ Due' = Due
  BY <1>1 DEF SeatInv, IInv, HeldOK, Held
<1>5. HasSeat(seat)' /\ ShownFrom(seat)' /\ (Seated' => DueSeat' = seat)
  BY <1>1, <1>3, <1>4, SeatGoesOn
<1> QED
  BY <1>1, <1>2, <1>5 DEF ShownOK

\* Nothing is received, and the client's seat does not change.
LEMMA SeatUntouched ==
  ASSUME SeatInv, CopyStays,
         UNCHANGED <<g_state, g_seat, g_room, g_session_token, g_view_queue, rooms>>,
         conn'.down = conn.down
  PROVE  SeatedOK' /\ ShownOK' /\ RoomsOK'
<1>1. /\ Greeted' = Greeted /\ Due' = Due /\ DueSeat' = DueSeat /\ Coming' = Coming
      /\ (Seated' <=> Seated)
  BY DEF Greeted, Due, DueSeat, Seated, Coming
<1>2. \A seat : HasSeat(seat)' <=> HasSeat(seat)
  BY <1>1 DEF HasSeat
<1>3. SeatedOK'
  <2>1. DueSeat \in JoinSeats => (HasSeat(DueSeat)' <=> HasSeat(DueSeat))
    BY <1>1 DEF HasSeat
  <2> QED
    BY <1>1, <2>1 DEF SeatInv, SeatedOK
<1>4. RoomsGoOn
  BY UnboundIsTyped DEF SeatInv, IInv, Types
<1>5. ShownOK'
  BY <1>1, <1>4, ShownOn
<1>6. RoomsOK'
  BY DEF SeatInv, RoomsOK
<1> QED
  BY <1>3, <1>5, <1>6

\* A client whose handshake is under way, or was refused, is at no seat.
LEMMA NotSeated ==
  ASSUME SeatInv, CopyStays, ~Seated', Due' = Due, UNCHANGED <<g_room, rooms>>
  PROVE  SeatedOK' /\ ShownOK' /\ RoomsOK'
<1>1. RoomsGoOn
  BY UnboundIsTyped DEF SeatInv, IInv, Types
<1>2. SeatedOK'
  BY DEF SeatedOK
<1>3. ShownOK'
  BY <1>1, ShownOn
<1>4. RoomsOK'
  BY DEF SeatInv, RoomsOK
<1> QED
  BY <1>2, <1>3, <1>4

LEMMA SeatHungUp ==
  ASSUME SeatInv, CopyStays, HangsUp
  PROVE  SeatedOK' /\ ShownOK' /\ RoomsOK'
<1> USE DEF SeatInv, IInv
<1>1. rooms \in [RoomIds -> ServerRoom] /\ rooms' \in {rooms, Unbound}
  BY DEF Types, HangsUp
<1>2. RoomsGoOn /\ \A r \in RoomIds, s \in JoinSeats : ~rooms'[r].slots[s].mine
  <2>1. rooms' = rooms => \A r \in RoomIds, s \in JoinSeats : ~rooms'[r].slots[s].mine
    <3>1. CASE conn.st # "OPEN"
      BY <3>1 DEF BoundOK
    <3>2. CASE rooms' = Unbound
      BY <1>1, <3>2, UnboundIsTyped
    <3> QED
      BY <3>1, <3>2 DEF HangsUp
  <2> QED
    BY <1>1, <2>1, UnboundIsTyped
<1>3. ~Greeted' /\ Due' = g_session_token' /\ DueSeat' = g_seat'
  BY DEF HangsUp, Greeted, Due, DueSeat
<1>4. Seated' => /\ g_state = "CONNECTED" /\ g_seat' = g_seat /\ ~Greeted /\ Seated
                 /\ DueSeat = g_seat /\ DueSeat' = DueSeat
  BY <1>3 DEF HangsUp, Seated, Greeted, DueSeat
<1>5. Updates(conn'.down) = {}
  BY Nothing DEF HangsUp
<1>6. gs' # NoGame => g_room' = g_room /\ Due' = Due
  <2>1. gs' # NoGame => gs # NoGame /\ g_room' = g_room /\ g_session_token' = g_session_token
    BY DEF HangsUp
  <2> QED
    BY <1>3, <2>1 DEF HeldOK
<1>7. Seated' /\ Coming' # {} =>
        Coming # {} /\ g_view_queue' = g_view_queue /\ g_room' = g_room /\ Due' = Due
  <2>1. Coming' # {} => g_view_queue' # << >>
    BY <1>5, Nothing DEF Coming
  <2>2. Coming' # {} => g_view_queue' = g_view_queue /\ g_room' = g_room /\ g_session_token' = g_session_token
    BY <2>1 DEF HangsUp
  <2>3. Coming' = {g_view_queue'[i].of : i \in DOMAIN g_view_queue'}
    BY <1>5 DEF Coming
  <2>4. Coming' # {} => Coming # {}
    BY <2>2, <2>3 DEF Coming
  <2> QED
    BY <1>3, <1>4, <2>2, <2>4 DEF Due
<1>8. RoomsOK'
  <2>1. CASE rooms' = rooms
    BY <2>1 DEF RoomsOK
  <2>2. CASE rooms' = Unbound
    <3> DEFINE f(r) == [s \in JoinSeats |-> [rooms[r].slots[s] EXCEPT !.mine = FALSE]]
    <3>1. \A r \in RoomIds : rooms[r] \in ServerRoom /\ rooms'[r] = [rooms[r] EXCEPT !.slots = f(r)]
      BY <1>1, <2>2 DEF Unbound
    <3>2. \A r \in RoomIds, s \in JoinSeats :
            /\ f(r)[s].status = rooms[r].slots[s].status
            /\ f(r)[s].token = rooms[r].slots[s].token
      <4>1. \A r \in RoomIds, s \in JoinSeats :
              /\ rooms[r].slots[s] \in SeatSlot
              /\ f(r)[s] = [rooms[r].slots[s] EXCEPT !.mine = FALSE]
        BY <3>1 DEF ServerRoom
      <4> QED
        BY <4>1, UnboundSlot
    <3> HIDE DEF f
    <3>3. \A r \in RoomIds : /\ rooms'[r].slots = f(r) /\ rooms'[r].status = rooms[r].status
                             /\ rooms'[r].version = rooms[r].version /\ rooms'[r].joins = rooms[r].joins
      BY <3>1 DEF ServerRoom
    <3>4. \A r \in RoomIds : \A s \in JoinSeats :
            /\ rooms'[r].slots[s].status = rooms[r].slots[s].status
            /\ rooms'[r].slots[s].token = rooms[r].slots[s].token
      BY <3>2, <3>3
    <3> QED
      BY <3>3, <3>4 DEF RoomsOK
  <2> QED
    BY <1>1, <2>1, <2>2
<1>9. SeatedOK'
  <2> SUFFICES ASSUME Seated'
               PROVE  /\ DueSeat' \in JoinSeats
                      /\ \A r \in RoomIds, s \in JoinSeats : rooms'[r].slots[s].mine => s = DueSeat'
                      /\ \A i \in DOMAIN g_view_queue' : MadeView(g_view_queue'[i], DueSeat')
                      /\ \A n \in Updates(conn'.down) : MadeView(conn'.down[n].update, DueSeat')
                      /\ Coming' # {} => HasSeat(DueSeat)'
    BY DEF SeatedOK
  <2>1. /\ DueSeat' = DueSeat /\ DueSeat \in JoinSeats
        /\ \A i \in DOMAIN g_view_queue : MadeView(g_view_queue[i], DueSeat)
        /\ Coming # {} => HasSeat(DueSeat)
    BY <1>4 DEF SeatedOK
  <2>2. \A i \in DOMAIN g_view_queue' : MadeView(g_view_queue'[i], DueSeat)
    BY <2>1, Nothing DEF HangsUp
  <2>3. ASSUME Coming' # {} PROVE HasSeat(DueSeat)'
    <3>1. Coming # {} /\ g_room' = g_room /\ Due' = Due
      BY <1>7, <2>3
    <3>2. g_room \in RoomIds /\ rooms[g_room].status # "WAITING"
      BY <3>1 DEF HeldOK, Held
    <3>3. \A seat \in JoinSeats : HasSeat(seat) => HasSeat(seat)'
      BY <1>2, <3>1, <3>2, SeatGoesOn
    <3> QED
      BY <2>1, <3>1, <3>3 DEF HasSeat
  <2> QED
    BY <1>2, <1>5, <2>1, <2>2, <2>3
<1> HIDE DEF SeatInv, IInv
<1>10. ShownOK'
  BY <1>2, <1>4, <1>6, ShownOn
<1> QED
  BY <1>8, <1>9, <1>10

LEMMA SeatReadOn ==
  ASSUME SeatInv, CopyStays, ReadsOn
  PROVE  SeatedOK' /\ ShownOK' /\ RoomsOK'
<1>1. /\ conn.down # << >> /\ conn'.down = Tail(conn.down)
      /\ rooms' = rooms /\ g_room' = g_room
  BY DEF ReadsOn, SeatInv, IInv, Types
<1>2. \A n \in DOMAIN Tail(conn.down) :
        n + 1 \in DOMAIN conn.down /\ Tail(conn.down)[n] = conn.down[n + 1]
  BY <1>1, Behead DEF SeatInv, IInv, Types
<1>3. \A n \in Updates(conn'.down) : /\ n + 1 \in Updates(conn.down)
                                     /\ conn'.down[n] = conn.down[n + 1]
  BY <1>1, <1>2 DEF Updates
<1>4. ~Greeted' /\ Due' = Due /\ DueSeat' = DueSeat /\ Seated /\ Seated'
  BY DEF ReadsOn, Greeted, Due, DueSeat, Seated
<1>5. Coming' # {} => Coming # {}
  <2>1. \A i \in DOMAIN g_view_queue' : g_view_queue'[i].of \in Coming
    BY DEF ReadsOn, Coming
  <2>2. \A n \in Updates(conn'.down) : conn'.down[n].update.of \in Coming
    BY <1>3 DEF Coming
  <2>3. \A v \in Coming' : \/ \E i \in DOMAIN g_view_queue' : v = g_view_queue'[i].of
                           \/ \E n \in Updates(conn'.down) : v = conn'.down[n].update.of
    BY DEF Coming
  <2> QED
    BY <2>1, <2>2, <2>3
<1>6. SeatedOK'
  <2>1. /\ DueSeat \in JoinSeats
        /\ \A r \in RoomIds, s \in JoinSeats : rooms[r].slots[s].mine => s = DueSeat
        /\ \A i \in DOMAIN g_view_queue : MadeView(g_view_queue[i], DueSeat)
        /\ \A n \in Updates(conn.down) : MadeView(conn.down[n].update, DueSeat)
        /\ Coming # {} => HasSeat(DueSeat)
    BY <1>4 DEF SeatInv, SeatedOK
  <2>2. HasSeat(DueSeat) => HasSeat(DueSeat)'
    BY <1>1, <1>4 DEF HasSeat
  <2>3. \A i \in DOMAIN g_view_queue' : MadeView(g_view_queue'[i], DueSeat)
    BY <2>1 DEF ReadsOn
  <2>4. \A n \in Updates(conn'.down) : MadeView(conn'.down[n].update, DueSeat)
    BY <1>3, <2>1
  <2> QED
    BY <1>1, <1>4, <1>5, <2>1, <2>2, <2>3, <2>4 DEF SeatedOK
<1>7. RoomsGoOn
  BY <1>1, UnboundIsTyped DEF SeatInv, IInv, Types
<1>8. ShownOK'
  BY <1>1, <1>4, <1>7, ShownOn
<1>9. RoomsOK'
  BY <1>1 DEF SeatInv, RoomsOK
<1> QED
  BY <1>6, <1>8, <1>9

LEMMA SeatSent ==
  ASSUME SeatInv, CopyStays, NEW ms, NEW ver, Sends(ms, ver)
  PROVE  SeatedOK' /\ ShownOK' /\ RoomsOK'
<1> USE DEF SeatInv
<1>1. /\ Greeted' = Greeted /\ Due' = Due /\ DueSeat' = DueSeat
      /\ \A n \in Updates(conn'.down) :
           \/ n \in Updates(conn.down) /\ conn'.down[n] = conn.down[n]
           \/ \E m \in Updates(ms) : conn'.down[n] = ms[m]
      /\ Coming' # {} => Coming # {} \/ Updates(ms) # {}
  BY Sent
<1>2. /\ g_room' = g_room /\ RoomsGoOn /\ rooms' \in [RoomIds -> ServerRoom] /\ g_state' = g_state
      /\ g_view_queue' = g_view_queue
  BY DEF Sends
<1>3. Seated' <=> Seated
  BY <1>1, <1>2 DEF Seated
<1>4. SeatedOK'
  <2> SUFFICES ASSUME Seated
               PROVE  /\ DueSeat' \in JoinSeats
                      /\ \A r \in RoomIds, s \in JoinSeats : rooms'[r].slots[s].mine => s = DueSeat'
                      /\ \A i \in DOMAIN g_view_queue' : MadeView(g_view_queue'[i], DueSeat')
                      /\ \A n \in Updates(conn'.down) : MadeView(conn'.down[n].update, DueSeat')
                      /\ Coming' # {} => HasSeat(DueSeat)'
    BY <1>3 DEF SeatedOK
  <2>1. /\ DueSeat \in JoinSeats
        /\ \A r \in RoomIds, s \in JoinSeats : rooms[r].slots[s].mine => s = DueSeat
        /\ \A i \in DOMAIN g_view_queue : MadeView(g_view_queue[i], DueSeat)
        /\ \A n \in Updates(conn.down) : MadeView(conn.down[n].update, DueSeat)
        /\ Coming # {} => HasSeat(DueSeat)
    BY DEF SeatedOK
  <2>2. \A r \in RoomIds, s \in JoinSeats : rooms'[r].slots[s].mine => s = DueSeat
    BY <2>1 DEF Sends
  <2>3. \A m \in Updates(ms) : g_room \in RoomIds /\ MadeView(ms[m].update, DueSeat)
    <3> SUFFICES ASSUME NEW m \in Updates(ms)
                 PROVE  g_room \in RoomIds /\ MadeView(ms[m].update, DueSeat)
      OBVIOUS
    <3>1. /\ g_room \in RoomIds
          /\ \E s \in JoinSeats : rooms[g_room].slots[s].mine /\ MadeView(ms[m].update, s)
      BY DEF Sends
    <3> QED
      BY <2>1, <3>1
  <2>4. \A n \in Updates(conn'.down) : MadeView(conn'.down[n].update, DueSeat)
    BY <1>1, <2>1, <2>3
  <2>5. ASSUME Coming # {} PROVE HasSeat(DueSeat)'
    <3>1. g_room \in RoomIds /\ rooms[g_room].status # "WAITING"
      BY <2>5 DEF IInv, HeldOK, Held
    <3>2. \A seat \in JoinSeats : HasSeat(seat) => HasSeat(seat)'
      BY <1>1, <1>2, <3>1, SeatGoesOn
    <3> QED
      BY <1>1, <2>1, <2>5, <3>2 DEF HasSeat
  <2>6. ASSUME Updates(ms) # {} PROVE HasSeat(DueSeat)'
    <3>1. PICK s \in JoinSeats : /\ rooms[g_room].slots[s].mine
                                 /\ rooms'[g_room].slots[s].status = rooms[g_room].slots[s].status
                                 /\ rooms'[g_room].slots[s].token = rooms[g_room].slots[s].token
      BY <2>6 DEF Sends
    <3>2. g_room \in RoomIds
      BY <2>6 DEF Sends
    <3>3. /\ s = DueSeat /\ rooms[g_room].slots[s].status = "CONNECTED"
          /\ rooms[g_room].slots[s].token = Due
      BY <2>1, <3>1, <3>2 DEF IInv, BoundOK
    <3> QED
      BY <1>1, <1>2, <3>1, <3>3 DEF HasSeat
  <2> QED
    BY <1>1, <1>2, <2>1, <2>2, <2>4, <2>5, <2>6
<1>5. ShownOK'
  BY <1>1, <1>2, <1>3, ShownOn
<1>6. RoomsOK'
  <2> SUFFICES ASSUME NEW r \in RoomIds
               PROVE  /\ rooms'[r].status = "PLAYING" => rooms'[r].version \in DOMAIN Story
                      /\ \A s \in JoinSeats : rooms'[r].slots[s].token[2] <= rooms'[r].joins
                      /\ \A s, t \in JoinSeats :
                           /\ rooms'[r].slots[s].status \in {"CONNECTED", "AWAY"}
                           /\ rooms'[r].slots[t].status \in {"CONNECTED", "AWAY"}
                           /\ rooms'[r].slots[s].token = rooms'[r].slots[t].token
                           => s = t
    BY DEF RoomsOK
  <2>1. /\ rooms[r].status = "PLAYING" => rooms[r].version \in DOMAIN Story
        /\ \A s \in JoinSeats : rooms[r].slots[s].token[2] <= rooms[r].joins
        /\ \A s, t \in JoinSeats :
             /\ rooms[r].slots[s].status \in {"CONNECTED", "AWAY"}
             /\ rooms[r].slots[t].status \in {"CONNECTED", "AWAY"}
             /\ rooms[r].slots[s].token = rooms[r].slots[t].token
             => s = t
    BY DEF RoomsOK
  <2>2. /\ rooms'[r].status = "PLAYING" =>
             \/ rooms'[r].version \in DOMAIN Story
             \/ rooms[r].status = "PLAYING" /\ rooms'[r].version = rooms[r].version
        /\ \A s \in JoinSeats :
             \/ rooms'[r].slots[s].token[2] = 0 /\ rooms'[r].slots[s].status = "EMPTY"
             \/ /\ rooms'[r].joins = rooms[r].joins
                /\ rooms'[r].slots[s].token = rooms[r].slots[s].token
                /\ rooms'[r].slots[s].status \in {"CONNECTED", "AWAY"} =>
                     rooms[r].slots[s].status \in {"CONNECTED", "AWAY"}
    BY DEF Sends, NoNewSeats
  <2>3. rooms'[r].joins \in Nat
    BY <1>2 DEF ServerRoom
  <2>4. \A s \in JoinSeats : rooms'[r].slots[s].token[2] <= rooms'[r].joins
    BY <2>1, <2>2, <2>3
  <2> QED
    BY <2>1, <2>2, <2>4
<1> QED
  BY <1>4, <1>5, <1>6

LEMMA SeatWelcomed ==
  ASSUME SeatInv, CopyStays, NEW r, NEW s, NEW token, NEW ms, Welcomes(r, s, token, ms)
  PROVE  SeatedOK' /\ ShownOK' /\ RoomsOK'
<1> USE DEF SeatInv
<1>1. /\ Greeted' /\ Due' = token /\ DueSeat' = s
      /\ \A n \in Updates(conn'.down) :
           /\ rooms[r].status = "PLAYING"
           /\ conn'.down[n] = StateUpdate(r, s, rooms[r].version)
      /\ Coming' # {} => rooms[r].status = "PLAYING"
      /\ rooms[r] \in ServerRoom /\ rooms' \in [RoomIds -> ServerRoom] /\ RoomsGoOn
      /\ rooms'[r].status = rooms[r].status /\ rooms'[r].version = rooms[r].version
      /\ rooms'[r].joins = IF token = rooms[r].slots[s].token THEN rooms[r].joins ELSE token[2]
      /\ rooms'[r].slots[s] = [status |-> "CONNECTED", token |-> token, mine |-> TRUE]
      /\ \A t \in JoinSeats : t # s => rooms'[r].slots[t] = rooms[r].slots[t]
      /\ \A t \in RoomIds : t # r => rooms'[t] = rooms[t]
  BY Welcomed
<1>2. /\ r = g_room /\ s \in JoinSeats /\ g_room' = g_room /\ g_view_queue' = g_view_queue
      /\ conn.up # << >>
  BY DEF Welcomes
<1>3. /\ g_room \in RoomIds /\ ~Greeted /\ Due = g_session_token /\ g_view_queue = << >>
      /\ g_state = "HANDSHAKING" /\ \A t \in RoomIds, i \in JoinSeats : ~rooms[t].slots[i].mine
  BY <1>2, Waits
<1>4. \/ rooms[r].status = "WAITING" /\ token = <<r, rooms[r].joins + 1>>
      \/ /\ rooms[r].status = "PLAYING" /\ token = g_session_token
         /\ rooms[r].slots[s].status = "AWAY" /\ rooms[r].slots[s].token = token
  BY DEF Welcomes
<1>5. /\ rooms'[r].slots[s].status = "CONNECTED" /\ rooms'[r].slots[s].token = token
      /\ rooms[r].joins \in Nat
  BY <1>1 DEF ServerRoom
<1>6. /\ rooms[r].status = "PLAYING" => rooms[r].version \in DOMAIN Story
      /\ \A i \in JoinSeats : rooms[r].slots[i].token[2] <= rooms[r].joins
      /\ \A i, j \in JoinSeats :
           /\ rooms[r].slots[i].status \in {"CONNECTED", "AWAY"}
           /\ rooms[r].slots[j].status \in {"CONNECTED", "AWAY"}
           /\ rooms[r].slots[i].token = rooms[r].slots[j].token
           => i = j
  BY <1>2, <1>3 DEF RoomsOK
<1>7. SeatedOK'
  <2>1. \A t \in RoomIds, i \in JoinSeats : rooms'[t].slots[i].mine => i = s
    <3> SUFFICES ASSUME NEW t \in RoomIds, NEW i \in JoinSeats, i # s
                 PROVE  ~rooms'[t].slots[i].mine
      OBVIOUS
    <3>1. CASE t = r
      BY <1>1, <1>3, <3>1
    <3>2. CASE t # r
      BY <1>1, <1>3, <3>2
    <3> QED
      BY <3>1, <3>2
  <2>2. DOMAIN g_view_queue' = {}
    BY <1>2, <1>3
  <2>3. \A n \in Updates(conn'.down) : MadeView(conn'.down[n].update, s)
    BY <1>1, <1>6, UpdateIsMade
  <2>4. HasSeat(s)'
    BY <1>1, <1>2, <1>5 DEF HasSeat
  <2>5. HasSeat(DueSeat)'
    BY <1>1, <1>2, <1>5 DEF HasSeat
  <2> QED
    BY <1>1, <1>2, <2>1, <2>2, <2>3, <2>5 DEF SeatedOK
<1>8. ShownOK'
  <2>1. gs' # NoGame => g_room' = g_room /\ Due' = Due /\ gs # NoGame /\ rooms[r].status = "PLAYING"
    <3>1. gs' # NoGame => gs # NoGame /\ rooms[g_room].status # "WAITING"
      BY DEF CopyStays, IInv, HeldOK, Held
    <3> QED
      BY <1>1, <1>2, <1>3, <1>4, <3>1
  <2>2. ASSUME NEW seat \in JoinSeats, gs' # NoGame, HasSeat(seat) PROVE DueSeat' = seat
    <3>1. /\ rooms[r].slots[seat].status \in {"CONNECTED", "AWAY"}
          /\ rooms[r].slots[seat].token = token
      BY <1>2, <1>3, <1>4, <2>1, <2>2 DEF HasSeat
    <3> QED
      BY <1>1, <1>2, <1>4, <1>6, <2>1, <2>2, <3>1
  <2> HIDE DEF SeatInv
  <2> QED
    BY <1>1, <2>1, <2>2, ShownOn
<1>9. RoomsOK'
  <2>1. CASE rooms[r].status = "WAITING" /\ token = <<r, rooms[r].joins + 1>>
    <3>1. token[2] = rooms[r].joins + 1 /\ token # rooms[r].slots[s].token
      BY <1>2, <1>5, <1>6, <2>1
    <3>2. /\ rooms'[r].joins = rooms[r].joins + 1
          /\ \A i \in JoinSeats : i # s => rooms'[r].slots[i].token # token
      BY <1>1, <1>5, <1>6, <3>1
    <3>3. /\ \A i \in JoinSeats : rooms'[r].slots[i].token[2] <= rooms'[r].joins
          /\ \A i, j \in JoinSeats :
               /\ rooms'[r].slots[i].status \in {"CONNECTED", "AWAY"}
               /\ rooms'[r].slots[j].status \in {"CONNECTED", "AWAY"}
               /\ rooms'[r].slots[i].token = rooms'[r].slots[j].token
               => i = j
      <4>1. ASSUME NEW i \in JoinSeats PROVE rooms'[r].slots[i].token[2] <= rooms'[r].joins
        <5>1. CASE i = s
          BY <1>5, <3>1, <3>2, <5>1
        <5>2. CASE i # s
          <6>1. /\ rooms'[r].slots[i].token = rooms[r].slots[i].token
                /\ rooms[r].slots[i].token[2] <= rooms[r].joins
            BY <1>1, <1>6, <5>2
          <6>2. rooms[r].slots[i] \in SeatSlot
            BY <1>1 DEF ServerRoom
          <6>3. rooms[r].slots[i].token[2] \in Nat
            BY <6>2 DEF SeatSlot, Token
          <6> QED
            BY <1>5, <3>2, <6>1, <6>3
        <5> QED
          BY <5>1, <5>2
      <4>2. ASSUME NEW i \in JoinSeats, NEW j \in JoinSeats,
                   rooms'[r].slots[i].status \in {"CONNECTED", "AWAY"},
                   rooms'[r].slots[j].status \in {"CONNECTED", "AWAY"},
                   rooms'[r].slots[i].token = rooms'[r].slots[j].token
            PROVE  i = j
        <5>1. i = s \/ j = s => i = j
          BY <1>5, <3>2, <4>2
        <5>2. CASE i # s /\ j # s
          BY <1>1, <1>6, <4>2, <5>2
        <5> QED
          BY <5>1, <5>2
      <4> QED
        BY <4>1, <4>2
    <3> QED
      BY <1>1, <1>2, <1>3, <2>1, <3>3 DEF RoomsOK
  <2>2. CASE /\ rooms[r].status = "PLAYING" /\ token = g_session_token
             /\ rooms[r].slots[s].status = "AWAY" /\ rooms[r].slots[s].token = token
    <3>1. \A i \in JoinSeats :
            /\ rooms'[r].slots[i].token = rooms[r].slots[i].token
            /\ rooms'[r].slots[i].status \in {"CONNECTED", "AWAY"} =>
                 rooms[r].slots[i].status \in {"CONNECTED", "AWAY"}
      BY <1>1, <1>5, <2>2
    <3>2. rooms'[r].joins = rooms[r].joins /\ rooms'[r].version = rooms[r].version
      BY <1>1, <2>2
    <3>3. /\ rooms'[r].status = "PLAYING" => rooms'[r].version \in DOMAIN Story
          /\ \A i \in JoinSeats : rooms'[r].slots[i].token[2] <= rooms'[r].joins
          /\ \A i, j \in JoinSeats :
               /\ rooms'[r].slots[i].status \in {"CONNECTED", "AWAY"}
               /\ rooms'[r].slots[j].status \in {"CONNECTED", "AWAY"}
               /\ rooms'[r].slots[i].token = rooms'[r].slots[j].token
               => i = j
      BY <1>1, <1>6, <3>1, <3>2
    <3> QED
      BY <1>1, <3>3 DEF RoomsOK
  <2> QED
    BY <1>4, <2>1, <2>2
<1> QED
  BY <1>7, <1>8, <1>9

\* The oldest view takes the screen.
LEMMA SeatShows ==
  ASSUME SeatInv, ShowView
  PROVE  SeatedOK' /\ ShownOK' /\ RoomsOK'
<1> USE DEF SeatInv
<1> DEFINE q == g_view_queue
           rest == Tail(g_view_queue)
           before == IF gs = NoGame THEN EmptyGame ELSE gs
           view == q[1].view
           v == q[1].of[2]
<1>1. /\ UNCHANGED <<g_state, g_seat, g_room, g_session_token, conn, rooms>>
      /\ g_state = "CONNECTED" /\ q # << >> /\ g_view_queue' = rest
  BY DEF ShowView
<1>2. /\ 1 \in DOMAIN q /\ Head(q) = q[1]
      /\ \A n \in DOMAIN rest : n + 1 \in DOMAIN q /\ rest[n] = q[n + 1]
  BY <1>1, Behead DEF IInv, Types
<1>3. gs' = StateRecvApply(before, view) /\ shown' = q[1].of /\ guess' = FALSE
  BY <1>2 DEF ShowView
<1> HIDE DEF rest
<1>4. /\ ~Greeted /\ ~Greeted' /\ Due' = Due /\ DueSeat = g_seat /\ DueSeat' = g_seat
      /\ Seated /\ Seated'
  BY <1>1 DEF Greeted, Due, DueSeat, Seated
<1>5. Coming # {}
  BY <1>2 DEF Coming
<1>6. /\ g_seat \in JoinSeats /\ HasSeat(g_seat)
      /\ \A r \in RoomIds, s \in JoinSeats : rooms[r].slots[s].mine => s = g_seat
      /\ \A i \in DOMAIN q : MadeView(q[i], g_seat)
      /\ \A n \in Updates(conn.down) : MadeView(conn.down[n].update, g_seat)
  BY <1>4, <1>5 DEF SeatedOK, HasSeat
<1>7. HasSeat(g_seat)' /\ HasSeat(DueSeat)'
  BY <1>1, <1>4, <1>6 DEF HasSeat
<1>8. SeatedOK'
  BY <1>1, <1>2, <1>4, <1>6, <1>7 DEF SeatedOK
<1>9. RoomsOK'
  BY <1>1 DEF RoomsOK
<1>10. v \in DOMAIN Story /\ \E ready : view = BuildPlayerView([Story[v] EXCEPT !.ready = ready], g_seat)
  BY <1>2, <1>6 DEF MadeView
<1>11. Story[v] \in Range(Story)
  BY <1>10 DEF Range
<1>12. Ordered(before.hand)
  BY Nothing DEF EmptyGame, ShownOK, ShownFrom, Mirrors
<1> HIDE DEF before, view, v
<1>13. Mirrors(gs', Story[v], g_seat, FALSE)
  BY <1>3, <1>6, <1>10, <1>11, <1>12, CopyReceived
<1>14. shown'[2] = v
  BY <1>3 DEF v
<1>15. ShownOK'
  BY <1>3, <1>4, <1>6, <1>7, <1>10, <1>13, <1>14 DEF ShownOK, ShownFrom
<1> QED
  BY <1>8, <1>9, <1>15

LEMMA SeatInitially ==
  ASSUME Init
  PROVE  SeatInv
<1>1. IInv
  BY InitSatisfies
<1>2. ~Seated
  BY DEF Init, Seated, Greeted
<1>3. gs = NoGame
  BY DEF Init
<1>4. EmptySeat.status = "EMPTY" /\ EmptySeat.token[2] = 0
  BY DEF EmptySeat, NoToken
<1>5. \A r \in RoomIds :
        /\ rooms[r].status = "WAITING" /\ rooms[r].joins = 0
        /\ \A s \in JoinSeats : rooms[r].slots[s] = EmptySeat
  BY DEF Init, NewRoom
<1>6. RoomsOK
  BY <1>4, <1>5 DEF RoomsOK
<1> QED
  BY <1>1, <1>2, <1>3, <1>6 DEF SeatInv, SeatedOK, ShownOK

LEMMA SeatStepKeeps ==
  ASSUME SeatInv, [Next]_vars
  PROVE  SeatInv'
<1>1. IInv /\ IInv'
  BY StepKeeps DEF SeatInv
<1>2. SeatedOK' /\ ShownOK' /\ RoomsOK'
  <2>1. CASE ShowView
    BY <2>1, SeatShows
  <2>2. CASE ~ShowView
    <3>1. CopyStays
      BY <2>2, CopyKept
    <3>2. CASE ScreenOnly
      BY <3>1, <3>2, SeatUntouched DEF ScreenOnly
    <3>3. CASE ConnectionOpens
      <4>1. /\ UNCHANGED <<g_state, g_seat, g_room, g_session_token, g_view_queue, rooms>>
            /\ conn'.down = conn.down
        BY <1>1, <3>3 DEF ConnectionOpens, NetworkVars, clientVars, IInv, Types
      <4> QED
        BY <3>1, <4>1, SeatUntouched
    <3>4. CASE MenuSeesGame
      <4>1. /\ UNCHANGED <<g_state, g_seat, g_room, g_session_token, g_view_queue, rooms>>
            /\ conn'.down = conn.down
        BY <3>4 DEF MenuSeesGame, clientVars
      <4> QED
        BY <3>1, <4>1, SeatUntouched
    <3>5. CASE SendHandshake
      <4>1. /\ conn'.down = conn.down /\ conn.down = << >> /\ g_state' = "HANDSHAKING"
            /\ g_state # "HANDSHAKING" /\ UNCHANGED <<g_room, g_session_token, rooms>>
        BY <1>1, <3>5 DEF SendHandshake, IInv, Types, HandshakeOK
      <4>2. ~Seated' /\ Due' = Due
        BY <4>1 DEF Seated, Greeted, Due
      <4> QED
        BY <3>1, <4>1, <4>2, NotSeated
    <3>6. CASE Rejects
      <4>1. /\ ~Greeted' /\ Due' = Due /\ g_state = "HANDSHAKING"
            /\ UNCHANGED <<g_state, g_room, rooms>>
        BY <1>1, <3>6, Rejected, Waits DEF Rejects
      <4>2. ~Seated'
        BY <4>1 DEF Seated
      <4> QED
        BY <3>1, <4>1, <4>2, NotSeated
    <3> QED
      BY <1>1, <2>2, <3>1, <3>2, <3>3, <3>4, <3>5, <3>6, StepIs, SeatHungUp, SeatReadOn, SeatSent,
         SeatWelcomed
  <2> QED
    BY <2>1, <2>2
<1> QED
  BY <1>1, <1>2 DEF SeatInv

LEMMA AlwaysSeatInv == Spec => []SeatInv
BY SeatInitially, SeatStepKeeps, PTL DEF Spec

\* From the server's seats to the local players and back.
LEMMA ThereAndBack ==
  ASSUME NEW seat \in PlayerSeats, NEW x \in PlayerSeats \cup {NobodySeat}
  PROVE  LET p == RemapSeat(x, seat)
         IN  /\ x = IF p < 0 THEN p ELSE ServerSeat(p, seat)
             /\ p \in PlayerSeats => x = ServerSeat(p, seat)
<1>1. seat \in {0, 1, 2, 3} /\ x \in {-1, 0, 1, 2, 3}
  BY DEF PlayerSeats, NumPlayers, NobodySeat
<1>2. CASE x = -1
  BY <1>2 DEF RemapSeat, PlayerSeats, NumPlayers
<1>3. CASE x \in {0, 1, 2, 3}
  <2>1. RemapSeat(x, seat) = IF x >= seat THEN x - seat ELSE x - seat + 4
    BY <1>1, <1>3 DEF RemapSeat, NumPlayers
  <2>2. RemapSeat(x, seat) \in {0, 1, 2, 3}
    BY <1>1, <1>3, <2>1
  <2>3. ServerSeat(RemapSeat(x, seat), seat) = x
    BY <1>1, <1>3, <2>1 DEF ServerSeat, NumPlayers
  <2> QED
    BY <2>2, <2>3
<1> QED
  BY <1>1, <1>2, <1>3

-----------------------------------------------------------------------------
(* The results.                                                              *)

\* Views are shown in the order the server made them, whatever connections break, are
\* replaced or go to another room, and however long the queue and its animations hold
\* them back: handle_state_update loses the oldest only.
THEOREM ViewsComeInOrder == Spec => []ViewsAreInOrder
<1>1. ASSUME IInv PROVE ViewsAreInOrder
  <2>1. /\ DOMAIN g_view_queue = 1 .. Len(g_view_queue) /\ Len(g_view_queue) \in Nat
    BY <1>1 DEF IInv, Types, Ordered
  <2>2. \A i \in 1 .. Len(g_view_queue) - 1 :
          g_view_queue[i].of[2] <= g_view_queue[i + 1].of[2]
    BY <1>1, <2>1 DEF IInv, OrderOK
  <2>3. \A i \in DOMAIN g_view_queue : g_view_queue[i].of \in Coming
    BY DEF Coming
  <2> QED
    BY <1>1, <2>2, <2>3 DEF IInv, OrderOK, ViewsAreInOrder
<1> QED
  BY <1>1, AlwaysIInv, PTL

\* The way back is always open: as long as the game runs, the token the client has and
\* the one in its settings open the seat, however often the client lost its connection,
\* was refused or was restarted.
THEOREM TokensOpenTheSeat == Spec => []TokenOpensTheSeat
<1>1. ASSUME IInv PROVE TokenOpensTheSeat
  BY <1>1 DEF IInv, HeldOK, Held, TokenOpensTheSeat
<1> QED
  BY <1>1, AlwaysIInv, PTL

-----------------------------------------------------------------------------
(* What a view shows of the others.                                          *)

\* A contract that is the others' own shows no more than one whose number is blanked.
LEMMA UntoldContract ==
  ASSUME NEW c, {"id", "revealed", "completed"} \subseteq DOMAIN c
  PROVE  LET told == c.revealed \/ c.completed
             b == IF told THEN c ELSE [c EXCEPT !.id = Hidden]
         IN  [c EXCEPT !.id = IF told THEN @ ELSE Hidden]
               = [b EXCEPT !.id = IF b.revealed \/ b.completed THEN @ ELSE Hidden]
<1>1. CASE c.revealed \/ c.completed
  BY <1>1
<1>2. CASE ~(c.revealed \/ c.completed)
  <2> DEFINE b == [c EXCEPT !.id = Hidden]
  <2>1. /\ DOMAIN b = DOMAIN c /\ b.id = Hidden /\ b.revealed = c.revealed /\ b.completed = c.completed
        /\ [b EXCEPT !.id = Hidden] = b
    OBVIOUS
  <2> QED
    BY <1>2, <2>1
<1> QED
  BY <1>1, <1>2

LEMMA PublicView ==
  ASSUME NEW g, NEW seat \in PlayerSeats,
         {"phase", "round", "lead", "trick", "table", "ready", "hand", "slots", "inv",
          "selections", "draft", "contracts", "effects", "pending", "duel", "phase2"}
           \subseteq DOMAIN g,
         {"winner", "target", "index", "card"} \subseteq DOMAIN g.duel,
         \A p \in PlayerSeats : \A i \in DOMAIN g.contracts[p] :
           {"id", "revealed", "completed"} \subseteq DOMAIN g.contracts[p][i]
  PROVE  BuildPlayerView(g, seat) = BuildPlayerView(PublicPart(g, seat), seat)
<1> DEFINE b == PublicPart(g, seat)
<1>1. /\ b.phase = g.phase /\ b.round = g.round /\ b.lead = g.lead /\ b.trick = g.trick
      /\ b.table = g.table /\ b.ready = g.ready /\ b.phase2 = g.phase2
      /\ b.effects = g.effects /\ b.pending = g.pending
  BY DEF PublicPart
<1>2. /\ b.hand[seat] = g.hand[seat] /\ b.slots[seat] = g.slots[seat]
      /\ b.inv[seat] = g.inv[seat] /\ b.selections[seat] = g.selections[seat]
      /\ b.draft[seat] = g.draft[seat]
  BY DEF PublicPart
<1>3. \A p \in PlayerSeats :
        b.contracts[p] = IF p = seat THEN g.contracts[p]
                         ELSE [i \in DOMAIN g.contracts[p] |->
                                IF g.contracts[p][i].revealed \/ g.contracts[p][i].completed
                                THEN g.contracts[p][i]
                                ELSE [g.contracts[p][i] EXCEPT !.id = Hidden]]
  BY DEF PublicPart
<1>4. b.duel = [g.duel EXCEPT !.card =
                 IF seat \in {g.duel.winner, g.duel.target} THEN @ ELSE NoCard]
  BY DEF PublicPart
<1> HIDE DEF b
<1>5. ViewOfDuel(b.duel, seat) = ViewOfDuel(g.duel, seat)
  <2> DEFINE d == g.duel
             e == [d EXCEPT !.card = IF seat \in {d.winner, d.target} THEN @ ELSE NoCard]
  <2>1. /\ DOMAIN e = DOMAIN d /\ e.winner = d.winner /\ e.target = d.target /\ e.index = d.index
        /\ e.card = IF seat \in {d.winner, d.target} THEN d.card ELSE NoCard
        /\ \A k \in DOMAIN d : k # "card" => e[k] = d[k]
    OBVIOUS
  <2>2. b.duel = e
    BY <1>4
  <2> HIDE DEF d, e
  <2>3. ViewOfDuel(e, seat) = ViewOfDuel(d, seat)
    BY <2>1 DEF ViewOfDuel
  <2> QED
    BY <2>2, <2>3 DEF d
<1>6. ViewOfContracts(b, seat) = ViewOfContracts(g, seat)
  <2>1. ASSUME NEW p \in PlayerSeats
        PROVE  [i \in DOMAIN b.contracts[p] |->
                 LET c == b.contracts[p][i]
                 IN  [c EXCEPT !.id = IF p = seat \/ c.revealed \/ c.completed THEN @ ELSE Hidden]]
             = [i \in DOMAIN g.contracts[p] |->
                 LET c == g.contracts[p][i]
                 IN  [c EXCEPT !.id = IF p = seat \/ c.revealed \/ c.completed THEN @ ELSE Hidden]]
    <3>1. CASE p = seat
      <4>1. b.contracts[p] = g.contracts[p]
        BY <1>3, <3>1
      <4> QED
        BY <4>1
    <3>2. CASE p # seat
      <4>1. DOMAIN b.contracts[p] = DOMAIN g.contracts[p]
        BY <1>3, <3>2
      <4>2. ASSUME NEW i \in DOMAIN g.contracts[p]
            PROVE  [b.contracts[p][i] EXCEPT !.id =
                      IF b.contracts[p][i].revealed \/ b.contracts[p][i].completed THEN @ ELSE Hidden]
                 = [g.contracts[p][i] EXCEPT !.id =
                      IF g.contracts[p][i].revealed \/ g.contracts[p][i].completed THEN @ ELSE Hidden]
        <5> DEFINE c == g.contracts[p][i]
        <5>1. {"id", "revealed", "completed"} \subseteq DOMAIN c
          OBVIOUS
        <5>2. b.contracts[p][i] = IF c.revealed \/ c.completed THEN c ELSE [c EXCEPT !.id = Hidden]
          BY <1>3, <3>2
        <5> HIDE DEF c
        <5>3. [b.contracts[p][i] EXCEPT !.id =
                 IF b.contracts[p][i].revealed \/ b.contracts[p][i].completed THEN @ ELSE Hidden]
              = [c EXCEPT !.id = IF c.revealed \/ c.completed THEN @ ELSE Hidden]
          BY <5>1, <5>2, UntoldContract
        <5> QED
          BY <5>3 DEF c
      <4> QED
        BY <3>2, <4>1, <4>2
    <3> QED
      BY <3>1, <3>2
  <2> QED
    BY <2>1 DEF ViewOfContracts
<1>7. g.phase2 => ViewOfPhase2(b, seat) = ViewOfPhase2(g, seat)
  BY <1>1, <1>2, <1>5, <1>6 DEF ViewOfPhase2
<1>8. BuildPlayerView(b, seat) = BuildPlayerView(g, seat)
  BY <1>1, <1>2, <1>7 DEF BuildPlayerView
<1> QED
  BY <1>8 DEF b

\* Whatever the others hold, have picked or have not revealed, a view is the same: nothing
\* that net_build_player_view puts into it depends on it. For any game.
THEOREM ViewsShowNoOthers == Spec => []OthersStayHidden
<1>1. ASSUME IInv PROVE OthersStayHidden
  <2> SUFFICES ASSUME NEW r \in RoomIds, rooms[r].version > 0, NEW s \in PlayerSeats
               PROVE  BuildPlayerView(Story[rooms[r].version], s)
                        = BuildPlayerView(PublicPart(Story[rooms[r].version], s), s)
    BY DEF OthersStayHidden
  <2>1. rooms[r].version \in 1 .. Len(Story)
    BY <1>1 DEF IInv, Types, ServerRoom
  <2>2. Story[rooms[r].version] \in Range(Story)
    BY <2>1, StoryAssumption DEF Range
  <2> QED
    BY <2>2, PublicView, StoryAssumption
<1> QED
  BY <1>1, AlwaysIInv, PTL

-----------------------------------------------------------------------------
(* The seat and the hand.                                                    *)

\* What the client shows is the game as it is at its seat, whichever connections it lost
\* and got back: every player, play, effect and target is the one the client's commands
\* reach, and each card has the slot the server holds for it however the player has
\* arranged the hand (state_recv_apply, render_commit_hand_reorder). For any game.
THEOREM ViewsAreOfTheSeat == Spec => []SeenFromTheSeat
<1>1. ASSUME SeatInv PROVE SeenFromTheSeat
  <2> SUFFICES ASSUME Connected PROVE SeenFromTheSeat
    BY DEF SeenFromTheSeat
  <2> DEFINE g == Story[shown[2]]
             At(p) == IF p < 0 THEN p ELSE ServerSeat(p, g_seat)
  <2>1. Seated /\ DueSeat = g_seat /\ gs # NoGame
    BY DEF Connected, Seated, DueSeat, Greeted
  <2>2. shown[2] \in DOMAIN Story /\ Mirrors(gs, g, g_seat, guess) /\ g_seat \in JoinSeats
    BY <1>1, <2>1 DEF SeatInv, ShownOK, ShownFrom
  <2>3. g \in Range(Story) /\ g_seat \in PlayerSeats
    BY <2>2, SeatsAssumption DEF Range
  <2> HIDE DEF g
  <2>4. \A x \in PlayerSeats \cup {NobodySeat} : At(RemapSeat(x, g_seat)) = x
    BY <2>3, ThereAndBack
  <2>5. \A p \in PlayerSeats : At(p) = ServerSeat(p, g_seat) /\ At(0) = g_seat
    BY <2>3 DEF PlayerSeats, NumPlayers, ServerSeat
  <2>6. \A p \in PlayerSeats : gs.table[p] = g.table[At(p)]
    BY <2>2, <2>5 DEF Mirrors
  <2>7. ASSUME NEW i \in DOMAIN g.trick.plays
        PROVE  At(gs.trick.plays[i].player) = g.trick.plays[i].player
    <3>1. "player" \in DOMAIN g.trick.plays[i] /\ g.trick.plays[i].player \in PlayerSeats
      BY <2>3, StoryAssumption
    <3>2. gs.trick.plays[i].player = RemapSeat(g.trick.plays[i].player, g_seat)
      BY <2>2, <3>1 DEF Mirrors, ApplyTrick, ViewOfTrick
    <3> HIDE DEF At
    <3> QED
      BY <2>4, <3>1, <3>2
  <2>8. ASSUME g.phase2
        PROVE  At(gs.p2.duel.target) = g.duel.target /\ At(gs.p2.pending) = g.pending
    <3>1. {g.duel.target, g.pending} \subseteq PlayerSeats \cup {NobodySeat}
      BY <2>3, StoryAssumption
    <3>2. /\ gs.p2.duel.target = RemapSeat(g.duel.target, g_seat)
          /\ gs.p2.pending = RemapSeat(g.pending, g_seat)
      BY <2>2, <2>8 DEF Mirrors
    <3> HIDE DEF At
    <3> QED
      BY <2>4, <3>1, <3>2
  <2>9. ASSUME g.phase2, NEW p \in PlayerSeats, NEW i \in DOMAIN gs.p2.effects[p]
        PROVE  \E e \in Range(g.effects) :
                 e.source = At(p) /\ e.target = At(gs.p2.effects[p][i].target)
    <3> DEFINE e == g.effects[i]
    <3>1. gs.p2.effects = ApplyEffects(g.effects, g_seat)
      BY <2>2, <2>9 DEF Mirrors
    <3>2. /\ i \in DOMAIN g.effects /\ RemapSeat(e.source, g_seat) = p
          /\ gs.p2.effects[p][i] = [e EXCEPT !.source = p, !.target = RemapSeat(@, g_seat)]
      <4> DEFINE Mine == {j \in DOMAIN g.effects : RemapSeat(g.effects[j].source, g_seat) = p}
                 Now(j) == [g.effects[j] EXCEPT !.source = p, !.target = RemapSeat(@, g_seat)]
      <4>1. ApplyEffects(g.effects, g_seat)[p] = [j \in Mine |-> Now(j)]
        BY <2>9 DEF ApplyEffects
      <4>2. gs.p2.effects[p] = [j \in Mine |-> Now(j)]
        BY <3>1, <4>1
      <4> HIDE DEF Now
      <4>3. i \in Mine /\ gs.p2.effects[p][i] = Now(i)
        BY <2>9, <4>2
      <4>4. gs.p2.effects[p][i] = [e EXCEPT !.source = p, !.target = RemapSeat(@, g_seat)]
        BY <4>3 DEF Now
      <4> QED
        BY <4>3, <4>4
    <3>3. /\ {"source", "target"} \subseteq DOMAIN e
          /\ {e.source, e.target} \subseteq PlayerSeats \cup {NobodySeat}
      BY <2>3, <3>2, StoryAssumption
    <3>4. e \in Range(g.effects)
      BY <3>2 DEF Range
    <3> HIDE DEF e, At
    <3>5. gs.p2.effects[p][i].target = RemapSeat(e.target, g_seat)
      BY <3>2, <3>3
    <3>6. e.source = At(p) /\ e.target = At(gs.p2.effects[p][i].target)
      BY <2>4, <3>2, <3>3, <3>5
    <3> QED
      BY <3>4, <3>6
  <2>10. g.phase2 /\ ~guess => PairCounts(gs.hand, gs.p2.slots) = PairCounts(g.hand[At(0)], SlotsSeen(g, At(0)))
    <3>1. At(0) = g_seat
      BY <2>5 DEF PlayerSeats, NumPlayers
    <3> HIDE DEF At
    <3> QED
      BY <2>2, <3>1 DEF Mirrors
  <2> QED
    BY <2>6, <2>7, <2>8, <2>9, <2>10 DEF SeenFromTheSeat, SlotsSeen, g
<1> QED
  BY <1>1, AlwaysSeatInv, PTL

\* The cards that stay in the hand stay in the order the player has put them, through
\* every view (state_recv_apply): for any game and any hands, repeated cards included.
THEOREM ArrangementStays == Spec => ArrangementIsKept
<1>1. ASSUME SeatInv, [Next]_vars, gs # NoGame, gs' # NoGame, shown' # shown,
             NEW c \in Range(gs.hand) \cap Range(gs'.hand),
             NEW d \in Range(gs.hand) \cap Range(gs'.hand),
             PlaceIn(gs.hand, c) < PlaceIn(gs.hand, d)
      PROVE  PlaceIn(gs'.hand, c) < PlaceIn(gs'.hand, d)
  <2>1. ShowView
    BY <1>1, CopyKept DEF CopyStays
  <2> DEFINE u == g_view_queue[1]
             new == u.view.hand
             old == gs.hand
  <2>2. g_view_queue # << >> /\ 1 \in DOMAIN g_view_queue /\ Head(g_view_queue) = u
    BY <1>1, <2>1, Behead DEF ShowView, SeatInv, IInv, Types
  <2>3. gs' = StateRecvApply(gs, u.view)
    BY <1>1, <2>1, <2>2 DEF ShowView
  <2>4. gs'.hand = [i \in DOMAIN Arrangement(old, new) |-> new[Arrangement(old, new)[i]]]
    BY <2>3 DEF StateRecvApply
  <2>5. Ordered(old)
    BY <1>1 DEF SeatInv, ShownOK, ShownFrom, Mirrors
  <2>6. MadeView(u, g_seat) /\ g_seat \in JoinSeats
    BY <1>1, <2>1, <2>2 DEF ShowView, SeatInv, SeatedOK, Seated, DueSeat, Greeted
  <2>7. Ordered(new)
    <3>1. PICK ready : u.view = BuildPlayerView([Story[u.of[2]] EXCEPT !.ready = ready], g_seat)
      BY <2>6 DEF MadeView
    <3>2. Story[u.of[2]] \in Range(Story) /\ g_seat \in PlayerSeats
      BY <2>6, SeatsAssumption DEF MadeView, Range
    <3>3. new = Story[u.of[2]].hand[g_seat]
      BY <3>1, <3>2, StoryAssumption DEF BuildPlayerView
    <3> QED
      BY <3>2, <3>3, StoryAssumption DEF Ordered
  <2> DEFINE hand == [i \in DOMAIN Arrangement(old, new) |-> new[Arrangement(old, new)[i]]]
  <2>8. \A a, b \in Range(old) \cap Range(hand) :
          PlaceIn(old, a) < PlaceIn(old, b) => PlaceIn(hand, a) < PlaceIn(hand, b)
    <3> HIDE DEF old, new
    <3> QED
      BY <2>5, <2>7, HandLaidOut
  <2>9. gs'.hand = hand
    BY <2>4
  <2> HIDE DEF hand, old
  <2> QED
    BY <1>1, <2>8, <2>9 DEF old
<1>2. SeatInv /\ [Next]_vars =>
        [(gs # NoGame /\ gs' # NoGame /\ shown' # shown) =>
           \A c, d \in Range(gs.hand) \cap Range(gs'.hand) :
             PlaceIn(gs.hand, c) < PlaceIn(gs.hand, d) => PlaceIn(gs'.hand, c) < PlaceIn(gs'.hand, d)]_vars
  BY <1>1
<1> QED
  BY <1>2, AlwaysSeatInv, PTL DEF Spec, ArrangementIsKept

=============================================================================
