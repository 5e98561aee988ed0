------------------------------ MODULE LinkProofs ------------------------------
(***************************************************************************)
(* Link implements Channel, for rings, frames and streams of any size: the *)
(* bytes of the accepted messages form one log, and the sender's ring, the *)
(* stream and the receiver's ring each hold a piece of it.                 *)
(***************************************************************************)
EXTENDS Link, SequenceTheorems, TLAPS

Bytes == Nat \X Nat
Ring == [data : [0..NET_RINGBUF_CAPACITY - 1 -> Bytes], head : Nat, tail : Nat]

-----------------------------------------------------------------------------
(* Offsets in the array.                                                    *)

LEMMA Capacity == NET_RINGBUF_CAPACITY \in Nat \ {0}
BY RingHoldsAFrame

LEMMA DivMod ==
  ASSUME NEW c \in Nat \ {0}, NEW t \in Nat
  PROVE  /\ t \div c \in Int /\ t % c \in 0 .. c - 1
         /\ t = c * (t \div c) + (t % c)
OBVIOUS

LEMMA ModOf ==
  ASSUME NEW c \in Nat \ {0}, NEW q \in Int, NEW r \in 0 .. c - 1
  PROVE  (c * q + r) % c = r
OBVIOUS

\* A position j further on, before and after the end of the array.
LEMMA ModAdd ==
  ASSUME NEW c \in Nat \ {0}, NEW t \in Nat, NEW j \in Nat, (t % c) + j < c
  PROVE  (t + j) % c = (t % c) + j
<1> DEFINE q == t \div c
           r == t % c
<1>1. q \in Int /\ r \in 0 .. c - 1 /\ t = c * q + r
  BY DivMod
<1> HIDE DEF q, r
<1>2. r + j \in 0 .. c - 1 /\ t + j = c * q + (r + j)
  BY <1>1 DEF r
<1> QED
  BY <1>1, <1>2, ModOf DEF r

LEMMA ModWrap ==
  ASSUME NEW c \in Nat \ {0}, NEW t \in Nat, NEW j \in Nat, (t % c) + j >= c, j <= c
  PROVE  (t + j) % c = (t % c) + j - c
<1> DEFINE q == t \div c
           r == t % c
<1>1. q \in Int /\ r \in 0 .. c - 1 /\ t = c * q + r
  BY DivMod
<1> HIDE DEF q, r
<1>2. r + j - c \in 0 .. c - 1 /\ q + 1 \in Int /\ t + j = c * (q + 1) + (r + j - c)
  BY <1>1 DEF r
<1> QED
  BY <1>1, <1>2, ModOf DEF r

\* Two positions less than a capacity apart have places of their own.
LEMMA ModApart ==
  ASSUME NEW c \in Nat \ {0}, NEW p \in Nat, NEW q \in Nat, p < q, q < p + c
  PROVE  p % c # q % c
<1> DEFINE j == q - p
<1>1. j \in Nat /\ j \in 1 .. c - 1 /\ q = p + j /\ p % c \in 0 .. c - 1
  BY DivMod
<1> HIDE DEF j
<1>2. CASE (p % c) + j < c
  <2>1. (p + j) % c = (p % c) + j
    BY ONLY c \in Nat \ {0}, p \in Nat, <1>1, <1>2, ModAdd
  <2> DEFINE r == p % c
  <2> HIDE DEF r
  <2>2. r # r + j
    BY <1>1 DEF r
  <2> QED
    BY <1>1, <2>1, <2>2 DEF r
<1>3. CASE (p % c) + j >= c
  <2>1. j \in Nat /\ j <= c
    BY <1>1
  <2>2. (p + j) % c = (p % c) + j - c
    BY <1>1, <1>3, <2>1, ModWrap
  <2> DEFINE r == p % c
  <2> HIDE DEF r
  <2>3. r # r + j - c
    BY <1>1 DEF r
  <2> QED
    BY <1>1, <2>2, <2>3 DEF r
<1> QED
  BY <1>1, <1>2, <1>3

-----------------------------------------------------------------------------
(* Writing to a ring and reading from it, in two pieces.                    *)

\* Where position p of the log is kept in the array.
Place(p) == p % NET_RINGBUF_CAPACITY

\* The array keeps the bytes of the log from position h up to t.
Stored(data, h, t, log) ==
  /\ data \in [0..NET_RINGBUF_CAPACITY - 1 -> Bytes]
  /\ \A p \in h .. t - 1 : data[Place(p)] = log[p]

\* The bytes are those of the log from position t on.
Follow(bytes, t, log) ==
  /\ bytes \in Seq(Bytes)
  /\ \A i \in 1 .. Len(bytes) : bytes[i] = log[t + i - 1]

\* The ring holds the bytes of the log from its head to its tail.
Holds(rb, log) == Stored(rb.data, rb.head, rb.tail, log)

\* first is what fits between position t and the end of the array, second the rest.
TwoPieces(t, first, second) ==
  /\ first \in Nat /\ second \in Nat
  /\ first <= NET_RINGBUF_CAPACITY - Place(t)
  /\ second = 0 \/ first = NET_RINGBUF_CAPACITY - Place(t)

LEMMA PlaceInArray ==
  ASSUME NEW p \in Nat
  PROVE  Place(p) \in 0 .. NET_RINGBUF_CAPACITY - 1
BY Capacity, DivMod DEF Place

LEMMA PlacesApart ==
  ASSUME NEW p \in Nat, NEW q \in Nat, p < q, q < p + NET_RINGBUF_CAPACITY
  PROVE  Place(p) # Place(q)
BY Capacity, ModApart DEF Place

LEMMA Places ==
  ASSUME NEW t \in Nat, NEW first, NEW second, TwoPieces(t, first, second),
         first + second <= NET_RINGBUF_CAPACITY
  PROVE  /\ \A j \in 0 .. first - 1 : Place(t + j) = Place(t) + j
         /\ \A j \in 0 .. second - 1 : Place(t + first + j) = j
<1> DEFINE c == NET_RINGBUF_CAPACITY
<1>0. c \in Nat \ {0} /\ Place(t) \in 0 .. c - 1 /\ first \in Nat /\ second \in Nat
      /\ first <= c - Place(t) /\ (second = 0 \/ first = c - Place(t)) /\ first + second <= c
  BY Capacity, PlaceInArray DEF TwoPieces
<1>1. \A j \in Nat : Place(t) + j < c => Place(t + j) = Place(t) + j
  BY Capacity, ModAdd DEF Place
<1>2. \A j \in Nat : Place(t) + j >= c /\ j <= c => Place(t + j) = Place(t) + j - c
  BY Capacity, ModWrap DEF Place
<1> HIDE DEF c
<1>3. ASSUME NEW j \in 0 .. first - 1
      PROVE  Place(t + j) = Place(t) + j
  BY <1>0, <1>1
<1>4. ASSUME NEW j \in 0 .. second - 1
      PROVE  Place(t + first + j) = j
  <2>1. first + j \in Nat /\ Place(t) + (first + j) >= c /\ first + j <= c
        /\ Place(t) + (first + j) - c = j /\ t + first + j = t + (first + j)
    BY <1>0
  <2> QED
    BY <1>2, <2>1
<1> QED
  BY <1>3, <1>4

\* Both pieces are written.
TwoWrites(data, t, first, second) == Copied(Copied(data, Place(t), first), 0, second)

LEMMA RingFilled ==
  ASSUME NEW data, NEW log, NEW h \in Nat, NEW t \in Nat, h <= t, Stored(data, h, t, log),
         NEW first, NEW second, Follow(first, t, log), Follow(second, t + Len(first), log),
         TwoPieces(t, Len(first), Len(second)),
         t + Len(first) + Len(second) <= h + NET_RINGBUF_CAPACITY
  PROVE  Stored(TwoWrites(data, t, first, second), h, t + Len(first) + Len(second), log)
<1> USE DEF Stored, Follow
<1> DEFINE c == NET_RINGBUF_CAPACITY
           a == Len(first)
           b == Len(second)
           o == Place(t)
           next == Copied(Copied(data, o, first), 0, second)
<1>1. c \in Nat \ {0} /\ o \in 0 .. c - 1 /\ a \in Nat /\ b \in Nat
      /\ a <= c - o /\ (b = 0 \/ a = c - o) /\ a + b <= c
  BY Capacity, PlaceInArray DEF TwoPieces
<1>2. /\ \A j \in 0 .. a - 1 : Place(t + j) = o + j
      /\ \A j \in 0 .. b - 1 : Place(t + a + j) = j
  <2>1. a + b <= NET_RINGBUF_CAPACITY /\ TwoPieces(t, a, b)
    BY <1>1
  <2> HIDE DEF next, o, a, b
  <2>2. /\ \A j \in 0 .. a - 1 : Place(t + j) = Place(t) + j
        /\ \A j \in 0 .. b - 1 : Place(t + a + j) = j
    BY <2>1, Places
  <2> QED
    BY <2>2 DEF o
<1>3. /\ DOMAIN next = 0 .. c - 1
      /\ \A k \in 0 .. c - 1 :
           next[k] = IF k < b THEN second[k + 1]
                     ELSE IF k >= o /\ k < o + a THEN first[k - o + 1] ELSE data[k]
  BY <1>1 DEF Copied
<1>4. next \in [0 .. c - 1 -> Bytes]
  <2>1. ASSUME NEW k \in 0 .. c - 1
        PROVE  next[k] \in Bytes
    <3>1. k < b => second[k + 1] \in Bytes
      BY <1>1, ElementOfSeq
    <3>2. k >= o /\ k < o + a => first[k - o + 1] \in Bytes
      BY <1>1, ElementOfSeq
    <3> QED
      BY <1>3, <3>1, <3>2
  <2>2. next = [k \in 0 .. c - 1 |-> next[k]]
    BY DEF Copied
  <2> HIDE DEF next
  <2> QED
    BY <2>1, <2>2
<1> HIDE DEF next, o, a, b, c
<1>5. ASSUME NEW p \in h .. t + a + b - 1
      PROVE  next[Place(p)] = log[p]
  <2>0. p \in Nat
    BY <1>1
  <2>00. Place(p) \in 0 .. c - 1
    BY <2>0, PlaceInArray DEF c
  <2>1. CASE p < t
    <3>1. ASSUME NEW j \in 0 .. a + b - 1
          PROVE  Place(p) # Place(t + j)
      <4>1. t + j \in Nat /\ p < t + j /\ t + j < p + c
        BY <1>1, <2>0, <2>00, <2>1 DEF a, b, c
      <4> QED
        BY <2>0, <2>00, <4>1, PlacesApart DEF c
    <3>2. ASSUME NEW j \in 0 .. a - 1
          PROVE  Place(p) # o + j
      BY <1>1, <1>2, <3>1
    <3>3. ASSUME NEW j \in 0 .. b - 1
          PROVE  Place(p) # j
      <4>1. a + j \in 0 .. a + b - 1 /\ t + (a + j) = t + a + j
        BY <1>1
      <4> QED
        BY <1>2, <3>1, <4>1
    <3>4. ~ (Place(p) < b)
      BY <1>1, <2>0, <2>00, <3>3
    <3>5. ~ (Place(p) >= o /\ Place(p) < o + a)
      <4>1. Place(p) >= o /\ Place(p) < o + a
              => Place(p) - o \in 0 .. a - 1 /\ Place(p) = o + (Place(p) - o)
        BY <1>1, <2>00
      <4> QED
        BY <3>2, <4>1
    <3>6. next[Place(p)] = data[Place(p)]
      <4> DEFINE k == Place(p)
      <4>1. k \in 0 .. c - 1 /\ ~ (k < b) /\ ~ (k >= o /\ k < o + a)
        BY <2>00, <3>4, <3>5
      <4> HIDE DEF k
      <4>2. next[k] = data[k]
        BY ONLY <1>1, <1>3, <4>1
      <4> QED
        BY <4>2 DEF k
    <3>7. p \in h .. t - 1
      BY <2>0, <2>00, <2>1
    <3> QED
      BY <3>6, <3>7
  <2>2. CASE p >= t /\ p < t + a
    <3> DEFINE j == p - t
    <3>1. j \in 0 .. a - 1 /\ p = t + j /\ j + 1 \in 1 .. a /\ t + (j + 1) - 1 = p
      BY <1>1, <2>0, <2>00, <2>2
    <3> HIDE DEF j
    <3>2. Place(p) = o + j
      BY <1>2, <3>1
    <3>3. o + j \in 0 .. c - 1 /\ ~ (o + j < b) /\ o + j >= o /\ o + j < o + a
          /\ (o + j) - o + 1 = j + 1
      BY <1>1, <3>1
    <3>4. next[o + j] = first[j + 1]
      BY <1>3, <3>3
    <3>5. first[j + 1] = log[p]
      BY <3>1 DEF a
    <3> QED
      BY <3>2, <3>4, <3>5
  <2>3. CASE p >= t + a
    <3> DEFINE j == p - (t + a)
    <3>1. j \in 0 .. b - 1 /\ p = t + a + j /\ j + 1 \in 1 .. b /\ t + a + (j + 1) - 1 = p
      BY <1>1, <2>0, <2>00, <2>3
    <3> HIDE DEF j
    <3>2. Place(p) = j /\ j \in 0 .. c - 1 /\ j < b
      BY <1>1, <1>2, <3>1
    <3>3. next[j] = second[j + 1]
      BY <1>3, <3>2
    <3>4. second[j + 1] = log[p]
      BY <3>1 DEF a, b
    <3> QED
      BY <3>2, <3>3, <3>4
  <2> QED
    BY <1>1, <2>0, <2>00, <2>1, <2>2, <2>3
<1> QED
  BY <1>4, <1>5 DEF next, o, a, b, c, TwoWrites

\* Both pieces are read.
TwoReads(data, h, first, second) == Piece(data, Place(h), first) \o Piece(data, 0, second)

LEMMA RingRead ==
  ASSUME NEW data, NEW log, NEW h \in Nat, NEW t \in Nat, Stored(data, h, t, log),
         NEW first, NEW second, TwoPieces(h, first, second),
         h + first + second <= t, t <= h + NET_RINGBUF_CAPACITY
  PROVE  /\ Follow(TwoReads(data, h, first, second), h, log)
         /\ Len(TwoReads(data, h, first, second)) = first + second
<1> USE DEF Stored, Follow
<1> DEFINE c == NET_RINGBUF_CAPACITY
           o == Place(h)
           front == Piece(data, o, first)
           back == Piece(data, 0, second)
           bytes == front \o back
<1>1. /\ c \in Nat \ {0} /\ o \in 0 .. c - 1 /\ first \in Nat /\ second \in Nat
      /\ first <= c - o /\ (second = 0 \/ first = c - o) /\ first + second <= c
  BY Capacity, PlaceInArray DEF TwoPieces
<1>2. /\ \A j \in 0 .. first - 1 : Place(h + j) = o + j
      /\ \A j \in 0 .. second - 1 : Place(h + first + j) = j
  <2>1. first + second <= NET_RINGBUF_CAPACITY
    BY <1>1
  <2> QED
    BY <2>1, Places
<1> HIDE DEF o, c
<1>3. /\ front \in Seq(Bytes) /\ Len(front) = first
      /\ \A i \in 1 .. first : front[i] = data[o + i - 1]
  <2>1. \A i \in 1 .. first : o + i - 1 \in 0 .. c - 1
    BY <1>1
  <2>2. front \in [1 .. first -> Bytes]
    BY <2>1 DEF Piece, c
  <2>3. front = [i \in 1 .. first |-> data[o + i - 1]]
    BY DEF Piece
  <2> HIDE DEF front
  <2> QED
    BY <1>1, <2>2, <2>3
<1>4. /\ back \in Seq(Bytes) /\ Len(back) = second
      /\ \A i \in 1 .. second : back[i] = data[0 + i - 1]
  <2>1. \A i \in 1 .. second : 0 + i - 1 \in 0 .. c - 1
    BY <1>1
  <2>2. back \in [1 .. second -> Bytes]
    BY <2>1 DEF Piece, c
  <2>3. back = [i \in 1 .. second |-> data[0 + i - 1]]
    BY DEF Piece
  <2> HIDE DEF back
  <2> QED
    BY <1>1, <2>2, <2>3
<1> HIDE DEF front, back
<1>5. bytes \in Seq(Bytes) /\ Len(bytes) = first + second
      /\ \A i \in 1 .. first + second : bytes[i] = IF i <= first THEN front[i] ELSE back[i - first]
  <2>1. bytes \in Seq(Bytes) /\ Len(bytes) = first + second
    BY <1>3, <1>4, ConcatProperties
  <2>2. \A i \in 1 .. Len(front) + Len(back) :
          bytes[i] = IF i <= Len(front) THEN front[i] ELSE back[i - Len(front)]
    BY <1>3, <1>4, ConcatProperties
  <2> QED
    BY <1>3, <1>4, <2>1, <2>2
<1> HIDE DEF bytes
<1>6. ASSUME NEW i \in 1 .. first + second
      PROVE  bytes[i] = log[h + i - 1]
  <2>0. h + (i - 1) \in h .. t - 1 /\ h + (i - 1) = h + i - 1
    BY <1>1
  <2>1. data[Place(h + (i - 1))] = log[h + i - 1]
    BY <2>0
  <2>2. CASE i <= first
    <3> DEFINE j == i - 1
    <3>1. j \in 0 .. first - 1 /\ i \in 1 .. first /\ o + i - 1 = o + j
      BY <1>1, <2>2
    <3>2. Place(h + j) = o + j
      BY <1>2, <3>1
    <3>3. bytes[i] = data[o + i - 1]
      BY <1>3, <1>5, <2>2, <3>1
    <3> QED
      BY <2>1, <3>1, <3>2, <3>3
  <2>3. CASE i > first
    <3> DEFINE k == i - first
               j == k - 1
    <3>1. k \in 1 .. second /\ j \in 0 .. second - 1 /\ h + first + j = h + (i - 1)
          /\ 0 + k - 1 = j
      BY <1>1, <2>3
    <3>2. Place(h + first + j) = j
      BY <1>2, <3>1
    <3>3. bytes[i] = back[k]
      <4>1. ~ (i <= first)
        BY <1>1, <2>3
      <4> QED
        BY <1>5, <4>1
    <3>4. back[k] = data[0 + k - 1]
      BY <1>4, <3>1
    <3> QED
      BY <2>1, <3>1, <3>2, <3>3, <3>4
  <2> QED
    BY <1>1, <2>2, <2>3
<1> QED
  BY <1>5, <1>6 DEF bytes, front, back, o, TwoReads

LEMMA Pieces ==
  ASSUME NEW S, NEW s \in Seq(S), NEW a \in 0 .. Len(s), NEW b \in a .. Len(s)
  PROVE  /\ SubSeq(s, 1, a) \in Seq(S) /\ Len(SubSeq(s, 1, a)) = a
         /\ \A i \in 1 .. a : SubSeq(s, 1, a)[i] = s[i]
         /\ SubSeq(s, a + 1, b) \in Seq(S) /\ Len(SubSeq(s, a + 1, b)) = b - a
         /\ \A i \in 1 .. b - a : SubSeq(s, a + 1, b)[i] = s[a + i]
<1>1. Len(s) \in Nat /\ \A i \in 1 .. Len(s) : s[i] \in S
  BY ElementOfSeq, LenProperties
<1> DEFINE l == Len(s)
<1> HIDE DEF l
<1>2. /\ a \in Nat /\ b \in Nat /\ l \in Nat /\ a <= b /\ b <= l
      /\ \A i \in 1 .. a : i \in 1 .. l /\ 1 + i - 1 = i
      /\ \A i \in a + 1 .. b : i \in 1 .. l
      /\ a - 1 + 1 = a /\ b - (a + 1) + 1 = b - a
      /\ \A i \in 1 .. b - a : a + 1 + i - 1 = a + i
  BY <1>1 DEF l
<1>3. /\ SubSeq(s, 1, a) \in Seq(S) /\ Len(SubSeq(s, 1, a)) = IF 1 <= a THEN a - 1 + 1 ELSE 0
      /\ \A i \in 1 .. a - 1 + 1 : SubSeq(s, 1, a)[i] = s[1 + i - 1]
  <2>1. \A i \in 1 .. a : s[i] \in S
    BY <1>1, <1>2 DEF l
  <2> QED
    BY <1>2, <2>1, SubSeqProperties
<1>4. /\ SubSeq(s, a + 1, b) \in Seq(S)
      /\ Len(SubSeq(s, a + 1, b)) = IF a + 1 <= b THEN b - (a + 1) + 1 ELSE 0
      /\ \A i \in 1 .. b - (a + 1) + 1 : SubSeq(s, a + 1, b)[i] = s[a + 1 + i - 1]
  <2>1. \A i \in a + 1 .. b : s[i] \in S
    BY <1>1, <1>2 DEF l
  <2> QED
    BY <1>2, <2>1, SubSeqProperties
<1> QED
  BY <1>2, <1>3, <1>4

\* A ring in use.
RingOK(rb) ==
  /\ rb \in Ring
  /\ rb.head <= rb.tail /\ rb.tail <= rb.head + NET_RINGBUF_CAPACITY

LEMMA RingFields ==
  ASSUME NEW rb, RingOK(rb)
  PROVE  /\ rb.data \in [0..NET_RINGBUF_CAPACITY - 1 -> Bytes]
         /\ rb.head \in Nat /\ rb.tail \in Nat
         /\ rb.head <= rb.tail /\ rb.tail <= rb.head + NET_RINGBUF_CAPACITY
         /\ \A d \in [0..NET_RINGBUF_CAPACITY - 1 -> Bytes], h \in Nat, t \in Nat :
              /\ [rb EXCEPT !.data = d, !.tail = t] \in Ring
              /\ [rb EXCEPT !.data = d, !.tail = t].data = d
              /\ [rb EXCEPT !.data = d, !.tail = t].head = rb.head
              /\ [rb EXCEPT !.data = d, !.tail = t].tail = t
              /\ [rb EXCEPT !.head = h] \in Ring
              /\ [rb EXCEPT !.head = h].data = rb.data
              /\ [rb EXCEPT !.head = h].head = h
              /\ [rb EXCEPT !.head = h].tail = rb.tail
BY DEF RingOK, Ring

\* The first b of the bytes are written behind position t, a of them before the
\* end of the array.
LEMMA Written ==
  ASSUME NEW data, NEW log, NEW h \in Nat, NEW t \in Nat, h <= t, Stored(data, h, t, log),
         NEW bytes, NEW a \in Nat, NEW b \in Nat, a <= b, b <= Len(bytes),
         Follow(bytes, t, log),
         a <= NET_RINGBUF_CAPACITY - Place(t), a = b \/ a = NET_RINGBUF_CAPACITY - Place(t),
         t + b <= h + NET_RINGBUF_CAPACITY
  PROVE  Stored(TwoWrites(data, t, SubSeq(bytes, 1, a), SubSeq(bytes, a + 1, b)), h, t + b, log)
<1> DEFINE first == SubSeq(bytes, 1, a)
           second == SubSeq(bytes, a + 1, b)
<1>1. a \in 0 .. Len(bytes) /\ b \in a .. Len(bytes) /\ Len(bytes) \in Nat /\ bytes \in Seq(Bytes)
      /\ \A i \in 1 .. b : bytes[i] = log[t + i - 1]
  <2>1. bytes \in Seq(Bytes) /\ \A i \in 1 .. Len(bytes) : bytes[i] = log[t + i - 1]
    BY DEF Follow
  <2> QED
    BY <2>1, LenProperties
<1>2. /\ first \in Seq(Bytes) /\ Len(first) = a /\ \A i \in 1 .. a : first[i] = bytes[i]
      /\ second \in Seq(Bytes) /\ Len(second) = b - a
      /\ \A i \in 1 .. b - a : second[i] = bytes[a + i]
  BY <1>1, Pieces
<1> HIDE DEF first, second
<1>3. /\ TwoPieces(t, a, b - a) /\ t + a + (b - a) <= h + NET_RINGBUF_CAPACITY
      /\ t + a + (b - a) = t + b
  <2>1. b - a \in Nat /\ (b - a = 0 <=> a = b)
    OBVIOUS
  <2> QED
    BY <2>1 DEF TwoPieces
<1>4. Follow(first, t, log)
  <2>1. \A i \in 1 .. a : i \in 1 .. b
    OBVIOUS
  <2> QED
    BY <1>1, <1>2, <2>1 DEF Follow
<1>5. Follow(second, t + a, log)
  <2>1. ASSUME NEW i \in 1 .. b - a
        PROVE  second[i] = log[t + a + i - 1]
    <3>1. a + i \in 1 .. b /\ t + (a + i) - 1 = t + a + i - 1
      OBVIOUS
    <3>2. bytes[a + i] = log[t + (a + i) - 1]
      BY <1>1, <3>1
    <3> QED
      BY <1>2, <3>1, <3>2
  <2> QED
    BY <1>2, <2>1 DEF Follow
<1>6. Stored(TwoWrites(data, t, first, second), h, t + Len(first) + Len(second), log)
  BY <1>2, <1>3, <1>4, <1>5, RingFilled
<1>7. t + Len(first) + Len(second) = t + b
  BY <1>2, <1>3
<1> QED
  BY <1>6, <1>7 DEF first, second

\* Writing puts the next bytes of the log behind those the ring holds.
LEMMA RingWriteHolds ==
  ASSUME NEW rb, RingOK(rb), NEW log, Holds(rb, log),
         NEW bytes, Follow(bytes, rb.tail, log), Len(bytes) <= WriteSpace(rb)
  PROVE  /\ RingOK(RingWrite(rb, bytes)) /\ Holds(RingWrite(rb, bytes), log)
         /\ RingWrite(rb, bytes).head = rb.head
         /\ RingWrite(rb, bytes).tail = rb.tail + Len(bytes)
<1> DEFINE c == NET_RINGBUF_CAPACITY
           h == rb.head
           t == rb.tail
           len == Smaller(Len(bytes), WriteSpace(rb))
           a == Smaller(c - TailOff(rb), len)
           next == TwoWrites(rb.data, t, SubSeq(bytes, 1, a), SubSeq(bytes, a + 1, len))
<1>1. /\ h \in Nat /\ t \in Nat
      /\ h <= t /\ t <= h + c /\ c \in Nat \ {0} /\ Place(t) \in 0 .. c - 1
      /\ Len(bytes) \in Nat
  BY RingFields, Capacity, PlaceInArray, LenProperties DEF Follow
<1>2. len = Len(bytes) /\ t + len <= h + c
  BY <1>1 DEF Smaller, WriteSpace
<1>3. TailOff(rb) = Place(t)
  BY DEF TailOff, Place
<1> HIDE DEF len
<1>4. a \in Nat /\ a <= len /\ a <= c - Place(t) /\ (a = len \/ a = c - Place(t))
  BY <1>1, <1>2, <1>3 DEF Smaller
<1> HIDE DEF a, next
<1>5. Stored(next, h, t + len, log)
  BY <1>1, <1>2, <1>4, Written DEF next, Holds
<1>6. RingWrite(rb, bytes) = [rb EXCEPT !.data = next, !.tail = t + len]
  <2>1. RingWrite(rb, bytes)
          = [rb EXCEPT !.data = Copied(Copied(rb.data, TailOff(rb), SubSeq(bytes, 1, a)),
                                       0, SubSeq(bytes, a + 1, len)), !.tail = t + len]
    BY Zenon DEF RingWrite, len, a
  <2> QED
    BY <1>3, <2>1 DEF next, TwoWrites
<1>7. /\ RingWrite(rb, bytes) \in Ring /\ RingWrite(rb, bytes).data = next
      /\ RingWrite(rb, bytes).head = h /\ RingWrite(rb, bytes).tail = t + len
  <2>1. t + len \in Nat /\ rb \in Ring /\ next \in [0 .. c - 1 -> Bytes]
    BY <1>1, <1>2, <1>5 DEF RingOK, Stored
  <2> HIDE DEF h, t
  <2> QED
    BY <1>6, <2>1 DEF Ring, h
<1> QED
  BY <1>1, <1>2, <1>5, <1>7 DEF RingOK, Holds

\* What is read is what comes first.
LEMMA RingPeekFollows ==
  ASSUME NEW rb, RingOK(rb), NEW log, Holds(rb, log), NEW max \in Nat
  PROVE  /\ Follow(RingPeek(rb, max), rb.head, log)
         /\ Len(RingPeek(rb, max)) = Smaller(max, ReadAvail(rb))
<1> DEFINE c == NET_RINGBUF_CAPACITY
           h == rb.head
           t == rb.tail
           len == Smaller(max, ReadAvail(rb))
           a == Smaller(c - HeadOff(rb), len)
<1>1. /\ h \in Nat /\ t \in Nat
      /\ h <= t /\ t <= h + c /\ c \in Nat \ {0} /\ Place(h) \in 0 .. c - 1
  BY RingFields, Capacity, PlaceInArray
<1>2. len \in Nat /\ h + len <= t
  BY <1>1 DEF Smaller, ReadAvail
<1>3. HeadOff(rb) = Place(h)
  BY DEF HeadOff, Place
<1> HIDE DEF len
<1>4. a \in Nat /\ a <= len /\ a <= c - Place(h) /\ (a = len \/ a = c - Place(h))
  BY <1>1, <1>2, <1>3 DEF Smaller
<1> HIDE DEF a
<1>5. TwoPieces(h, a, len - a) /\ h + a + (len - a) <= t /\ a + (len - a) = len
  <2>1. len - a \in Nat /\ (len - a = 0 <=> a = len)
    BY <1>2, <1>4
  <2> QED
    BY <1>1, <1>2, <1>4, <2>1 DEF TwoPieces
<1>6. RingPeek(rb, max) = TwoReads(rb.data, h, a, len - a)
  <2>1. RingPeek(rb, max) = Piece(rb.data, HeadOff(rb), a) \o Piece(rb.data, 0, len - a)
    BY DEF RingPeek, len, a
  <2> QED
    BY <1>3, <2>1 DEF TwoReads
<1>7. Follow(TwoReads(rb.data, h, a, len - a), h, log) /\ Len(TwoReads(rb.data, h, a, len - a)) = a + (len - a)
  <2>1. Stored(rb.data, h, t, log) /\ a \in Nat /\ len - a \in Nat
    BY <1>2, <1>4 DEF Holds
  <2> DEFINE d == rb.data
             b == len - a
  <2> HIDE DEF h, t, d, b
  <2>2. /\ Stored(d, h, t, log) /\ TwoPieces(h, a, b) /\ h + a + b <= t
        /\ t <= h + NET_RINGBUF_CAPACITY /\ h \in Nat /\ t \in Nat
    BY <1>1, <1>5, <2>1 DEF d, b
  <2>3. Follow(TwoReads(d, h, a, b), h, log) /\ Len(TwoReads(d, h, a, b)) = a + b
    BY <2>2, RingRead
  <2> QED
    BY <2>3 DEF d, b
<1> QED
  BY <1>5, <1>6, <1>7 DEF len

LEMMA FollowJoined ==
  ASSUME NEW log, NEW t \in Nat, NEW u, NEW v, Follow(u, t, log), Follow(v, t + Len(u), log)
  PROVE  Follow(u \o v, t, log) /\ Len(u \o v) = Len(u) + Len(v)
<1>1. /\ u \in Seq(Bytes) /\ v \in Seq(Bytes) /\ Len(u) \in Nat /\ Len(v) \in Nat
      /\ \A i \in 1 .. Len(u) : u[i] = log[t + i - 1]
      /\ \A i \in 1 .. Len(v) : v[i] = log[t + Len(u) + i - 1]
  BY LenProperties DEF Follow
<1>2. /\ u \o v \in Seq(Bytes) /\ Len(u \o v) = Len(u) + Len(v)
      /\ \A i \in 1 .. Len(u) + Len(v) : (u \o v)[i] = IF i <= Len(u) THEN u[i] ELSE v[i - Len(u)]
  BY <1>1, ConcatProperties
<1>3. ASSUME NEW i \in 1 .. Len(u) + Len(v)
      PROVE  (u \o v)[i] = log[t + i - 1]
  <2>1. CASE i <= Len(u)
    <3>1. i \in 1 .. Len(u)
      BY <2>1
    <3> QED
      BY <1>1, <1>2, <2>1, <3>1
  <2>2. CASE ~ (i <= Len(u))
    <3>1. i - Len(u) \in 1 .. Len(v) /\ t + Len(u) + (i - Len(u)) - 1 = t + i - 1
      BY <1>1, <2>2
    <3>2. v[i - Len(u)] = log[t + Len(u) + (i - Len(u)) - 1]
      BY <1>1, <3>1
    <3> QED
      BY <1>2, <2>2, <3>1, <3>2
  <2> QED
    BY <2>1, <2>2
<1> QED
  BY <1>2, <1>3 DEF Follow

LEMMA FollowRest ==
  ASSUME NEW log, NEW t \in Nat, NEW u, Follow(u, t, log), NEW a \in Nat, a <= Len(u)
  PROVE  /\ Follow(SubSeq(u, a + 1, Len(u)), t + a, log)
         /\ Len(SubSeq(u, a + 1, Len(u))) = Len(u) - a
<1>1. /\ u \in Seq(Bytes) /\ Len(u) \in Nat /\ a \in 0 .. Len(u) /\ Len(u) \in a .. Len(u)
      /\ \A i \in 1 .. Len(u) : u[i] = log[t + i - 1]
  <2>1. u \in Seq(Bytes) /\ Len(u) \in Nat
    BY LenProperties DEF Follow
  <2> QED
    BY <2>1 DEF Follow
<1> DEFINE rest == SubSeq(u, a + 1, Len(u))
<1>2. /\ rest \in Seq(Bytes) /\ Len(rest) = Len(u) - a
      /\ \A i \in 1 .. Len(u) - a : rest[i] = u[a + i]
  BY <1>1, Pieces
<1> HIDE DEF rest
<1>3. ASSUME NEW i \in 1 .. Len(u) - a
      PROVE  rest[i] = log[t + a + i - 1]
  <2>1. a + i \in 1 .. Len(u) /\ t + (a + i) - 1 = t + a + i - 1
    BY <1>1
  <2> QED
    BY <1>1, <1>2, <2>1
<1> QED
  BY <1>2, <1>3 DEF Follow, rest

\* Only the part of the log that is kept matters.
LEMMA Agree ==
  ASSUME NEW log, NEW next, NEW total \in Nat,
         \A p \in Nat : p < total => next[p] = log[p]
  PROVE  /\ \A data : \A h \in Nat, t \in Nat :
              Stored(data, h, t, log) /\ t <= total => Stored(data, h, t, next)
         /\ \A bytes : \A t \in Nat :
              Follow(bytes, t, log) /\ t + Len(bytes) <= total => Follow(bytes, t, next)
<1>1. ASSUME NEW data, NEW h \in Nat, NEW t \in Nat, Stored(data, h, t, log), t <= total
      PROVE  Stored(data, h, t, next)
  <2>1. \A p \in h .. t - 1 : next[p] = log[p]
    BY <1>1
  <2> QED
    BY <1>1, <2>1 DEF Stored
<1>2. ASSUME NEW bytes, NEW t \in Nat, Follow(bytes, t, log), t + Len(bytes) <= total
      PROVE  Follow(bytes, t, next)
  <2>1. Len(bytes) \in Nat
    BY <1>2, LenProperties DEF Follow
  <2>2. \A i \in 1 .. Len(bytes) : next[t + i - 1] = log[t + i - 1]
    <3>1. \A i \in 1 .. Len(bytes) : t + i - 1 \in Nat /\ t + i - 1 < total
      BY <1>2, <2>1
    <3> QED
      BY <3>1
  <2> QED
    BY <1>2, <2>2 DEF Follow
<1> QED
  BY <1>1, <1>2

-----------------------------------------------------------------------------
(* The invariant: one log of bytes, and where each of its pieces is.        *)

\* off[n] is where the frame of the n-th accepted message starts.
LogOf(log, off) ==
  /\ log \in [Nat -> Bytes] /\ off \in [Nat -> Nat] /\ off[1] = 0
  /\ \A n \in 1 .. Len(sent) :
       /\ off[n + 1] = off[n] + FrameBytes(sent[n])
       /\ off[n + 1] <= off[Len(sent) + 1]
       /\ \A i \in 1 .. FrameBytes(sent[n]) : log[off[n] + i - 1] = <<n, i>>

\* While the sender's end is up its ring holds the end of the log.
Sending(log, off) ==
  sendState # "DISCONNECTED" => sendBuf.tail = off[Len(sent) + 1] /\ Holds(sendBuf, log)

\* While the receiver's end is up its ring starts at the first frame that was
\* not taken out, the stream goes on where the ring ends, and the sender's
\* ring where the stream ends.
Receiving(log, off) ==
  recvState = "CONNECTED" =>
    /\ recvBuf.head = off[consumed + 1]
    /\ Holds(recvBuf, log)
    /\ Follow(stream, recvBuf.tail, log)
    /\ recvBuf.tail + Len(stream) <= off[Len(sent) + 1]
    /\ sendState # "DISCONNECTED" => sendBuf.head = recvBuf.tail + Len(stream)

Shape ==
  /\ sent \in Seq(Messages) /\ stream \in Seq(Bytes) /\ consumed \in 0 .. Len(sent)
  /\ RingOK(sendBuf) /\ RingOK(recvBuf)
  /\ sendState \in {"CONNECTED", "CLOSING", "DISCONNECTED"}
  /\ recvState # "CONNECTED" => recvBuf.head = recvBuf.tail

LinkInv == Shape /\ \E log, off : LogOf(log, off) /\ Sending(log, off) /\ Receiving(log, off)

\* What a step shows: the invariant is kept and a queue sees at most one step.
Kept == LinkInv' /\ [Chan!Next]_(Chan!vars)

LEMMA FrameFacts ==
  ASSUME NEW m \in Messages, NEW n
  PROVE  /\ FrameBytes(m) \in Nat /\ FrameBytes(m) >= FRAME_HEADER_SIZE
         /\ FrameBytes(m) >= 1 /\ FrameBytes(m) <= FRAME_HEADER_SIZE + MAX_MSG_SIZE
         /\ Len(Frame(n, m)) = FrameBytes(m)
         /\ \A i \in 1 .. FrameBytes(m) : Frame(n, m)[i] = <<n, i>>
         /\ n \in Nat => Frame(n, m) \in Seq(Bytes)
<1>1. Length[m] \in 0 .. MAX_MSG_SIZE
  BY RingHoldsAFrame
<1>2. /\ FrameBytes(m) \in Nat /\ FrameBytes(m) >= FRAME_HEADER_SIZE
      /\ FrameBytes(m) >= 1 /\ FrameBytes(m) <= FRAME_HEADER_SIZE + MAX_MSG_SIZE
  BY <1>1, RingHoldsAFrame DEF FrameBytes
<1>3. /\ Len(Frame(n, m)) = FrameBytes(m)
      /\ \A i \in 1 .. FrameBytes(m) : Frame(n, m)[i] = <<n, i>>
      /\ n \in Nat => Frame(n, m) \in Seq(Bytes)
  <2> DEFINE l == FrameBytes(m)
  <2> HIDE DEF l
  <2>1. l \in Nat /\ Frame(n, m) = [i \in 1 .. l |-> <<n, i>>]
    BY <1>2 DEF Frame, l
  <2>2. Len([i \in 1 .. l |-> <<n, i>>]) = l
    BY <2>1
  <2>3. \A i \in 1 .. l : [j \in 1 .. l |-> <<n, j>>][i] = <<n, i>>
    OBVIOUS
  <2>4. n \in Nat => [i \in 1 .. l |-> <<n, i>>] \in Seq(Bytes)
    <3>1. n \in Nat => \A i \in 1 .. l : <<n, i>> \in Bytes
      BY <2>1 DEF Bytes
    <3>2. n \in Nat => [i \in 1 .. l |-> <<n, i>>] \in [1 .. l -> Bytes]
      BY <3>1
    <3> QED
      BY <2>1, <3>2
  <2> QED
    BY <2>1, <2>2, <2>3, <2>4 DEF l
<1> QED
  BY <1>2, <1>3

LEMMA RingReset ==
  ASSUME NEW rb, RingOK(rb)
  PROVE  RingOK(Reset(rb)) /\ Reset(rb).head = Reset(rb).tail
<1>1. rb \in Ring /\ NET_RINGBUF_CAPACITY \in Nat
  BY Capacity DEF RingOK
<1>2. /\ [rb EXCEPT !.head = 0, !.tail = 0] \in Ring
      /\ [rb EXCEPT !.head = 0, !.tail = 0].head = 0
      /\ [rb EXCEPT !.head = 0, !.tail = 0].tail = 0
  BY <1>1 DEF Ring
<1> QED
  BY <1>1, <1>2 DEF Reset, RingOK

LEMMA LinkInit == Init => LinkInv /\ Chan!Init
<1> SUFFICES ASSUME Init
             PROVE  LinkInv /\ Chan!Init
  OBVIOUS
<1>1. RingOK(EmptyRing) /\ EmptyRing.head = 0 /\ EmptyRing.tail = 0
  BY Capacity DEF EmptyRing, RingOK, Ring, Blank, Bytes
<1>2. << >> \in Seq(Messages) /\ << >> \in Seq(Bytes) /\ Len(<< >>) = 0
  BY EmptySeq
<1>3. Shape
  BY <1>1, <1>2 DEF Init, Shape
<1> DEFINE log == [p \in Nat |-> Blank]
           off == [n \in Nat |-> 0]
<1>4. log \in [Nat -> Bytes] /\ off \in [Nat -> Nat] /\ off[1] = 0
  BY DEF Blank, Bytes
<1> HIDE DEF log, off
<1>5. LogOf(log, off)
  BY <1>2, <1>4 DEF LogOf, Init
<1>6. Holds(EmptyRing, log) /\ Follow(<< >>, 0, log)
  BY <1>1, <1>2 DEF Holds, Stored, Follow, RingOK, Ring
<1>7. Sending(log, off) /\ Receiving(log, off)
  BY <1>1, <1>2, <1>4, <1>6 DEF Sending, Receiving, Init
<1>8. SubSeq(sent, consumed + 1, Len(sent)) = << >>
  BY <1>2, SubSeqEmpty DEF Init
<1> QED
  BY <1>3, <1>5, <1>7, <1>8 DEF LinkInv, Chan!Init, Init

LEMMA SendMsgKeeps == ASSUME LinkInv, NEW m \in Messages, SendMsg(m) PROVE Kept
<1> PICK log, off : LogOf(log, off) /\ Sending(log, off) /\ Receiving(log, off)
  BY DEF LinkInv
<1>0. Shape /\ Len(sent) \in Nat /\ off[Len(sent) + 1] \in Nat
  BY LenProperties DEF LinkInv, Shape, LogOf
<1> PICK l \in Nat : l = Len(sent)
  BY <1>0
<1> PICK T \in Nat : T = off[l + 1]
  BY <1>0
<1> DEFINE f == Frame(l + 1, m)
<1>1. Shape /\ l \in Nat /\ T \in Nat /\ consumed \in 0 .. l /\ l = Len(sent) /\ T = off[l + 1]
  BY <1>0 DEF Shape
<1>2. CASE WriteSpace(sendBuf) < FrameBytes(m)
  <2>1. UNCHANGED vars
    BY <1>2 DEF SendMsg, vars
  <2> QED
    BY <2>1 DEF vars, Kept, LinkInv, Shape, LogOf, Sending, Receiving, Chan!vars
<1>3. CASE ~ (WriteSpace(sendBuf) < FrameBytes(m))
  <2>1. /\ sent' = Append(sent, m) /\ sendBuf' = RingWrite(sendBuf, f)
        /\ sendState # "DISCONNECTED" /\ f = Frame(Len(sent) + 1, m)
        /\ UNCHANGED <<sendState, stream, finished, recvState, recvBuf, draining, consumed,
                       delivered, broken>>
    BY <1>1, <1>3 DEF SendMsg
  <2>2. /\ sent' \in Seq(Messages) /\ Len(sent') = l + 1 /\ sent'[l + 1] = m
        /\ \A n \in 1 .. l : sent'[n] = sent[n]
    BY <1>1, <2>1, AppendProperties DEF Shape
  <2>0. FrameBytes(m) \in Nat
    BY FrameFacts
  <2> PICK b \in Nat : b = FrameBytes(m)
    BY <2>0
  <2>3. /\ b = FrameBytes(m) /\ FrameBytes(m) \in Nat /\ Len(f) = FrameBytes(m) /\ f \in Seq(Bytes)
        /\ \A i \in 1 .. FrameBytes(m) : f[i] = <<l + 1, i>>
    BY <1>1, FrameFacts
  <2> DEFINE next == [p \in Nat |-> IF p >= T THEN <<l + 1, p - T + 1>> ELSE log[p]]
             noff == [off EXCEPT ![l + 2] = T + b]
  <2> HIDE DEF f
  <2>4. next \in [Nat -> Bytes]
    <3>1. \A p \in Nat : log[p] \in Bytes
      BY DEF LogOf
    <3>2. \A p \in Nat : p >= T => <<l + 1, p - T + 1>> \in Bytes
      BY <1>1 DEF Bytes
    <3> QED
      BY <3>1, <3>2
  <2>5. /\ \A p \in Nat : p < T => next[p] = log[p]
        /\ \A i \in 1 .. b : next[T + i - 1] = <<l + 1, i>>
    <3>1. ASSUME NEW p \in Nat, p < T PROVE next[p] = log[p]
      BY <1>1, <3>1
    <3>2. ASSUME NEW i \in 1 .. b PROVE next[T + i - 1] = <<l + 1, i>>
      <4>1. T + i - 1 \in Nat /\ T + i - 1 >= T /\ (T + i - 1) - T + 1 = i
        BY <1>1, <2>3
      <4> HIDE DEF next
      <4>2. next[T + i - 1] = <<l + 1, (T + i - 1) - T + 1>>
        BY <4>1 DEF next
      <4> QED
        BY <4>1, <4>2
    <3> QED
      BY <3>1, <3>2
  <2>6. /\ noff \in [Nat -> Nat] /\ noff[l + 2] = T + b
        /\ \A n \in 1 .. l + 1 : noff[n] = off[n]
    <3>1. off \in [Nat -> Nat]
      BY DEF LogOf
    <3>2. T + b \in Nat /\ l + 2 \in Nat /\ \A n \in 1 .. l + 1 : n \in Nat /\ n # l + 2
      BY <1>1, <2>3
    <3> QED
      BY ONLY <3>1, <3>2
  <2> HIDE DEF next, noff
  <2>61. /\ \A n \in 1 .. l : noff[n] = off[n] /\ noff[n + 1] = off[n + 1]
         /\ noff[consumed + 1] = off[consumed + 1] /\ noff[l + 1] = T
         /\ noff[(l + 1) + 1] = T + b /\ T + b \in Nat /\ T <= T + b
    <3>1. \A n \in 1 .. l : n \in 1 .. l + 1 /\ n + 1 \in 1 .. l + 1
      BY <1>1
    <3>2. consumed + 1 \in 1 .. l + 1 /\ l + 1 \in 1 .. l + 1 /\ (l + 1) + 1 = l + 2
      BY <1>1
    <3>3. T + b \in Nat /\ T <= T + b
      BY <1>1, <2>3
    <3> QED
      <4>1. \A n \in 1 .. l : noff[n] = off[n] /\ noff[n + 1] = off[n + 1]
        BY ONLY <2>6, <3>1
      <4>2. noff[consumed + 1] = off[consumed + 1]
        BY ONLY <2>6, <3>2
      <4>3. noff[l + 1] = T
        BY ONLY <1>1, <2>6, <3>2
      <4>4. noff[(l + 1) + 1] = T + b
        BY ONLY <2>6, <3>2
      <4> QED
        BY ONLY <3>3, <4>1, <4>2, <4>3, <4>4, Zenon
  <2>7. LogOf(next, noff)'
    <3>1. \A n \in 1 .. l : /\ off[n] \in Nat /\ off[n + 1] = off[n] + FrameBytes(sent[n])
                            /\ off[n + 1] <= T /\ FrameBytes(sent[n]) \in Nat
                            /\ \A i \in 1 .. FrameBytes(sent[n]) : log[off[n] + i - 1] = <<n, i>>
      <4>1. sent \in Seq(Messages)
        BY <1>1 DEF Shape
      <4>2. \A n \in 1 .. l : sent[n] \in Messages
        BY <1>1, <4>1, ElementOfSeq
      <4>3. \A n \in 1 .. l : FrameBytes(sent[n]) \in Nat
        BY <4>2, FrameFacts
      <4>4. \A n \in 1 .. l : off[n] \in Nat
        BY DEF LogOf
      <4> QED
        BY <1>1, <4>3, <4>4 DEF LogOf
    <3>2. ASSUME NEW n \in 1 .. l
          PROVE  /\ noff[n + 1] = noff[n] + FrameBytes(sent'[n])
                 /\ noff[n + 1] <= noff[l + 2]
                 /\ \A i \in 1 .. FrameBytes(sent'[n]) : next[noff[n] + i - 1] = <<n, i>>
      <4>1. /\ noff[n] = off[n] /\ noff[n + 1] = off[n + 1] /\ sent'[n] = sent[n]
        BY <2>2, <2>61
      <4>11. off[n + 1] <= T + b
        <5> DEFINE o == off[n + 1]
        <5>1. o <= T /\ o \in Nat /\ T \in Nat /\ T <= T + b /\ T + b \in Nat
          BY <1>1, <2>61, <3>1
        <5> HIDE DEF o
        <5>3. o <= T + b
          BY <5>1
        <5> QED
          BY <5>3 DEF o
      <4>2. \A i \in 1 .. FrameBytes(sent[n]) : off[n] + i - 1 \in Nat /\ off[n] + i - 1 < T
        <5> DEFINE o == off[n]
                   w == FrameBytes(sent[n])
        <5>1. o \in Nat /\ w \in Nat /\ o + w <= T
          BY <3>1
        <5> HIDE DEF o, w
        <5>2. \A i \in 1 .. w : o + i - 1 \in Nat /\ o + i - 1 < T
          BY <1>1, <5>1
        <5> QED
          BY <5>2 DEF o, w
      <4>3. \A i \in 1 .. FrameBytes(sent[n]) : next[off[n] + i - 1] = <<n, i>>
        BY <2>5, <3>1, <4>2
      <4> QED
        BY <2>6, <3>1, <4>1, <4>11, <4>3
    <3>3. /\ noff[(l + 1) + 1] = noff[l + 1] + FrameBytes(sent'[l + 1])
          /\ \A i \in 1 .. FrameBytes(sent'[l + 1]) : next[noff[l + 1] + i - 1] = <<l + 1, i>>
          /\ noff[(l + 1) + 1] <= noff[l + 2]
      <4>1. (l + 1) + 1 = l + 2
        BY <1>1
      <4>2. \A i \in 1 .. b : next[T + i - 1] = <<l + 1, i>>
        BY <2>5
      <4>3. noff[l + 2] = T + b /\ T + b <= T + b
        <5>1. T + b \in Nat
          BY <2>61
        <5>2. T + b <= T + b
          BY ONLY <5>1
        <5> QED
          BY <2>6, <5>2
      <4> QED
        BY <2>2, <2>61, <4>1, <4>2, <4>3
    <3>4. noff[1] = 0
      BY <1>1, <2>6 DEF LogOf
    <3>5. ASSUME NEW n \in 1 .. l + 1
          PROVE  /\ noff[n + 1] = noff[n] + FrameBytes(sent'[n])
                 /\ noff[n + 1] <= noff[(l + 1) + 1]
                 /\ \A i \in 1 .. FrameBytes(sent'[n]) : next[noff[n] + i - 1] = <<n, i>>
      <4>1. n \in 1 .. l \/ n = l + 1
        BY <1>1
      <4>2. (l + 1) + 1 = l + 2
        BY <1>1
      <4>3. CASE n \in 1 .. l
        BY <3>2, <4>2, <4>3
      <4>4. CASE n = l + 1
        BY <3>3, <4>2, <4>4
      <4> QED
        BY <4>1, <4>3, <4>4
    <3> QED
      BY <2>2, <2>4, <2>6, <3>4, <3>5 DEF LogOf
  <2>8. \A data : \A h \in Nat, t \in Nat : Stored(data, h, t, log) /\ t <= T => Stored(data, h, t, next)
    BY <1>1, <2>5, Agree
  <2>9. \A bytes : \A t \in Nat : Follow(bytes, t, log) /\ t + Len(bytes) <= T => Follow(bytes, t, next)
    BY <1>1, <2>5, Agree
  <2>10. /\ RingOK(sendBuf') /\ Sending(next, noff)' /\ sendBuf'.head = sendBuf.head
    <3>1. /\ RingOK(sendBuf) /\ sendBuf.tail = T /\ Holds(sendBuf, log)
          /\ sendBuf.head \in Nat /\ sendBuf.tail \in Nat
      BY <1>1, <2>1, RingFields DEF Shape, Sending
    <3>2. Holds(sendBuf, next)
      <4>1. T <= T
        BY <1>1
      <4>2. Stored(sendBuf.data, sendBuf.head, sendBuf.tail, log) /\ sendBuf.tail <= T
        BY <3>1, <4>1 DEF Holds
      <4> QED
        BY <2>8, <3>1, <4>2 DEF Holds
    <3>3. Follow(f, sendBuf.tail, next)
      BY <2>3, <2>5, <3>1 DEF Follow
    <3>4. Len(f) <= WriteSpace(sendBuf)
      BY <1>3, <2>3, <3>1, Capacity DEF WriteSpace
    <3>5. /\ RingOK(sendBuf') /\ Holds(sendBuf', next)
          /\ sendBuf'.head = sendBuf.head /\ sendBuf'.tail = T + b
      BY <2>1, <2>3, <3>1, <3>2, <3>3, <3>4, RingWriteHolds
    <3>6. noff[Len(sent') + 1] = T + b
      BY <2>2, <2>61
    <3>7. Sending(next, noff)'
      BY <3>5, <3>6 DEF Sending, Holds
    <3> QED
      BY <3>5, <3>7
  <2>11. Receiving(next, noff)'
    <3> SUFFICES ASSUME recvState = "CONNECTED"
                 PROVE  /\ recvBuf.head = noff[consumed + 1]
                        /\ Holds(recvBuf, next)
                        /\ Follow(stream, recvBuf.tail, next)
                        /\ recvBuf.tail + Len(stream) <= noff[Len(sent') + 1]
                        /\ sendState # "DISCONNECTED" => sendBuf'.head = recvBuf.tail + Len(stream)
      <4>1. Receiving(next, noff)' <=>
              (recvState' = "CONNECTED" =>
                /\ recvBuf'.head = noff[consumed' + 1]
                /\ Holds(recvBuf', next)
                /\ Follow(stream', recvBuf'.tail, next)
                /\ recvBuf'.tail + Len(stream') <= noff[Len(sent') + 1]
                /\ sendState' # "DISCONNECTED" => sendBuf'.head = recvBuf'.tail + Len(stream'))
        BY DEF Receiving, Holds, Follow, Stored
      <4> QED
        BY <2>1, <4>1
    <3>1. /\ recvBuf.head = off[consumed + 1] /\ Holds(recvBuf, log)
          /\ Follow(stream, recvBuf.tail, log) /\ recvBuf.tail + Len(stream) <= T
          /\ sendState # "DISCONNECTED" => sendBuf.head = recvBuf.tail + Len(stream)
      BY DEF Receiving
    <3>2. recvBuf.head \in Nat /\ recvBuf.tail \in Nat /\ Len(stream) \in Nat
      BY <1>1, RingFields, LenProperties DEF Shape
    <3>3. noff[consumed + 1] = off[consumed + 1] /\ noff[Len(sent') + 1] = T + b
      BY <2>2, <2>61
    <3>4. Holds(recvBuf, next)
      <4>1. recvBuf.tail <= T
        BY <1>1, <3>1, <3>2
      <4>2. Stored(recvBuf.data, recvBuf.head, recvBuf.tail, log)
        BY <3>1 DEF Holds
      <4> QED
        BY <2>8, <3>2, <4>1, <4>2 DEF Holds
    <3>5. Follow(stream, recvBuf.tail, next)
      BY <2>9, <3>1, <3>2
    <3>6. recvBuf.tail + Len(stream) <= T + b
      <4> DEFINE e == recvBuf.tail + Len(stream)
      <4>1. e <= T /\ e \in Nat
        BY <3>1, <3>2
      <4>2. b \in Nat /\ T \in Nat
        BY <1>1, <2>3
      <4> HIDE DEF e
      <4>3. e <= T + b
        BY <4>1, <4>2
      <4> QED
        BY <4>3 DEF e
    <3> QED
      BY <2>10, <3>1, <3>3, <3>4, <3>5, <3>6
  <2>12. Shape'
    BY <1>1, <2>1, <2>2, <2>10 DEF Shape
  <2>13. LinkInv'
    BY <2>7, <2>10, <2>11, <2>12 DEF LinkInv
  <2>14. SubSeq(sent', consumed + 1, l + 1) = Append(SubSeq(sent, consumed + 1, l), m)
    <3> DEFINE old == SubSeq(sent, consumed + 1, l)
               new == SubSeq(sent', consumed + 1, l + 1)
    <3>1. /\ old \in Seq(Messages) /\ Len(old) = l - consumed
          /\ \A i \in 1 .. l - consumed : old[i] = sent[consumed + i]
      <4>1. sent \in Seq(Messages) /\ consumed \in 0 .. Len(sent) /\ Len(sent) \in consumed .. Len(sent)
        BY <1>1 DEF Shape
      <4> QED
        BY <4>1, Pieces
    <3>2. /\ new \in Seq(Messages) /\ Len(new) = l + 1 - consumed
          /\ \A i \in 1 .. l + 1 - consumed : new[i] = sent'[consumed + i]
      <4>1. /\ sent' \in Seq(Messages) /\ consumed \in 0 .. Len(sent')
            /\ l + 1 \in consumed .. Len(sent')
        BY <1>1, <2>2
      <4> QED
        BY <4>1, Pieces
    <3> HIDE DEF old, new
    <3>3. /\ Append(old, m) \in Seq(Messages) /\ Len(Append(old, m)) = l + 1 - consumed
          /\ \A i \in 1 .. l - consumed : Append(old, m)[i] = old[i]
          /\ Append(old, m)[l - consumed + 1] = m
      <4>1. /\ Append(old, m) \in Seq(Messages) /\ Len(Append(old, m)) = Len(old) + 1
            /\ \A i \in 1 .. Len(old) : Append(old, m)[i] = old[i]
            /\ Append(old, m)[Len(old) + 1] = m
        BY <3>1, AppendProperties
      <4>2. l - consumed + 1 = l + 1 - consumed
        BY <1>1
      <4> QED
        BY <3>1, <4>1, <4>2
    <3>4. ASSUME NEW i \in 1 .. Len(new)
          PROVE  new[i] = Append(old, m)[i]
      <4>1. new[i] = sent'[consumed + i]
        BY <3>2
      <4>2. CASE i <= l - consumed
        <5>1. i \in 1 .. l - consumed /\ consumed + i \in 1 .. l
          BY <1>1, <3>2, <4>2
        <5> QED
          BY <2>2, <3>1, <3>3, <4>1, <5>1
      <4>3. CASE ~ (i <= l - consumed)
        <5>1. i \in 1 .. l + 1 - consumed
          BY <3>2
        <5>2. i = l - consumed + 1 /\ consumed + i = l + 1
          BY <1>1, <4>3, <5>1
        <5> QED
          BY <2>2, <3>3, <4>1, <5>2
      <4> QED
        BY <4>2, <4>3
    <3> QED
      BY <3>2, <3>3, <3>4, SeqEqual DEF old, new
  <2>15. Chan!Put(m)
    BY <2>1, <2>2, <2>14 DEF Chan!Put
  <2> QED
    BY <2>13, <2>15 DEF Kept, Chan!Next
<1> QED
  BY <1>2, <1>3

LEMMA SenderEnds ==
  ASSUME LinkInv, sendState' = "DISCONNECTED", sendBuf' = Reset(sendBuf),
         UNCHANGED <<sent, stream, recvState, recvBuf, consumed, delivered>>
  PROVE  Kept
<1> PICK log, off : LogOf(log, off) /\ Sending(log, off) /\ Receiving(log, off)
  BY DEF LinkInv
<1>1. Shape'
  <2>1. RingOK(sendBuf')
    BY RingReset DEF LinkInv, Shape
  <2> QED
    BY <2>1 DEF LinkInv, Shape, RingOK
<1>2. LogOf(log, off)' /\ Sending(log, off)'
  BY DEF LogOf, Sending
<1>3. Receiving(log, off)'
  BY DEF Receiving, Holds, Follow, Stored
<1>4. UNCHANGED Chan!vars
  BY DEF Chan!vars
<1> QED
  BY <1>1, <1>2, <1>3, <1>4 DEF Kept, LinkInv

LEMMA CloseKeeps == ASSUME LinkInv, Close PROVE Kept
<1>1. CASE ReadAvail(sendBuf) > 0
  <2> PICK log, off : LogOf(log, off) /\ Sending(log, off) /\ Receiving(log, off)
    BY DEF LinkInv
  <2>1. /\ sendState = "CONNECTED" /\ sendState' = "CLOSING"
        /\ UNCHANGED <<sent, sendBuf, stream, recvState, recvBuf, consumed, delivered>>
    BY <1>1 DEF Close
  <2>2. Shape' /\ LogOf(log, off)'
    BY <2>1 DEF LinkInv, Shape, LogOf, RingOK
  <2>3. Sending(log, off)' /\ Receiving(log, off)'
    BY <2>1 DEF Sending, Receiving, Holds, Follow, Stored
  <2>4. UNCHANGED Chan!vars
    BY <2>1 DEF Chan!vars
  <2> QED
    BY <2>2, <2>3, <2>4 DEF Kept, LinkInv
<1>2. CASE ~ (ReadAvail(sendBuf) > 0)
  BY <1>2, SenderEnds DEF Close
<1> QED
  BY <1>1, <1>2

LEMMA SenderErrorKeeps == ASSUME LinkInv, SenderError PROVE Kept
BY SenderEnds DEF SenderError

\* Losing the connection is what the queue may do at any time.
LEMMA ReceiverEnds ==
  ASSUME LinkInv, RecvClosed, UNCHANGED <<sent, stream, sendState, sendBuf, consumed, delivered>>
  PROVE  Kept
<1> PICK log, off : LogOf(log, off) /\ Sending(log, off) /\ Receiving(log, off)
  BY DEF LinkInv
<1>1. Shape'
  <2>1. RingOK(recvBuf') /\ recvBuf'.head = recvBuf'.tail
    BY RingReset DEF LinkInv, Shape, RecvClosed
  <2> QED
    BY <2>1 DEF LinkInv, Shape, RingOK
<1>2. LogOf(log, off)' /\ Sending(log, off)' /\ Receiving(log, off)'
  BY DEF LogOf, Sending, Receiving, RecvClosed, Holds, Stored
<1>3. Chan!Lose
  BY DEF Chan!Lose, RecvClosed
<1> QED
  BY <1>1, <1>2, <1>3 DEF Kept, LinkInv, Chan!Next

LEMMA ReceiverErrorKeeps == ASSUME LinkInv, ReceiverError PROVE Kept
BY ReceiverEnds DEF ReceiverError

LEMMA SenderUpdateKeeps == ASSUME LinkInv, SenderUpdate PROVE Kept
<1> PICK log, off : LogOf(log, off) /\ Sending(log, off) /\ Receiving(log, off)
  BY DEF LinkInv
<1> DEFINE h == sendBuf.head
           t == sendBuf.tail
<1>1. /\ Shape /\ RingOK(sendBuf) /\ h \in Nat /\ t \in Nat /\ h <= t
      /\ t <= h + NET_RINGBUF_CAPACITY /\ NET_RINGBUF_CAPACITY \in Nat
      /\ Place(h) \in 0 .. NET_RINGBUF_CAPACITY - 1
  BY RingFields, PlaceInArray, Capacity DEF LinkInv, Shape
<1>2. t = off[Len(sent) + 1] /\ Stored(sendBuf.data, h, t, log)
  BY DEF Sending, SenderUpdate, Holds
<1>3. HeadOff(sendBuf) = Place(h) /\ ReadAvail(sendBuf) = t - h
  BY DEF HeadOff, Place, ReadAvail
<1> DEFINE seg1 == Smaller(NET_RINGBUF_CAPACITY - Place(h), t - h)
<1> PICK n \in 1 .. StreamRoom, k \in 0 .. StreamRoom :
         /\ n <= seg1
         /\ k <= (IF n = seg1 THEN (t - h) - n ELSE 0)
         /\ stream' = stream \o Piece(sendBuf.data, Place(h), n) \o Piece(sendBuf.data, 0, k)
         /\ LET after == [sendBuf EXCEPT !.head = @ + n + k]
                drained == sendState = "CLOSING" /\ ReadAvail(after) = 0
            IN /\ sendBuf' = IF drained THEN Reset(after) ELSE after
               /\ sendState' = IF drained THEN "DISCONNECTED" ELSE sendState
  BY <1>3 DEF SenderUpdate
<1> DEFINE after == [sendBuf EXCEPT !.head = @ + n + k]
           out == TwoReads(sendBuf.data, h, n, k)
<1>4. /\ n \in Nat /\ k \in Nat /\ TwoPieces(h, n, k) /\ h + n + k <= t /\ h + n + k \in Nat
  <2>1. StreamRoom \in Nat
    BY RingHoldsAFrame
  <2>2. n \in Nat /\ k \in Nat
    BY <2>1
  <2>3. seg1 \in Int /\ seg1 <= t - h /\ seg1 <= NET_RINGBUF_CAPACITY - Place(h)
        /\ (seg1 = t - h \/ seg1 = NET_RINGBUF_CAPACITY - Place(h))
    BY <1>1 DEF Smaller
  <2> HIDE DEF seg1
  <2>4. n <= seg1 /\ k <= (IF n = seg1 THEN (t - h) - n ELSE 0)
    OBVIOUS
  <2> HIDE DEF h, t
  <2>5. n <= NET_RINGBUF_CAPACITY - Place(h) /\ h + n + k <= t
        /\ (k = 0 \/ n = NET_RINGBUF_CAPACITY - Place(h)) /\ h + n + k \in Nat
    <3>1. /\ n \in Nat /\ k \in Nat /\ h \in Nat /\ t \in Nat /\ h <= t
          /\ NET_RINGBUF_CAPACITY \in Nat /\ Place(h) \in Nat
      BY ONLY <1>1, <2>2
    <3>2. CASE n = seg1
      BY ONLY <3>1, <3>2, <2>3, <2>4
    <3>3. CASE n # seg1
      <4>1. k = 0
        BY ONLY <3>1, <3>3, <2>4
      <4> QED
        BY ONLY <3>1, <4>1, <2>3, <2>4
    <3> QED
      BY <3>2, <3>3
  <2> QED
    BY ONLY <2>2, <2>5 DEF TwoPieces
<1>5. Follow(out, h, log) /\ Len(out) = n + k
  <2>1. h + n + k <= t /\ TwoPieces(h, n, k) /\ h \in Nat /\ t \in Nat
        /\ t <= h + NET_RINGBUF_CAPACITY /\ Stored(sendBuf.data, h, t, log)
    BY ONLY <1>1, <1>2, <1>4
  <2> HIDE DEF h, t
  <2> QED
    BY SMTT(60), <1>4, <2>1, RingRead
<1>6. stream' = stream \o out
  <2>1. /\ stream \in Seq(Bytes)
        /\ Piece(sendBuf.data, Place(h), n) \in Seq(Bytes) /\ Piece(sendBuf.data, 0, k) \in Seq(Bytes)
    <3>1. \A i \in 1 .. n : Place(h) + i - 1 \in 0 .. NET_RINGBUF_CAPACITY - 1
      <4>1. /\ n \in Nat /\ Place(h) \in 0 .. NET_RINGBUF_CAPACITY - 1
            /\ n <= NET_RINGBUF_CAPACITY - Place(h) /\ NET_RINGBUF_CAPACITY \in Nat
        BY ONLY <1>1, <1>4 DEF TwoPieces
      <4> HIDE DEF h
      <4> QED
        BY ONLY <4>1
    <3>2. \A i \in 1 .. k : 0 + i - 1 \in 0 .. NET_RINGBUF_CAPACITY - 1
      <4> HIDE DEF h, t
      <4>1. k <= NET_RINGBUF_CAPACITY
        BY ONLY <1>1, <1>4
      <4>2. k \in Nat /\ NET_RINGBUF_CAPACITY \in Nat
        BY ONLY <1>1, <1>4
      <4> QED
        BY ONLY <4>1, <4>2
    <3>3. sendBuf.data \in [0 .. NET_RINGBUF_CAPACITY - 1 -> Bytes]
      BY <1>2 DEF Stored
    <3>4. Piece(sendBuf.data, Place(h), n) \in [1 .. n -> Bytes]
      BY <3>1, <3>3 DEF Piece
    <3>5. Piece(sendBuf.data, 0, k) \in [1 .. k -> Bytes]
      BY <3>2, <3>3 DEF Piece
    <3> QED
      <4>1. \A j \in Nat : \A p \in [1 .. j -> Bytes] : p \in Seq(Bytes)
        OBVIOUS
      <4>2. Piece(sendBuf.data, Place(h), n) \in Seq(Bytes) /\ Piece(sendBuf.data, 0, k) \in Seq(Bytes)
        BY ONLY <1>4, <3>4, <3>5, <4>1
      <4> QED
        BY <1>1, <4>2 DEF Shape
  <2>2. stream' = (stream \o Piece(sendBuf.data, Place(h), n)) \o Piece(sendBuf.data, 0, k)
    BY Zenon
  <2>3. out = Piece(sendBuf.data, Place(h), n) \o Piece(sendBuf.data, 0, k)
    BY DEF TwoReads
  <2> HIDE DEF out
  <2> QED
    BY ONLY <2>1, <2>2, <2>3, ConcatAssociative
<1>7. RingOK(after) /\ after.data = sendBuf.data /\ after.head = h + n + k /\ after.tail = t
  <2>1. sendBuf \in Ring
    BY <1>1 DEF RingOK
  <2>2. after \in Ring /\ after.data = sendBuf.data /\ after.head = h + n + k /\ after.tail = t
    BY <1>4, <2>1 DEF Ring
  <2> HIDE DEF after, h, t
  <2> QED
    BY <1>1, <1>4, <2>2 DEF RingOK
<1>8. /\ sendState \in {"CONNECTED", "CLOSING"}
      /\ UNCHANGED <<sent, recvState, recvBuf, draining, consumed, delivered, broken>>
  BY DEF SenderUpdate
<1>9. Shape' /\ LogOf(log, off)'
  <2>1. RingOK(sendBuf')
    BY <1>7, RingReset
  <2>2. stream' \in Seq(Bytes)
    BY <1>1, <1>5, <1>6, ConcatProperties DEF Shape, Follow
  <2>3. sendState' \in {"CONNECTED", "CLOSING", "DISCONNECTED"}
    BY <1>8
  <2> QED
    BY <1>1, <1>8, <2>1, <2>2, <2>3 DEF Shape, LogOf, RingOK
<1>10. Sending(log, off)' /\ (sendState' # "DISCONNECTED" => sendBuf'.head = h + n + k)
  <2> SUFFICES ASSUME sendState' # "DISCONNECTED"
               PROVE  /\ sendBuf'.tail = off[Len(sent) + 1] /\ Holds(sendBuf', log)
                      /\ sendBuf'.head = h + n + k
    BY <1>8 DEF Sending, Holds, Stored
  <2>1. sendBuf' = after
    OBVIOUS
  <2>2. Stored(sendBuf.data, h + n + k, t, log)
    <3>1. \A p \in h + n + k .. t - 1 : p \in h .. t - 1
      BY <1>1, <1>4
    <3> QED
      BY <1>2, <3>1 DEF Stored
  <2> QED
    BY <1>2, <1>7, <2>1, <2>2 DEF Holds
<1>11. Receiving(log, off)'
  <2> SUFFICES ASSUME recvState = "CONNECTED"
               PROVE  /\ recvBuf.head = off[consumed + 1] /\ Holds(recvBuf, log)
                      /\ Follow(stream', recvBuf.tail, log)
                      /\ recvBuf.tail + Len(stream') <= off[Len(sent) + 1]
                      /\ sendState' # "DISCONNECTED" => sendBuf'.head = recvBuf.tail + Len(stream')
    BY <1>8 DEF Receiving, Holds, Follow, Stored
  <2>1. /\ recvBuf.head = off[consumed + 1] /\ Holds(recvBuf, log)
        /\ Follow(stream, recvBuf.tail, log) /\ h = recvBuf.tail + Len(stream)
    BY <1>8 DEF Receiving
  <2>2. recvBuf.tail \in Nat /\ Len(stream) \in Nat
    BY <1>1, RingFields, LenProperties DEF Shape
  <2>3. Follow(stream', recvBuf.tail, log) /\ Len(stream') = Len(stream) + (n + k)
    <3>1. Follow(out, recvBuf.tail + Len(stream), log) /\ Len(out) = n + k
      BY <1>5, <2>1
    <3> HIDE DEF out
    <3>2. Follow(stream \o out, recvBuf.tail, log) /\ Len(stream \o out) = Len(stream) + Len(out)
      <4> DEFINE u == stream
                 p == recvBuf.tail
      <4>1. Follow(u, p, log) /\ Follow(out, p + Len(u), log) /\ p \in Nat
        BY <2>1, <2>2, <3>1
      <4> HIDE DEF u, p
      <4>2. Follow(u \o out, p, log) /\ Len(u \o out) = Len(u) + Len(out)
        BY ONLY <4>1, FollowJoined
      <4> QED
        BY <4>2 DEF u, p
    <3> QED
      BY <1>6, <3>1, <3>2
  <2>4. recvBuf.tail + Len(stream') = h + n + k
    BY <1>4, <2>1, <2>2, <2>3
  <2> QED
    BY <1>2, <1>4, <1>10, <2>1, <2>3, <2>4
<1>12. UNCHANGED Chan!vars
  BY <1>8 DEF Chan!vars
<1> QED
  BY <1>9, <1>10, <1>11, <1>12 DEF Kept, LinkInv

LEMMA RecvUpdateKeeps == ASSUME LinkInv, RecvUpdate PROVE Kept
<1> PICK log, off : LogOf(log, off) /\ Sending(log, off) /\ Receiving(log, off)
  BY DEF LinkInv
<1>1. CASE RecvClosed
  BY <1>1, ReceiverEnds DEF RecvUpdate, RecvClosed
<1>2. CASE UNCHANGED <<stream, recvBuf, recvState>>
  <2>1. UNCHANGED <<sent, sendState, sendBuf, consumed, delivered>>
    BY DEF RecvUpdate
  <2>2. Shape' /\ LogOf(log, off)'
    BY <1>2, <2>1 DEF LinkInv, Shape, LogOf, RingOK
  <2>3. Sending(log, off)' /\ Receiving(log, off)'
    BY <1>2, <2>1 DEF Sending, Receiving, Holds, Follow, Stored
  <2>4. UNCHANGED Chan!vars
    BY <1>2, <2>1 DEF Chan!vars
  <2> QED
    BY <2>2, <2>3, <2>4 DEF Kept, LinkInv
<1>3. ASSUME NEW n \in 1 .. StreamRoom, NEW k \in 0 .. StreamRoom,
             Reads(n, k), stream' = SubSeq(stream, n + k + 1, Len(stream)),
             recvBuf' = Filled(n, k), recvState' = recvState
      PROVE  Kept
  <2> DEFINE h == recvBuf.head
             t == recvBuf.tail
             space == NET_RINGBUF_CAPACITY - (t - h)
             seg1 == Smaller(NET_RINGBUF_CAPACITY - Place(t), space)
             data == TwoWrites(recvBuf.data, t, SubSeq(stream, 1, n), SubSeq(stream, n + 1, n + k))
  <2>1. /\ Shape /\ RingOK(recvBuf) /\ h \in Nat /\ t \in Nat /\ h <= t
        /\ t <= h + NET_RINGBUF_CAPACITY /\ NET_RINGBUF_CAPACITY \in Nat
        /\ Place(t) \in 0 .. NET_RINGBUF_CAPACITY - 1 /\ Len(stream) \in Nat
    BY RingFields, PlaceInArray, Capacity, LenProperties DEF LinkInv, Shape
  <2>2. /\ recvState = "CONNECTED" /\ UNCHANGED <<sent, sendState, sendBuf, consumed, delivered>>
    BY DEF RecvUpdate
  <2>3. /\ h = off[consumed + 1] /\ Stored(recvBuf.data, h, t, log)
        /\ Follow(stream, t, log) /\ t + Len(stream) <= off[Len(sent) + 1]
        /\ sendState # "DISCONNECTED" => sendBuf.head = t + Len(stream)
    BY <2>2 DEF Receiving, Holds
  <2>4. TailOff(recvBuf) = Place(t) /\ WriteSpace(recvBuf) = space
    BY DEF TailOff, Place, WriteSpace
  <2>5. /\ n \in Nat /\ k \in Nat /\ n <= seg1 /\ n <= Len(stream)
        /\ k <= (IF n = seg1 THEN Smaller(space - n, Len(stream) - n) ELSE 0)
    <3>1. StreamRoom \in Nat
      BY RingHoldsAFrame
    <3>2. n \in Nat /\ k \in Nat
      BY <3>1
    <3>3. /\ n \in 1 .. Smaller(seg1, Len(stream))
          /\ k \in 0 .. (IF n = seg1 THEN Smaller(space - n, Len(stream) - n) ELSE 0)
      BY <1>3, <2>4 DEF Reads
    <3>4. seg1 \in Int /\ space \in Int
      BY <2>1 DEF Smaller
    <3> HIDE DEF seg1, space
    <3>5. Smaller(seg1, Len(stream)) \in Int /\ Smaller(seg1, Len(stream)) <= seg1
          /\ Smaller(seg1, Len(stream)) <= Len(stream)
      BY <2>1, <3>4 DEF Smaller
    <3>6. (IF n = seg1 THEN Smaller(space - n, Len(stream) - n) ELSE 0) \in Int
      BY <2>1, <3>2, <3>4 DEF Smaller
    <3>7. n <= Smaller(seg1, Len(stream))
          /\ k <= (IF n = seg1 THEN Smaller(space - n, Len(stream) - n) ELSE 0)
      BY ONLY <3>2, <3>3, <3>5, <3>6
    <3> QED
      BY ONLY <3>2, <3>4, <3>5, <3>7
  <2>6. /\ n + k \in Nat /\ n <= n + k /\ n + k <= Len(stream)
        /\ n <= NET_RINGBUF_CAPACITY - Place(t)
        /\ n = n + k \/ n = NET_RINGBUF_CAPACITY - Place(t)
        /\ t + (n + k) <= h + NET_RINGBUF_CAPACITY /\ t + (n + k) \in Nat /\ h <= t + (n + k)
    <3>1. seg1 \in Int /\ seg1 <= space /\ seg1 <= NET_RINGBUF_CAPACITY - Place(t)
          /\ (seg1 = space \/ seg1 = NET_RINGBUF_CAPACITY - Place(t)) /\ space \in Int
          /\ t + space = h + NET_RINGBUF_CAPACITY
      <4>1. h \in Nat /\ t \in Nat /\ NET_RINGBUF_CAPACITY \in Nat /\ Place(t) \in Nat
        BY <2>1
      <4> HIDE DEF h, t
      <4>2. space \in Int /\ t + space = h + NET_RINGBUF_CAPACITY
        BY <4>1
      <4> HIDE DEF space
      <4> QED
        BY ONLY <4>1, <4>2 DEF Smaller, seg1
    <3> HIDE DEF seg1, space, h, t
    <3>2. CASE n = seg1
      <4>1. k <= space - n /\ k <= Len(stream) - n
        BY <2>1, <2>5, <3>1, <3>2 DEF Smaller
      <4> QED
        BY ONLY <2>1, <2>5, <3>1, <3>2, <4>1
    <3>3. CASE n # seg1
      <4>1. k = 0
        BY <2>5, <3>3
      <4> QED
        BY ONLY <2>1, <2>5, <3>1, <4>1
    <3> QED
      BY <3>2, <3>3
  <2>7. Stored(data, h, t + (n + k), log)
    <3> HIDE DEF h, t
    <3> QED
      BY <2>1, <2>3, <2>5, <2>6, Written
  <2>8. /\ recvBuf' \in Ring /\ recvBuf'.data = data /\ recvBuf'.head = h
        /\ recvBuf'.tail = t + (n + k)
    <3>1. recvBuf' = [recvBuf EXCEPT
                        !.data = Copied(Copied(recvBuf.data, TailOff(recvBuf), SubSeq(stream, 1, n)),
                                        0, SubSeq(stream, n + 1, n + k)),
                        !.tail = recvBuf.tail + n + k]
      BY <1>3, Zenon DEF Filled
    <3>2. recvBuf' = [recvBuf EXCEPT !.data = data, !.tail = t + n + k]
      BY <2>4, <3>1 DEF TwoWrites
    <3>3. t + n + k = t + (n + k) /\ t + (n + k) \in Nat /\ recvBuf \in Ring
      BY <2>1, <2>5 DEF RingOK
    <3>4. data \in [0 .. NET_RINGBUF_CAPACITY - 1 -> Bytes]
      BY <2>7 DEF Stored
    <3> HIDE DEF data, t
    <3> QED
      BY <3>2, <3>3, <3>4 DEF Ring
  <2>9. RingOK(recvBuf') /\ Holds(recvBuf', log)
    <3> HIDE DEF data, h, t
    <3> QED
      BY <2>6, <2>7, <2>8 DEF RingOK, Holds
  <2>10. Follow(stream', t + (n + k), log) /\ Len(stream') = Len(stream) - (n + k)
    <3> DEFINE a == n + k
               u == stream
    <3>1. Follow(u, t, log) /\ a \in Nat /\ a <= Len(u) /\ t \in Nat
      BY <2>1, <2>3, <2>6
    <3> HIDE DEF t, a, u
    <3>2. /\ Follow(SubSeq(u, a + 1, Len(u)), t + a, log)
          /\ Len(SubSeq(u, a + 1, Len(u))) = Len(u) - a
      BY ONLY <3>1, FollowRest
    <3> QED
      BY <1>3, <3>2 DEF a, u
  <2>11. Shape' /\ LogOf(log, off)' /\ Sending(log, off)'
    <3>1. stream' \in Seq(Bytes)
      BY <2>10 DEF Follow
    <3>2. Shape'
      BY <1>3, <2>1, <2>2, <2>9, <3>1 DEF Shape, RingOK
    <3> QED
      BY <2>2, <3>2 DEF LogOf, Sending, Holds, Stored
  <2>12. Receiving(log, off)'
    <3>1. t + (n + k) + Len(stream') = t + Len(stream)
      BY <2>1, <2>6, <2>10
    <3>2. /\ recvBuf'.head = off[consumed + 1] /\ Holds(recvBuf', log)
          /\ Follow(stream', recvBuf'.tail, log)
          /\ recvBuf'.tail + Len(stream') <= off[Len(sent) + 1]
          /\ sendState # "DISCONNECTED" => sendBuf.head = recvBuf'.tail + Len(stream')
      BY <2>3, <2>8, <2>9, <2>10, <3>1
    <3> QED
      BY <2>2, <3>2 DEF Receiving, Holds, Follow, Stored
  <2>13. UNCHANGED Chan!vars
    BY <1>3, <2>2 DEF Chan!vars
  <2> QED
    BY <2>11, <2>12, <2>13 DEF Kept, LinkInv
<1> QED
  BY <1>1, <1>2, <1>3 DEF RecvUpdate

LEMMA RecvMsgKeeps == ASSUME LinkInv, RecvMsg PROVE Kept
<1> PICK log, off : LogOf(log, off) /\ Sending(log, off) /\ Receiving(log, off)
  BY DEF LinkInv
<1> DEFINE h == recvBuf.head
           t == recvBuf.tail
           max == FRAME_HEADER_SIZE + MAX_MSG_SIZE
           buf == RingPeek(recvBuf, max)
           n == FrameRead(buf)
           m == sent[buf[1][1]]
<1>1. /\ Shape /\ RingOK(recvBuf) /\ h \in Nat /\ t \in Nat /\ h <= t
      /\ max \in Nat /\ FRAME_HEADER_SIZE \in Nat \ {0} /\ FRAME_HEADER_SIZE <= max
      /\ Len(sent) \in Nat /\ Len(stream) \in Nat /\ consumed \in 0 .. Len(sent)
  <2>1. Shape /\ RingOK(recvBuf) /\ Len(sent) \in Nat /\ Len(stream) \in Nat /\ consumed \in 0 .. Len(sent)
    BY LenProperties DEF LinkInv, Shape
  <2>2. max \in Nat /\ FRAME_HEADER_SIZE \in Nat \ {0} /\ FRAME_HEADER_SIZE <= max
    BY RingHoldsAFrame
  <2> HIDE DEF max
  <2> QED
    BY <2>1, <2>2, RingFields
<1>2. UNCHANGED <<sent, sendState, sendBuf, stream, recvState>>
  BY DEF RecvMsg
<1>3. CASE ReadAvail(recvBuf) < FRAME_HEADER_SIZE \/ n <= 0
  <2>1. UNCHANGED <<recvBuf, consumed, delivered>>
    BY <1>3 DEF RecvMsg
  <2>2. Shape' /\ LogOf(log, off)'
    BY <1>2, <2>1 DEF LinkInv, Shape, LogOf, RingOK
  <2>3. Sending(log, off)' /\ Receiving(log, off)'
    BY <1>2, <2>1 DEF Sending, Receiving, Holds, Follow, Stored
  <2>4. UNCHANGED Chan!vars
    BY <1>2, <2>1 DEF Chan!vars
  <2> QED
    BY <2>2, <2>3, <2>4 DEF Kept, LinkInv
<1>4. CASE ~ (ReadAvail(recvBuf) < FRAME_HEADER_SIZE \/ n <= 0)
  <2>1. /\ recvBuf' = RingConsume(recvBuf, n)
        /\ consumed' = consumed + 1
        /\ delivered' = IF m \in Malformed THEN delivered
                        ELSE Append(delivered, IF Intact(buf, n) THEN m ELSE "garbled")
    BY <1>4 DEF RecvMsg
  <2>2. ReadAvail(recvBuf) = t - h /\ t - h >= FRAME_HEADER_SIZE
    BY <1>1, <1>4 DEF ReadAvail
  <2>3. recvState = "CONNECTED"
    BY <1>1, <2>2 DEF Shape
  <2>4. /\ h = off[consumed + 1] /\ Holds(recvBuf, log)
        /\ Follow(stream, t, log) /\ t + Len(stream) <= off[Len(sent) + 1]
        /\ sendState # "DISCONNECTED" => sendBuf.head = t + Len(stream)
    BY <2>3 DEF Receiving
  <2> DEFINE j == consumed + 1
             w == FrameBytes(sent[j])
  <2>5. j \in 1 .. Len(sent)
    <3>1. consumed = Len(sent) => h >= t
      BY <1>1, <2>4
    <3> QED
      BY <1>1, <2>2, <3>1
  <2>6. /\ sent[j] \in Messages /\ w \in Nat /\ w >= 1 /\ w <= max
        /\ off[j + 1] = h + w /\ off[j] = h
        /\ \A i \in 1 .. w : log[h + i - 1] = <<j, i>>
    <3>1. sent \in Seq(Messages)
      BY <1>1 DEF Shape
    <3>2. sent[j] \in Messages
      BY <2>5, <3>1, ElementOfSeq
    <3>3. off[j] = h
      BY <2>4
    <3> HIDE DEF j, h
    <3>4. off[j + 1] = off[j] + w /\ \A i \in 1 .. w : log[off[j] + i - 1] = <<j, i>>
      BY <2>5 DEF LogOf
    <3> QED
      BY <3>2, <3>3, <3>4, FrameFacts
  <2>7. /\ Len(buf) = Smaller(max, t - h) /\ Len(buf) \in Nat
        /\ Len(buf) >= FRAME_HEADER_SIZE /\ Len(buf) <= t - h
        /\ \A i \in 1 .. Len(buf) : buf[i] = log[h + i - 1]
    <3>1. Follow(buf, h, log) /\ Len(buf) = Smaller(max, t - h)
      BY <1>1, <2>2, <2>4, RingPeekFollows
    <3> HIDE DEF buf, max, h, t
    <3>2. Smaller(max, t - h) \in Nat /\ Smaller(max, t - h) >= FRAME_HEADER_SIZE
          /\ Smaller(max, t - h) <= t - h
      BY <1>1, <2>2 DEF Smaller
    <3> QED
      BY <3>1, <3>2 DEF Follow
  <2> HIDE DEF buf, w, h, t, max
  <2>8. buf[1] = <<j, 1>>
    <3>1. 1 \in 1 .. w /\ 1 \in 1 .. Len(buf)
      BY <1>1, <2>6, <2>7
    <3> QED
      BY <2>6, <2>7, <3>1
  <2>9. buf[1][1] = j /\ buf[1][2] = 1
    BY <2>8
  <2>10. n = w /\ w <= Len(buf)
    <3>1. Len(Frame(j, sent[j])) = w
      BY <2>6, FrameFacts DEF w
    <3>2. ~ (Len(buf) < FRAME_HEADER_SIZE)
      BY <1>1, <2>7
    <3>3. n = IF Len(buf) < w THEN 0 ELSE w
      BY <2>9, <3>1, <3>2 DEF FrameRead
    <3> HIDE DEF n
    <3>4. n = 0 => n <= 0
      OBVIOUS
    <3>5. n = 0 \/ (n = w /\ w <= Len(buf))
      BY ONLY <2>6, <2>7, <3>3
    <3> QED
      BY ONLY <1>4, <3>4, <3>5
  <2> HIDE DEF n
  <2>11. Intact(buf, n)
    <3> DEFINE s == SubSeq(buf, 1, w)
               f == Frame(j, sent[j])
    <3>1. buf \in Seq(Bytes) /\ w \in 0 .. Len(buf) /\ Len(buf) \in w .. Len(buf)
      <4>1. Follow(buf, h, log)
        BY <1>1, <2>4, RingPeekFollows DEF buf, h, max
      <4> QED
        BY <2>6, <2>7, <2>10, <4>1 DEF Follow
    <3>2. s \in Seq(Bytes) /\ Len(s) = w /\ \A i \in 1 .. w : s[i] = buf[i]
      BY <3>1, Pieces
    <3>3. f \in Seq(Bytes) /\ Len(f) = w /\ \A i \in 1 .. w : f[i] = <<j, i>>
      <4>1. j \in Nat /\ sent[j] \in Messages
        BY <1>1, <2>6
      <4> HIDE DEF j
      <4> QED
        BY <4>1, FrameFacts DEF w
    <3> HIDE DEF s, f
    <3>4. \A i \in 1 .. w : s[i] = f[i]
      <4>1. \A i \in 1 .. w : i \in 1 .. Len(buf)
        BY <2>6, <2>7, <2>10
      <4> QED
        BY <2>6, <2>7, <3>2, <3>3, <4>1
    <3>5. s = f
      BY <3>2, <3>3, <3>4, SeqEqual
    <3> QED
      BY <2>9, <2>10, <3>5 DEF Intact, s, f
  <2>12. /\ recvBuf' = [recvBuf EXCEPT !.head = h + w]
         /\ m = sent[j]
         /\ delivered' = IF sent[j] \in Malformed THEN delivered ELSE Append(delivered, sent[j])
    <3>1. Smaller(w, t - h) = w
      BY <1>1, <2>6, <2>7, <2>10 DEF Smaller
    <3>2. recvBuf' = [recvBuf EXCEPT !.head = h + Smaller(n, t - h)]
      BY <2>1, <2>2 DEF RingConsume, h
    <3>3. m = sent[j]
      BY <2>9
    <3> QED
      BY <2>1, <2>10, <2>11, <3>1, <3>2, <3>3
  <2>13. /\ recvBuf' \in Ring /\ recvBuf'.data = recvBuf.data
         /\ recvBuf'.head = h + w /\ recvBuf'.tail = t /\ h + w \in Nat /\ h + w <= t
         /\ recvBuf \in Ring /\ t <= h + w + NET_RINGBUF_CAPACITY
    <3>1. h + w \in Nat /\ h + w <= t
      <4> DEFINE b == Len(buf)
      <4>1. b \in Nat /\ w <= b /\ b <= t - h /\ w \in Nat /\ h \in Nat /\ t \in Nat
        BY <1>1, <2>6, <2>7, <2>10
      <4> HIDE DEF b
      <4> QED
        BY ONLY <4>1
    <3>2. recvBuf \in Ring /\ t <= h + NET_RINGBUF_CAPACITY /\ NET_RINGBUF_CAPACITY \in Nat
      BY <1>1, Capacity DEF RingOK, h, t
    <3>3. t <= h + w + NET_RINGBUF_CAPACITY
      BY <1>1, <2>6, <3>2
    <3>4. [recvBuf EXCEPT !.head = h + w] \in Ring
      BY <3>1, <3>2 DEF Ring
    <3>5. recvBuf'.data = recvBuf.data /\ recvBuf'.head = h + w /\ recvBuf'.tail = recvBuf.tail
      BY <2>12, <3>2 DEF Ring
    <3> QED
      BY <2>12, <3>1, <3>2, <3>3, <3>4, <3>5 DEF t
  <2>14. Shape' /\ LogOf(log, off)' /\ Sending(log, off)'
    <3>1. RingOK(recvBuf')
      BY <1>1, <2>13 DEF RingOK
    <3>2. consumed' \in 0 .. Len(sent)
      BY <1>1, <2>1, <2>5
    <3>3. Shape'
      BY <1>1, <1>2, <2>3, <3>1, <3>2 DEF Shape, RingOK
    <3> QED
      BY <1>2, <3>3 DEF LogOf, Sending, Holds, Stored
  <2>15. Receiving(log, off)'
    <3>1. Holds(recvBuf', log)
      <4>1. Stored(recvBuf.data, h, t, log)
        BY <2>4 DEF Holds, h, t
      <4>2. \A p \in h + w .. t - 1 : p \in h .. t - 1
        BY <1>1, <2>6
      <4>3. Stored(recvBuf.data, h + w, t, log)
        BY <4>1, <4>2 DEF Stored
      <4> QED
        BY <2>13, <4>3 DEF Holds
    <3>2. recvBuf'.head = off[consumed' + 1]
      BY <2>1, <2>6, <2>13
    <3>3. /\ Follow(stream, recvBuf'.tail, log)
          /\ recvBuf'.tail + Len(stream) <= off[Len(sent) + 1]
          /\ sendState # "DISCONNECTED" => sendBuf.head = recvBuf'.tail + Len(stream)
      BY <2>4, <2>13
    <3> QED
      BY <1>2, <3>1, <3>2, <3>3 DEF Receiving, Holds, Follow, Stored
  <2>16. Chan!Take
    <3> DEFINE queue == SubSeq(sent, j, Len(sent))
    <3>1. sent \in Seq(Messages) /\ Len(sent) \in j .. Len(sent)
      BY <1>1, <2>5 DEF Shape
    <3>2. Head(queue) = sent[j] /\ Tail(queue) = SubSeq(sent, j + 1, Len(sent))
      BY <2>5, <3>1, HeadTailOfSubSeq
    <3>3. queue # << >>
      <4>1. consumed \in 0 .. Len(sent) /\ Len(sent) \in consumed .. Len(sent)
        BY <1>1
      <4>2. Len(queue) = Len(sent) - consumed
        BY <3>1, <4>1, Pieces
      <4>3. Len(queue) # 0
        <5> DEFINE q == Len(queue)
        <5> HIDE DEF queue
        <5>1. q = Len(sent) - consumed
          BY <4>2
        <5> HIDE DEF q
        <5>2. q # 0
          BY <1>1, <2>5, <5>1
        <5> QED
          BY <5>2 DEF q
      <4> QED
        BY <4>3, EmptySeq
    <3>4. SubSeq(sent', consumed' + 1, Len(sent')) = Tail(queue)
      BY <1>2, <2>1, <3>2
    <3> QED
      BY <1>2, <2>3, <2>12, <3>2, <3>3, <3>4 DEF Chan!Take
  <2> QED
    BY <2>14, <2>15, <2>16 DEF Kept, LinkInv, Chan!Next
<1> QED
  BY <1>3, <1>4

LEMMA NextKeeps == ASSUME LinkInv, [Next]_vars PROVE Kept
<1>1. CASE UNCHANGED vars
  <2> PICK log, off : LogOf(log, off) /\ Sending(log, off) /\ Receiving(log, off)
    BY DEF LinkInv
  <2>1. Shape' /\ LogOf(log, off)'
    BY <1>1 DEF LinkInv, Shape, LogOf, RingOK, vars
  <2>2. Sending(log, off)' /\ Receiving(log, off)'
    BY <1>1 DEF Sending, Receiving, Holds, Follow, Stored, vars
  <2>3. UNCHANGED Chan!vars
    BY <1>1 DEF Chan!vars, vars
  <2> QED
    BY <2>1, <2>2, <2>3 DEF Kept, LinkInv
<1>2. CASE Next
  BY <1>2, SendMsgKeeps, CloseKeeps, SenderUpdateKeeps, RecvUpdateKeeps, RecvMsgKeeps,
     SenderErrorKeeps, ReceiverErrorKeeps DEF Next
<1> QED
  BY <1>1, <1>2

-----------------------------------------------------------------------------
(* The two rings, the stream and the framing are a queue of messages: what  *)
(* net_socket_send_msg accepted is taken out by net_socket_recv_msg whole,  *)
(* once and in its turn, or not at all, for every capacity that holds the   *)
(* largest frame, every size of the system's stream and any messages.       *)
THEOREM LinkIsAChannel == Spec => IsAChannel
<1>1. LinkInv /\ [Next]_vars => LinkInv'
  BY NextKeeps DEF Kept
<1>2. LinkInv /\ [Next]_vars => [Chan!Next]_(Chan!vars)
  BY NextKeeps DEF Kept
<1> QED
  BY <1>1, <1>2, LinkInit, PTL DEF Spec, IsAChannel, Chan!Spec

=============================================================================
