------------------------------ MODULE Packing ------------------------------
(***************************************************************************)
(* How net/protocol.c puts a message into bytes and takes it out again.    *)
(* A serializer or a deserializer is a sequence of steps over a buffer and *)
(* an offset:                                                              *)
(*                                                                         *)
(*   Need(n)    if (off + n > len) return -1;                              *)
(*   Refuse(c)  if (c) return -1;                                          *)
(*   F(f, w)    write_x(buf, &off, m->f) or m->f = read_x(buf, &off), of   *)
(*              w bytes                                                    *)
(*                                                                         *)
(* A field is named by a tuple: <<"seat">>, <<"hand", 3>>.  The bytes of a *)
(* message are abstracted to the cells the writer leaves behind, each one  *)
(* field's w bytes; a reader that starts a field where no cell starts, or  *)
(* reads another number of bytes than the cell holds, gets Garbage from    *)
(* there on.  The terminating zero the readers force on the last byte of a *)
(* text is left out: the writers terminate every text they send.           *)
(***************************************************************************)
EXTENDS Integers, SequencesExt

Garbage == <<"garbage">>

Need(n)   == << [op |-> "need", n |-> n] >>
Refuse(c) == IF c THEN << [op |-> "refuse"] >> ELSE << >>
F(f, w)   == << [op |-> "field", f |-> <<f>>, w |-> w] >>

\* for (int i = 0; i < n; i++) write_x(buf, &off, m->f[i]);
Arr(f, n, w) == [i \in 1..n |-> [op |-> "field", f |-> <<f, i>>, w |-> w]]

\* The steps of the part of a message that is called s.
At(s, steps) == [k \in DOMAIN steps |->
    IF steps[k].op = "field" THEN [steps[k] EXCEPT !.f = s \o @] ELSE steps[k]]

\* for (int i = 0; i < n; i++) of an array of structures called f.
Each(f, n, steps) == FlattenSeq([i \in 1..n |-> At(<<f, i>>, steps)])

\* A card takes two bytes, as write_card and read_card.
Card == F("suit", 1) \o F("rank", 1)
Cards(f, n) == Each(f, n, Card)

Text(f)  == F(f, 32)               \* NET_MAX_NAME_LEN
Token(f) == F(f, 32)               \* NET_AUTH_TOKEN_LEN
Code(f)  == F(f, 8)                \* NET_ROOM_CODE_LEN

FieldsOf(steps) == SelectSeq(steps, LAMBDA s: s.op = "field")

(***************************************************************************)
(* Running the steps.  off is the offset, sure the number of bytes the     *)
(* checks so far have established, ok is FALSE once the function returns   *)
(* -1, and unsure holds the fields with a byte no check has covered.       *)
(***************************************************************************)
Start == [off |-> 0, sure |-> 0, ok |-> TRUE, unsure |-> {}, cells |-> << >>]

Step(r, s, room) ==
    CASE ~ r.ok -> r
      [] s.op = "need" ->
           IF r.off + s.n > room THEN [r EXCEPT !.ok = FALSE]
           ELSE [r EXCEPT !.sure = IF r.off + s.n > @ THEN r.off + s.n ELSE @]
      [] s.op = "refuse" -> [r EXCEPT !.ok = FALSE]
      [] OTHER -> [r EXCEPT !.off = @ + s.w, 
                            !.unsure = IF r.off + s.w > r.sure THEN @ \cup {s.f} ELSE @,
                            !.cells = Append(@, [f |-> s.f, w |-> s.w])]

\* The steps lo..hi, from r on; by halves, which keeps the recursion flat.
RECURSIVE RunFrom(_, _, _, _, _)
RunFrom(r, steps, lo, hi, room) ==
    CASE lo > hi -> r
      [] lo = hi -> Step(r, steps[lo], room)
      [] OTHER -> LET mid == (lo + hi) \div 2
                      half == RunFrom(r, steps, lo, mid, room)
                  IN IF half.ok THEN RunFrom(half, steps, mid + 1, hi, room) ELSE half

Run(steps, room) == RunFrom(Start, steps, 1, Len(steps), room)

\* What a reader whose steps are steps makes of a payload of written cells.
Got(steps, cells) ==
    LET r == FieldsOf(steps)
        bad == {k \in DOMAIN r: k > Len(cells) \/ cells[k].w # r[k].w}
    IN [k \in DOMAIN r |-> IF \A j \in bad: k < j THEN <<r[k].f, cells[k].f>> ELSE <<r[k].f, Garbage>>]

=============================================================================
