------------------------------ MODULE Channel ------------------------------
(***************************************************************************)
(* What net/socket.c promises to the programs on its two ends: a queue of  *)
(* messages.  A message that net_socket_send_msg has accepted is taken out *)
(* of the other end whole, once and in its turn, or not at all when the    *)
(* connection ends before its turn; a message the receiver cannot decode   *)
(* is skipped.                                                             *)
(***************************************************************************)
EXTENDS Naturals, Sequences

CONSTANTS Messages, Malformed

VARIABLES
    queue,      \* accepted and not yet taken
    taken,      \* handed to the receiver's handler, in order
    open        \* FALSE once the receiver has lost the connection

vars == <<queue, taken, open>>

Init == /\ queue = << >>
        /\ taken = << >>
        /\ open = TRUE

Put(m) == /\ queue' = Append(queue, m)
          /\ UNCHANGED <<taken, open>>

Take == /\ open
        /\ queue # << >>
        /\ queue' = Tail(queue)
        /\ taken' = IF Head(queue) \in Malformed THEN taken ELSE Append(taken, Head(queue))
        /\ UNCHANGED open

Lose == /\ open' = FALSE
        /\ UNCHANGED <<queue, taken>>

Next == (\E m \in Messages: Put(m)) \/ Take \/ Lose
Spec == Init /\ [][Next]_vars

=============================================================================
