------------------------------ MODULE Exchange ------------------------------
(***************************************************************************)
(* One side sends a message, the other receives it, then the next.         *)
(***************************************************************************)
EXTENDS Codec

CONSTANT Messages      \* the messages exchanged

VARIABLES
    msg,     \* the message that was sent last
    frame,   \* its frame: the payload's cells and length, or Nothing
    got      \* what the receiver made of it, or Nothing

vars == <<msg, frame, got>>

Nothing == [st |-> "nothing"]

Init == /\ msg \in Messages
        /\ frame = Nothing
        /\ got = Nothing

Send == /\ frame = Nothing
        /\ frame' = Written(msg)
        /\ UNCHANGED <<msg, got>>

Receive == /\ frame.st = "sent"
           /\ got = Nothing
           /\ got' = ReadBack(msg, frame)
           /\ UNCHANGED <<msg, frame>>

\* The next message, when this one was dropped, discarded or read.
Another == /\ Failed \in {frame, got} \/ got # Nothing
           /\ msg' \in Messages
           /\ frame' = Nothing
           /\ got' = Nothing

Next == Send \/ Receive \/ Another
Spec == Init /\ [][Next]_vars

-----------------------------------------------------------------------------
(* A view that arrives whole is read: the length deser_player_view asks     *)
(* for before it looks at anything is, as its comment says, no more than    *)
(* the fields before the Phase 2 part take.                                 *)
WholeViewsAreRead == msg.type = "STATE_UPDATE" => got # Failed

=============================================================================
