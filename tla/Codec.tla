------------------------------- MODULE Codec -------------------------------
(***************************************************************************)
(* What happens to one message between the caller of net_socket_send_msg   *)
(* and the caller of net_socket_recv_msg: it is serialized into a frame,   *)
(* the frame arrives whole (Link models how), and it is deserialized.      *)
(* Nothing here depends on any state: the module defines and judges pure   *)
(* functions of a message.                                                 *)
(***************************************************************************)
EXTENDS Protocol

SendBuffer == NET_FRAME_HEADER_SIZE + NET_MAX_MSG_SIZE
Failed == [st |-> "failed"]

\* net_socket_send_msg: serialize, or drop the message when it does not fit.
Written(m) ==
    LET r == Run(Serialize(m), SendBuffer - NET_FRAME_HEADER_SIZE)
    IN IF r.ok THEN [st |-> "sent", cells |-> r.cells, len |-> r.off] ELSE Failed

\* net_socket_recv_msg: deserialize, or consume the frame and discard it.
ReadBack(m, frame) ==
    LET steps == Deserialize(m)
        r == Run(steps, frame.len)
    IN IF r.ok THEN [st |-> "read", fields |-> Got(steps, frame.cells), used |-> r.off]
               ELSE Failed

-----------------------------------------------------------------------------
(* The views a receiver refuses although they are whole: deser_player_view  *)
(* asks for 80 bytes, and a view of the classic mode has 72 and two for     *)
(* each card of the hand.                                                   *)
Refused(m) == m.type = "STATE_UPDATE" /\ ~ m.phase2_enabled /\ m.hand_count <= 3

(* The fields whose bytes the length checks of the reader leave out.        *)
(* deser_player_view counts 18 of the 22 bytes that end in turn_time_limit  *)
(* (the 80 bytes asked for first cover it up to a hand of four), and 30     *)
(* bytes for the whole tail of a Phase 2 view, which end at trick_winner.   *)
Uncounted(m) ==
    IF m.type # "STATE_UPDATE" THEN {}
    ELSE (IF m.hand_count > 4 THEN {"turn_time_limit"} ELSE {})
         \cup IF m.phase2_enabled
              THEN {"rogue_pending_winner", "duel_pending_winner", "rogue_chosen_suit",
                    "rogue_chosen_target", "rogue_revealed_count", "duel_chosen_card_idx",
                    "duel_chosen_target", "duel_revealed_card", "duel_was_swap", "martyr_flags",
                    "gatherer_reduction"}
              ELSE {}

(* No function writes or reads a byte its length checks have not covered,   *)
(* whatever the counts in the message, but for the fields above.            *)
ChecksCoverTheBytes(m) ==
    /\ Run(Serialize(m), SendBuffer).unsure = {}
    /\ {f[1] : f \in Run(Deserialize(m), SendBuffer).unsure} = Uncounted(m)

(* The numbers of a command survive the narrow fields of the wire, -1 for   *)
(* "none" included (net_input_cmd_from_local, net_input_cmd_to_local).      *)
CommandSurvives(m) ==
    m.type = "INPUT_CMD" => ToLocal(m.cmd, FromLocal(m.cmd, m.args)) = m.args

(* A message fits a frame also at its largest: one that does not is dropped *)
(* without a word.  The receiver refuses the views above and nothing else.  *)
(* Every field it reads of another message is the one the sender wrote at   *)
(* that place, every field is read and no byte is left over.                *)
Arrives(m) ==
    LET frame == Written(m)
        got == ReadBack(m, frame)
    IN /\ frame # Failed
       /\ got = Failed <=> Refused(m)
       /\ got # Failed =>
           /\ Len(got.fields) = Len(frame.cells)
           /\ \A k \in DOMAIN got.fields: got.fields[k] = <<frame.cells[k].f, frame.cells[k].f>>
           /\ got.used = frame.len

(* The pairs ser_x and deser_x of net/protocol.c, two hands writing the     *)
(* same layout, agree on a message: it arrives as it was sent, no number of *)
(* a command is changed by the width of its field, and the reader touches   *)
(* no byte it has not counted; the known exceptions are named, and there is *)
(* no other.                                                                *)
ReadAsWritten(m) == Arrives(m) /\ CommandSurvives(m) /\ ChecksCoverTheBytes(m)

=============================================================================
