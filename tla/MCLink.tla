------------------------------- MODULE MCLink -------------------------------
(* A ring of four bytes for frames of one to three, so that every frame     *)
(* meets the wrap at every place, and a stream of three bytes.              *)
(*                                                                          *)
(* Link moves frames and tells them apart by their length and by whether    *)
(* the receiver reads them; a frame of it stands for every message of the   *)
(* protocol that fares as it does, and Codec says what the two ends make of *)
(* each of them.                                                            *)
EXTENDS Link

MCLength == [empty |-> 0, odd |-> 1, full |-> 2]
MCMessages == DOMAIN MCLength
MCMalformed == {"odd"}

Wire == INSTANCE WireMessages
Ends == INSTANCE Codec

Carried(m) == { w \in Wire!AllMessages : Ends!Refused(w) <=> m \in MCMalformed }

Understood == { m \in MCMessages : \A w \in Carried(m): Ends!ReadAsWritten(w) }

(* Whatever message of the protocol an accepted frame carries, its receiver *)
(* reads it field by field as it was written, or refuses it, and refuses    *)
(* the short views of the classic mode and nothing else                     *)
(* (net_msg_serialize and net_msg_deserialize under net_socket_send_msg and *)
(* net_socket_recv_msg).                                                    *)
FieldsArrive == \A i \in DOMAIN sent: sent[i] \in Understood

=============================================================================
