----------------------------- MODULE MCExchange -----------------------------
(* The messages of WireMessages, one after the other.                       *)
EXTENDS Exchange, WireMessages

MCMessages == AllMessages

=============================================================================
