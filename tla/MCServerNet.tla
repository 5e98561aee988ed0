------------------------------ MODULE MCServerNet ------------------------------
(*****************************************************************************)
(* Small instances of ServerNet: two seats, so that a room has a creator and *)
(* another player, two or three entries in the socket table, so that an      *)
(* entry is reused while a seat still refers to it.                          *)
(*****************************************************************************)
EXTENDS ServerNet, TLC

CONSTANTS c1, c2, k1, k2


MCSymmetry == Permutations(Clients) \cup Permutations(Codes)

=============================================================================
