-------------------------------- MODULE MCLobby --------------------------------
(*****************************************************************************)
(* Small instances of Lobby: matches of two players, one or two clients and  *)
(* one game server on a socket table of three entries, so that a program can *)
(* come back on another entry than the one it left.                          *)
(*****************************************************************************)
EXTENDS Lobby, TLC

CONSTANTS c1, c2, g1, k1, k2

MCSymmetry == Permutations(Clients) \cup Permutations(Codes)

=============================================================================
