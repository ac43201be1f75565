--------------------------- MODULE MCRelayServer ---------------------------
(* Instances of RelayServer for TLC. *)
EXTENDS RelayServerProps, TLC

CONSTANTS a1, a2

Symmetric == Permutations(Fd)
=============================================================================
