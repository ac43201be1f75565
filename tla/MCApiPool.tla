----------------------------- MODULE MCApiPool -----------------------------
(* Instances of ApiPool for TLC. *)
EXTENDS ApiPoolProps, TLC

CONSTANTS c1, c2, c3, s1, v1

OwnServer == (s1 :> v1)

Symmetric == Permutations(Call) \cup Permutations(Api)
=============================================================================
