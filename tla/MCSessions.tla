----------------------------- MODULE MCSessions -----------------------------
(* Sessions with its users, tokens and device codes as symmetric values, on *)
(* hosts west of UTC.                                                       *)
EXTENDS Sessions, TLC

Symmetry == Permutations(Users) \cup Permutations(Tokens) \cup Permutations(Flows)

OneBehind == -1
FarBehind == -2
=============================================================================
