----------------------------- MODULE MCPresence -----------------------------
(* Presence with its requests and statuses as symmetric values.            *)
EXTENDS Presence, TLC

Symmetry == Permutations(Requests) \cup Permutations(Statuses)
=============================================================================
