----------------------------- MODULE MCWebhooks -----------------------------
(* Small instances of Webhooks for TLC. *)
EXTENDS Webhooks, TLC

\* Every definition treats two senders alike.
Symmetry == Permutations(Senders)
=============================================================================
