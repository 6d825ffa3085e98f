--------------------------- MODULE MCMessageRelay ---------------------------
(* Small instances of MessageRelay for TLC. *)
EXTENDS MessageRelay, TLC
=============================================================================
