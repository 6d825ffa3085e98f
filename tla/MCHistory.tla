------------------------------ MODULE MCHistory ------------------------------
(* Small instances of MessageRelay and History for TLC. *)
EXTENDS History, TLC

\* A host whose zone has an offset: Discord's times end in +0000 +0000.
MCZone == [m \in Humans \cup Others |-> -1]
=============================================================================
