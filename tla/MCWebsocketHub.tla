--------------------------- MODULE MCWebsocketHub ---------------------------
(* Small instances of WebsocketHub for TLC. *)
EXTENDS WebsocketHub, TLC

\* Every definition treats two clients alike.
Symmetry == Permutations(Clients)
=============================================================================
