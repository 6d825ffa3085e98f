--------------------------- MODULE MCGuildCatalog ---------------------------
(* A small instance of GuildCatalog for TLC: a guild with one channel.      *)
EXTENDS GuildCatalog, TLC

CONSTANTS g1, c1

MCGuildOf == c1 :> g1
=============================================================================
