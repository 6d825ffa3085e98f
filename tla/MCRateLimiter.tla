--------------------------- MODULE MCRateLimiter ---------------------------
(***************************************************************************)
(* An instance of RateLimiter for TLC: newBucket(2, 2/60), the bucket for  *)
(* files, in units of 30 seconds.  The hour of the cleanup is shortened to *)
(* the least that IdleAssumption allows.                                   *)
(***************************************************************************)
EXTENDS RateLimiter

FileBurst == [e \in Endpoints |-> 2]
FileRate == [e \in Endpoints |-> 1]
=============================================================================
