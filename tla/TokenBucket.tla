----------------------------- MODULE TokenBucket -----------------------------
(***************************************************************************)
(* What the rate limiter promises: for every session and endpoint a bucket *)
(* that starts full, gains Rate tokens per unit of time up to Burst, and   *)
(* pays Cost tokens for each request it grants; a request is refused       *)
(* exactly when the bucket cannot pay.  Sessions are never forgotten here. *)
(* An observer may start counting at any time, which makes the number of   *)
(* requests granted within an interval part of the state.                  *)
(***************************************************************************)
EXTENDS Integers

CONSTANTS
    Buckets,  \* a bucket for each session and endpoint
    Burst,    \* Burst[b]: the tokens that fit into b, a natural number
    Rate,     \* Rate[b]: the tokens b gains per unit of time, also one
    Cost      \* the tokens a request costs, at least one

VARIABLES
    now,      \* the time
    avail,    \* avail[b]: the tokens in b now
    since,    \* when the observer started counting
    granted,  \* granted[b]: requests granted since then
    refused   \* refused[b]: requests refused since then

bucketVars == <<now, avail, since, granted, refused>>

Least(a, b) == IF a <= b THEN a ELSE b

BucketInit ==
    /\ now = 0 /\ since = 0
    /\ avail = Burst
    /\ granted = [b \in Buckets |-> 0]
    /\ refused = [b \in Buckets |-> 0]

Pass ==
    /\ now' = now + 1
    /\ avail' = [b \in Buckets |-> Least(Burst[b], avail[b] + Rate[b])]
    /\ UNCHANGED <<since, granted, refused>>

Grant(b) ==
    /\ avail[b] >= Cost
    /\ avail' = [avail EXCEPT ![b] = @ - Cost]
    /\ granted' = [granted EXCEPT ![b] = @ + 1]
    /\ UNCHANGED <<now, since, refused>>

Refuse(b) ==
    /\ avail[b] < Cost
    /\ refused' = [refused EXCEPT ![b] = @ + 1]
    /\ UNCHANGED <<now, avail, since, granted>>

StartCounting ==
    /\ since' = now
    /\ granted' = [b \in Buckets |-> 0]
    /\ refused' = [b \in Buckets |-> 0]
    /\ UNCHANGED <<now, avail>>

BucketNext ==
    \/ Pass
    \/ StartCounting
    \/ \E b \in Buckets : Grant(b) \/ Refuse(b)

BucketSpec == BucketInit /\ [][BucketNext]_bucketVars

-----------------------------------------------------------------------------
BucketTypeOK ==
    /\ now \in Nat /\ since \in Nat /\ since <= now
    /\ avail \in [Buckets -> Nat]
    /\ \A b \in Buckets : avail[b] <= Burst[b]
    /\ granted \in [Buckets -> Nat]
    /\ refused \in [Buckets -> Nat]

\* What was granted since any moment was paid for out of a full bucket and what
\* it gained meanwhile; what is left in the bucket is not yet spent.
Paid ==
    \A b \in Buckets :
        Cost * granted[b] + avail[b] <= Burst[b] + Rate[b] * (now - since)

\* In every interval a bucket grants at most its burst and its gain.
WindowBound ==
    \A b \in Buckets :
        Cost * granted[b] <= Burst[b] + Rate[b] * (now - since)
=============================================================================
