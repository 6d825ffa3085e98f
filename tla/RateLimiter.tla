----------------------------- MODULE RateLimiter -----------------------------
(***************************************************************************)
(* The rate limiter of internal/ratelimit/limiter.go.                      *)
(*                                                                         *)
(* A session's limiter is an object with one token bucket per endpoint; a  *)
(* map finds it by the session.  A request looks the limiter up under l.mu *)
(* (creating it on first use, with full buckets) and stamps lastSeen, and  *)
(* afterwards asks the bucket under the bucket's own mutex; between the    *)
(* two the background cleanup may run, which under l.mu drops every        *)
(* limiter that was last seen more than IdleAfter ago.  A request that     *)
(* holds a dropped limiter goes on with it while later ones use a new one, *)
(* so the objects are kept apart here.                                     *)
(*                                                                         *)
(* Time is discrete, one unit per Tick, and a request waits no longer than *)
(* MaxPause between its two steps.  Tokens are scaled so that the code's   *)
(* fractional rates are integers; Cost is one token of the code.           *)
(***************************************************************************)
EXTENDS Integers, FiniteSets

CONSTANTS
    Sessions,     \* keys of the limiter: session token hashes, remote addresses
    Endpoints,    \* message, file, status, history
    Burst,        \* Burst[e]: maxTokens of e's bucket
    Rate,         \* Rate[e]: its refillRate per unit of time
    Cost,         \* one token
    IdleAfter,    \* the hour of cleanup
    MaxPause,     \* longest time between the two steps of a request
    Requests,     \* goroutines that serve requests
    MaxTime,      \* bound: the clock
    MaxLimiters,  \* bound: limiter objects made
    MaxGrants,    \* bound: grants counted for a bucket
    MaxRefusals,  \* bound: refusals counted for a bucket
    MaxWindows    \* bound: times the observer starts again

ASSUME RateLimiterAssumption ==
    /\ Burst \in [Endpoints -> Nat] /\ Rate \in [Endpoints -> Nat]
    /\ Cost \in Nat \ {0}
    /\ {IdleAfter, MaxPause, MaxTime, MaxLimiters, MaxGrants, MaxRefusals,
        MaxWindows} \subseteq Nat

\* A limiter that is dropped after IdleAfter would have been full anyway.
ASSUME IdleAssumption ==
    /\ MaxPause < IdleAfter
    /\ \A e \in Endpoints : Rate[e] * (IdleAfter - MaxPause) >= Burst[e]

VARIABLES
    now,       \* time.Now()
    sessions,  \* l.sessions: the limiter of a session, 0 if there is none
    limiters,  \* limiters[o]: the state of limiter object o
    made,      \* the limiter objects made are 1..made
    at,        \* at[r]: what request r is doing
    since,     \* the observer counts from here on
    windows,   \* how often the observer has started again
    granted,   \* granted[b]: requests that got TRUE from Allow since then
    refused    \* refused[b]: requests that got FALSE

vars == <<now, sessions, limiters, made, at, since, windows, granted, refused>>

Buckets == Sessions \X Endpoints
Time == 0..MaxTime
Idle == [session |-> "none"]

Least(a, b) == IF a <= b THEN a ELSE b

\* sessionLimiter: a bucket for each endpoint, and lastSeen.
Limiter ==
    [tokens : [Endpoints -> Nat], lastRefill : [Endpoints -> Time],
     lastSeen : Time]

\* A request between its two steps: the limiter it holds, and since when.
Request ==
    [session : Sessions, endpoint : Endpoints, limiter : 1..made, got : Time]

TypeOK ==
    /\ now \in Time
    /\ sessions \in [Sessions -> 0..made]
    /\ made \in 0..MaxLimiters
    /\ limiters \in [1..made -> Limiter]
    /\ \A o \in 1..made, e \in Endpoints : limiters[o].tokens[e] <= Burst[e]
    /\ at \in [Requests -> Request \cup {Idle}]
    /\ since \in Time /\ since <= now
    /\ windows \in 0..MaxWindows
    /\ granted \in [Buckets -> 0..MaxGrants]
    /\ refused \in [Buckets -> 0..MaxRefusals]

Init ==
    /\ now = 0
    /\ sessions = [s \in Sessions |-> 0]
    /\ limiters = <<>>
    /\ made = 0
    /\ at = [r \in Requests |-> Idle]
    /\ since = 0
    /\ windows = 0
    /\ granted = [b \in Buckets |-> 0]
    /\ refused = [b \in Buckets |-> 0]

-----------------------------------------------------------------------------
\* newSessionLimiter: full buckets.
NewSessionLimiter ==
    [tokens |-> Burst, lastRefill |-> [e \in Endpoints |-> now], lastSeen |-> now]

\* get: find or make the session's limiter and stamp it.
Get(r, s, e) ==
    /\ at[r] = Idle
    /\ IF sessions[s] # 0
       THEN /\ limiters' = [limiters EXCEPT ![sessions[s]].lastSeen = now]
            /\ UNCHANGED <<sessions, made>>
       ELSE /\ made < MaxLimiters
            /\ made' = made + 1
            /\ limiters' = [o \in 1..made' |-> IF o = made' THEN NewSessionLimiter
                                               ELSE limiters[o]]
            /\ sessions' = [sessions EXCEPT ![s] = made']
    /\ at' = [at EXCEPT ![r] = [session |-> s, endpoint |-> e,
                                limiter |-> sessions'[s], got |-> now]]
    /\ UNCHANGED <<now, since, windows, granted, refused>>

UnboundedRefill(l, e) == l.tokens[e] + (now - l.lastRefill[e]) * Rate[e]

\* The tokens Allow finds after the refill.
Refilled(l, e) == Least(Burst[e], l.tokens[e] + (now - l.lastRefill[e]) * Rate[e])

\* Allow on the endpoint's bucket of the limiter the request found.
Allow(r) ==
    /\ at[r] # Idle
    /\ LET o == at[r].limiter
           e == at[r].endpoint
           b == <<at[r].session, e>>
           t == Refilled(limiters[o], e)
       IN  /\ limiters' = [limiters EXCEPT
                ![o].tokens[e] = IF t < Cost THEN t ELSE t - Cost,
                ![o].lastRefill[e] = now]
           /\ IF t < Cost
              THEN /\ refused[b] < MaxRefusals
                   /\ refused' = [refused EXCEPT ![b] = @ + 1]
                   /\ UNCHANGED granted
              ELSE /\ granted[b] < MaxGrants
                   /\ granted' = [granted EXCEPT ![b] = @ + 1]
                   /\ UNCHANGED refused
    /\ at' = [at EXCEPT ![r] = Idle]
    /\ UNCHANGED <<now, sessions, made, since, windows>>

SeenOnce(l) == TRUE

\* lastSeen.Before(now - IdleAfter)
IsIdle(l) == l.lastSeen < now - IdleAfter

\* cleanup, one section under l.mu; the ticker runs it every 15 minutes, here
\* it may run at any time.
Cleanup ==
    /\ \E s \in Sessions : sessions[s] # 0 /\ IsIdle(limiters[sessions[s]])
    /\ sessions' = [s \in Sessions |->
                        IF sessions[s] # 0 /\ IsIdle(limiters[sessions[s]])
                        THEN 0 ELSE sessions[s]]
    /\ UNCHANGED <<now, limiters, made, at, since, windows, granted, refused>>

\* Time passes, but no request waits longer than MaxPause.
Tick ==
    /\ now < MaxTime
    /\ \A r \in Requests : at[r] # Idle => now - at[r].got < MaxPause
    /\ now' = now + 1
    /\ UNCHANGED <<sessions, limiters, made, at, since, windows, granted, refused>>

Observe ==
    /\ windows < MaxWindows
    /\ windows' = windows + 1
    /\ since' = now
    /\ granted' = [b \in Buckets |-> 0]
    /\ refused' = [b \in Buckets |-> 0]
    /\ UNCHANGED <<now, sessions, limiters, made, at>>

Next ==
    \/ Tick
    \/ Cleanup
    \/ Observe
    \/ \E r \in Requests :
        \/ Allow(r)
        \/ \E s \in Sessions, e \in Endpoints : Get(r, s, e)

Spec == Init /\ [][Next]_vars

-----------------------------------------------------------------------------
(* Properties.                                                             *)

\* What a request would find now: a session without a limiter would get a full
\* one.
Available ==
    [b \in Buckets |->
        IF sessions[b[1]] = 0
        THEN Burst[b[2]]
        ELSE Refilled(limiters[sessions[b[1]]], b[2])]

\* Forgetting idle sessions and making their limiters anew cannot be noticed:
\* the limiter behaves as buckets that are never forgotten, for any mix of
\* requests, pauses and cleanups.
Ideal == INSTANCE TokenBucket WITH
            Buckets <- Buckets,
            Burst <- [b \in Buckets |-> Burst[b[2]]],
            Rate <- [b \in Buckets |-> Rate[b[2]]],
            avail <- Available
ImplementsTokenBucket == Ideal!BucketSpec

\* In every interval a session is granted at most its burst and its gain, also
\* when its limiter was dropped and made anew within the interval.
GrantsBounded == Ideal!WindowBound

\* No two requests of a session are ever on different limiters.
OneLimiter ==
    \A r \in Requests : at[r] # Idle => at[r].limiter = sessions[at[r].session]
=============================================================================
