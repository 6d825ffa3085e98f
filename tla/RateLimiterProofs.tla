-------------------------- MODULE RateLimiterProofs --------------------------
(***************************************************************************)
(* The rate limiter implements token buckets that are never forgotten, for *)
(* any sessions, endpoints, bursts, rates, requests and bounds: types, the *)
(* inductive invariant, and the refinement step by step.                   *)
(***************************************************************************)
EXTENDS RateLimiter, TLAPS

\* No stamp of a limiter is in the future, and a bucket is used at most
\* MaxPause after its limiter was last found.
Stamped ==
    \A o \in 1..made :
        /\ limiters[o].lastSeen <= now
        /\ \A e \in Endpoints :
            /\ limiters[o].lastRefill[e] <= now
            /\ limiters[o].lastRefill[e] <= limiters[o].lastSeen + MaxPause

\* A request between its two steps holds the limiter of its session, which was
\* stamped when the request found it or later, not long ago.
Held ==
    \A r \in Requests : at[r] # Idle =>
        /\ at[r].limiter = sessions[at[r].session]
        /\ at[r].got <= limiters[at[r].limiter].lastSeen
        /\ now - at[r].got <= MaxPause

\* Sessions do not share a limiter.
Unshared ==
    \A s, t \in Sessions : sessions[s] # 0 /\ sessions[s] = sessions[t] => s = t

IInv == TypeOK /\ Stamped /\ Held /\ Unshared

-----------------------------------------------------------------------------
\* A step of the limiter is one of its actions or changes nothing.
LEMMA NextCases ==
    ASSUME [Next]_vars
    PROVE  \/ Tick \/ Cleanup \/ Observe \/ UNCHANGED vars
           \/ \E r \in Requests : Allow(r)
           \/ \E r \in Requests, s \in Sessions, e \in Endpoints : Get(r, s, e)
  BY DEF Next

-----------------------------------------------------------------------------
(* Arithmetic.                                                             *)

LEMMA OneMore ==
    ASSUME NEW k \in Nat, NEW n \in Int
    PROVE  (n + 1) * k = n * k + k
  OBVIOUS

LEMMA NoneYet == ASSUME NEW k \in Nat PROVE 0 * k = 0
  OBVIOUS

LEMMA ProductMonotonic ==
    ASSUME NEW k \in Nat, NEW m \in Int, NEW n \in Int, m <= n
    PROVE  k * m <= n * k
  OBVIOUS

LEMMA ProductIsNat == ASSUME NEW k \in Nat, NEW n \in Nat PROVE n * k \in Nat
  OBVIOUS

LEMMA ConstantsTyped ==
    /\ MaxPause \in Nat /\ IdleAfter \in Nat /\ Cost \in Nat \ {0}
    /\ MaxTime \in Nat /\ MaxLimiters \in Nat /\ MaxWindows \in Nat
    /\ MaxGrants \in Nat /\ MaxRefusals \in Nat
    /\ MaxPause < IdleAfter
    /\ \A e \in Endpoints : Burst[e] \in Nat /\ Rate[e] \in Nat
    /\ Burst \in [Endpoints -> Nat]
  BY RateLimiterAssumption, IdleAssumption

-----------------------------------------------------------------------------
(* Refilling a bucket.                                                     *)

\* What is put into a bucket is natural and fits.
LEMMA RefilledTyped ==
    ASSUME IInv, NEW o \in 1..made, NEW e \in Endpoints
    PROVE  /\ Refilled(limiters[o], e) \in Nat
           /\ Refilled(limiters[o], e) <= Burst[e]
  <1>1. /\ limiters[o].tokens[e] \in Nat
        /\ now - limiters[o].lastRefill[e] \in Nat
    BY DEF IInv, TypeOK, Stamped, Limiter, Time
  <1>2. (now - limiters[o].lastRefill[e]) * Rate[e] \in Nat
    BY <1>1, ProductIsNat, ConstantsTyped
  <1> QED
    BY <1>1, <1>2, ConstantsTyped DEF Refilled, Least

\* One unit of time adds Rate tokens, up to the burst.
LEMMA RefilledLater ==
    ASSUME IInv, NEW o \in 1..made, NEW e \in Endpoints, now' = now + 1,
           limiters' = limiters
    PROVE  Refilled(limiters[o], e)'
             = Least(Burst[e], Refilled(limiters[o], e) + Rate[e])
  <1> DEFINE d == now - limiters[o].lastRefill[e]
             T == limiters[o].tokens[e]
  <1>1. T \in Nat /\ d \in Nat
    BY DEF IInv, TypeOK, Stamped, Limiter, Time
  <1>2. now' - limiters'[o].lastRefill[e] = d + 1
    BY <1>1 DEF IInv, TypeOK, Stamped, Limiter, Time
  <1>3. (d + 1) * Rate[e] = d * Rate[e] + Rate[e] /\ d * Rate[e] \in Nat
    BY <1>1, OneMore, ProductIsNat, ConstantsTyped
  <1>4. Refilled(limiters[o], e) = Least(Burst[e], T + d * Rate[e])
    BY DEF Refilled
  <1>5. Refilled(limiters[o], e)' = Least(Burst[e], T + (d * Rate[e] + Rate[e]))
    BY <1>2, <1>3 DEF Refilled
  <1> HIDE DEF T, d
  <1> QED
    BY <1>1, <1>3, <1>4, <1>5, ConstantsTyped DEF Least

\* A limiter that cleanup drops is full again.
LEMMA IdleIsFull ==
    ASSUME IInv, NEW o \in 1..made, IsIdle(limiters[o]), NEW e \in Endpoints
    PROVE  Refilled(limiters[o], e) = Burst[e]
  <1> DEFINE d == now - limiters[o].lastRefill[e]
             T == limiters[o].tokens[e]
  <1>1. T \in Nat /\ d \in Nat
    BY DEF IInv, TypeOK, Stamped, Limiter, Time
  <1>2. IdleAfter - MaxPause <= d /\ IdleAfter - MaxPause \in Int
    BY ConstantsTyped DEF IInv, TypeOK, Stamped, Limiter, Time, IsIdle
  <1>3. Rate[e] * (IdleAfter - MaxPause) <= d * Rate[e]
    BY <1>1, <1>2, ProductMonotonic, ConstantsTyped
  <1>4. Rate[e] * (IdleAfter - MaxPause) >= Burst[e]
    BY IdleAssumption
  <1>5. d * Rate[e] \in Nat /\ Rate[e] * (IdleAfter - MaxPause) \in Nat
    BY <1>1, <1>2, ProductIsNat, ConstantsTyped
  <1>6. Refilled(limiters[o], e) = Least(Burst[e], T + d * Rate[e])
    BY DEF Refilled
  <1> HIDE DEF T, d
  <1> QED
    BY <1>1, <1>3, <1>4, <1>5, <1>6, ConstantsTyped DEF Least

-----------------------------------------------------------------------------
(* What the steps do to the limiters.                                      *)

\* Allow's bucket is the one of its session, and no other is touched.
AllowOn(r, s, e, o, t, u) ==
    /\ at[r].session = s /\ at[r].endpoint = e /\ at[r].limiter = o
    /\ sessions[s] = o /\ at[r].got \in Time
    /\ at[r].got <= limiters[o].lastSeen /\ now - at[r].got <= MaxPause
    /\ t = Refilled(limiters[o], e) /\ t \in Nat /\ t <= Burst[e]
    /\ u = (IF t < Cost THEN t ELSE t - Cost) /\ u \in Nat /\ u <= Burst[e]
    /\ limiters' \in [1..made -> Limiter]
    /\ limiters'[o].tokens = [limiters[o].tokens EXCEPT ![e] = u]
    /\ limiters'[o].lastRefill = [limiters[o].lastRefill EXCEPT ![e] = now]
    /\ limiters'[o].lastSeen = limiters[o].lastSeen
    /\ \A p \in 1..made : p # o => limiters'[p] = limiters[p]

LEMMA AllowsOne ==
    ASSUME IInv, NEW r \in Requests, Allow(r)
    PROVE  \E s \in Sessions, e \in Endpoints, o \in 1..made,
                t \in Nat, u \in Nat :
                AllowOn(r, s, e, o, t, u)
  <1>1. at[r] # Idle /\ at[r] \in Request
    BY DEF Allow, IInv, TypeOK
  <1>2. PICK s \in Sessions, e \in Endpoints, o \in 1..made :
            /\ at[r].session = s /\ at[r].endpoint = e /\ at[r].limiter = o
    BY <1>1 DEF Request
  <1>3. PICK t, u : /\ t = Refilled(limiters[o], e)
                    /\ u = IF t < Cost THEN t ELSE t - Cost
    OBVIOUS
  <1>4. /\ sessions[s] = o /\ at[r].got \in Time
        /\ at[r].got <= limiters[o].lastSeen /\ now - at[r].got <= MaxPause
    BY <1>1, <1>2 DEF IInv, Held, Request
  <1>5. t \in Nat /\ t <= Burst[e] /\ Burst[e] \in Nat
    BY <1>3, RefilledTyped, ConstantsTyped
  <1>6. u \in Nat /\ u <= Burst[e]
    BY <1>3, <1>5, ConstantsTyped
  <1>7. limiters' = [limiters EXCEPT ![o].tokens[e] = u,
                                     ![o].lastRefill[e] = now]
    BY <1>2, <1>3 DEF Allow
  <1>8. made \in Nat /\ limiters \in [1..made -> Limiter] /\ now \in Time
    BY DEF IInv, TypeOK
  <1>9. /\ limiters' \in [1..made -> Limiter]
        /\ limiters'[o].tokens = [limiters[o].tokens EXCEPT ![e] = u]
        /\ limiters'[o].lastRefill = [limiters[o].lastRefill EXCEPT ![e] = now]
        /\ limiters'[o].lastSeen = limiters[o].lastSeen
        /\ \A p \in 1..made : p # o => limiters'[p] = limiters[p]
    <2> DEFINE h == [limiters EXCEPT ![o] = [@ EXCEPT !.tokens[e] = u]]
               k == [h EXCEPT ![o] = [@ EXCEPT !.lastRefill[e] = now]]
    <2>1. limiters[o] \in Limiter
      BY <1>8
    <2>2. /\ h[o] = [limiters[o] EXCEPT !.tokens = [@ EXCEPT ![e] = u]]
          /\ h \in [1..made -> Limiter]
      BY <1>6, <1>8, <2>1 DEF Limiter
    <2>3. /\ h[o].tokens = [limiters[o].tokens EXCEPT ![e] = u]
          /\ h[o].lastRefill = limiters[o].lastRefill
          /\ h[o].lastSeen = limiters[o].lastSeen
          /\ \A p \in 1..made : p # o => h[p] = limiters[p]
      BY <1>8, <2>1, <2>2 DEF Limiter
    <2>4. limiters' = k
      BY <1>7
    <2> HIDE DEF h
    <2>5. /\ k[o] = [h[o] EXCEPT !.lastRefill = [@ EXCEPT ![e] = now]]
          /\ k \in [1..made -> Limiter]
      BY <1>8, <2>2 DEF Limiter
    <2>6. /\ k[o].tokens = h[o].tokens
          /\ k[o].lastRefill = [h[o].lastRefill EXCEPT ![e] = now]
          /\ k[o].lastSeen = h[o].lastSeen
          /\ \A p \in 1..made : p # o => k[p] = h[p]
      BY <2>2, <2>5 DEF Limiter
    <2> HIDE DEF k
    <2> QED
      BY <2>3, <2>4, <2>5, <2>6
  <1>10. AllowOn(r, s, e, o, t, u)
    BY <1>2, <1>3, <1>4, <1>5, <1>6, <1>9, Zenon DEF AllowOn
  <1> QED
    BY <1>5, <1>6, <1>10

\* Get stamps the limiter of its session, or makes one that is full.
LEMMA GetsOne ==
    ASSUME IInv, NEW r \in Requests, NEW s \in Sessions, NEW e \in Endpoints,
           Get(r, s, e)
    PROVE  /\ made' \in 0..MaxLimiters /\ made <= made' /\ made' <= made + 1
           /\ sessions' \in [Sessions -> 0..made'] /\ sessions'[s] \in 1..made'
           /\ \A q \in Sessions : q # s => sessions'[q] = sessions[q]
           /\ limiters' \in [1..made' -> Limiter]
           /\ \A o \in 1..made : /\ limiters'[o].tokens = limiters[o].tokens
                                 /\ limiters'[o].lastRefill = limiters[o].lastRefill
                                 /\ o # sessions'[s] => limiters'[o] = limiters[o]
           /\ limiters'[sessions'[s]].lastSeen = now
           /\ sessions[s] # 0 => made' = made /\ sessions' = sessions
           /\ sessions[s] = 0 => /\ sessions'[s] = made + 1 /\ made' = made + 1
                                 /\ limiters'[made'] = NewSessionLimiter
  <1>1. CASE sessions[s] # 0
    <2>1. /\ limiters' = [limiters EXCEPT ![sessions[s]].lastSeen = now]
          /\ sessions' = sessions /\ made' = made /\ sessions[s] \in 1..made
      BY <1>1 DEF Get, IInv, TypeOK
    <2>2. /\ made \in 0..MaxLimiters /\ limiters \in [1..made -> Limiter]
          /\ sessions \in [Sessions -> 0..made] /\ now \in Time
      BY DEF IInv, TypeOK
    <2>3. /\ limiters' \in [1..made -> Limiter]
          /\ \A o \in 1..made : /\ limiters'[o].tokens = limiters[o].tokens
                                /\ limiters'[o].lastRefill = limiters[o].lastRefill
                                /\ o # sessions[s] => limiters'[o] = limiters[o]
          /\ limiters'[sessions[s]].lastSeen = now
      BY <2>1, <2>2 DEF Limiter
    <2> QED
      BY <1>1, <2>1, <2>2, <2>3
  <1>2. CASE sessions[s] = 0
    <2>1. /\ made' = made + 1 /\ made \in Nat /\ made' \in 0..MaxLimiters
          /\ limiters' = [o \in 1..made' |-> IF o = made' THEN NewSessionLimiter
                                             ELSE limiters[o]]
          /\ sessions' = [sessions EXCEPT ![s] = made']
      BY <1>2, ConstantsTyped DEF Get, IInv, TypeOK
    <2>2. NewSessionLimiter \in Limiter /\ NewSessionLimiter.lastSeen = now
      BY ConstantsTyped DEF NewSessionLimiter, Limiter, IInv, TypeOK
    <2>3. sessions'[s] = made' /\ made' \in 1..made'
          /\ sessions' \in [Sessions -> 0..made']
      BY <2>1 DEF IInv, TypeOK
    <2> HIDE DEF NewSessionLimiter
    <2> QED
      BY <1>2, <2>1, <2>2, <2>3 DEF IInv, TypeOK
  <1> QED
    BY <1>1, <1>2

-----------------------------------------------------------------------------
(* Types.                                                                  *)

LEMMA TypeInit == Init => TypeOK
  BY ConstantsTyped DEF Init, TypeOK, Time, Idle, Buckets, Limiter

LEMMA TypeNext == IInv /\ [Next]_vars => TypeOK'
  <1> SUFFICES ASSUME IInv, [Next]_vars
               PROVE  TypeOK'
    OBVIOUS
  <1>t. TypeOK
    BY DEF IInv
  <1>1. CASE Tick
    BY <1>t, <1>1, ConstantsTyped DEF TypeOK, Tick, Time, Request
  <1>2. CASE Cleanup
    BY <1>t, <1>2 DEF TypeOK, Cleanup, Request
  <1>3. CASE Observe
    BY <1>t, <1>3, ConstantsTyped DEF TypeOK, Observe, Time, Request
  <1>4. CASE UNCHANGED vars
    BY <1>t, <1>4 DEF TypeOK, vars, Request
  <1>5. ASSUME NEW r \in Requests, Allow(r)
        PROVE  TypeOK'
    <2>1. PICK s \in Sessions, e \in Endpoints, o \in 1..made,
                t \in Nat, u \in Nat :
                AllowOn(r, s, e, o, t, u)
      BY <1>5, AllowsOne
    <2>2. <<s, e>> \in Buckets
      BY DEF Buckets
    <2>3. /\ limiters' \in [1..made -> Limiter]
          /\ \A p \in 1..made, d \in Endpoints :
                limiters'[p].tokens[d] <= Burst[d]
      <3> SUFFICES ASSUME NEW p \in 1..made, NEW d \in Endpoints
                   PROVE  limiters'[p].tokens[d] <= Burst[d]
        BY <2>1 DEF AllowOn
      <3>1. /\ limiters[p].tokens \in [Endpoints -> Nat]
            /\ limiters[p].tokens[d] <= Burst[d]
        BY <1>t DEF TypeOK, Limiter
      <3>2. CASE p = o
        <4>1. limiters'[p].tokens = [limiters[p].tokens EXCEPT ![e] = u]
          BY <2>1, <3>2 DEF AllowOn
        <4> QED
          BY <2>1, <3>1, <4>1 DEF AllowOn
      <3>3. CASE p # o
        BY <2>1, <3>1, <3>3 DEF AllowOn
      <3> QED
        BY <3>2, <3>3
    <2>4. /\ granted' \in [Buckets -> 0..MaxGrants]
          /\ refused' \in [Buckets -> 0..MaxRefusals]
      <3>1. \/ granted' = granted
            \/ /\ granted[<<s, e>>] < MaxGrants
               /\ granted' = [granted EXCEPT ![<<s, e>>] = @ + 1]
        BY <1>5, <2>1 DEF Allow, AllowOn
      <3>2. \/ refused' = refused
            \/ /\ refused[<<s, e>>] < MaxRefusals
               /\ refused' = [refused EXCEPT ![<<s, e>>] = @ + 1]
        BY <1>5, <2>1 DEF Allow, AllowOn
      <3>3. /\ granted \in [Buckets -> 0..MaxGrants]
            /\ refused \in [Buckets -> 0..MaxRefusals]
            /\ MaxGrants \in Nat /\ MaxRefusals \in Nat
        BY <1>t, ConstantsTyped DEF TypeOK
      <3>4. granted' \in [Buckets -> 0..MaxGrants]
        BY <2>2, <3>1, <3>3
      <3> QED
        BY <2>2, <3>2, <3>3, <3>4
    <2>5. at' \in [Requests -> Request \cup {Idle}]
      BY <1>t, <1>5 DEF Allow, TypeOK
    <2> QED
      BY <1>t, <1>5, <2>3, <2>4, <2>5 DEF Allow, TypeOK, Request
  <1>6. ASSUME NEW r \in Requests, NEW s \in Sessions, NEW e \in Endpoints,
               Get(r, s, e)
        PROVE  TypeOK'
    <2>1. /\ made' \in 0..MaxLimiters /\ made <= made'
          /\ sessions' \in [Sessions -> 0..made'] /\ sessions'[s] \in 1..made'
          /\ limiters' \in [1..made' -> Limiter]
      BY <1>6, GetsOne
    <2>2. \A o \in 1..made', d \in Endpoints :
                limiters'[o].tokens[d] <= Burst[d]
      <3> SUFFICES ASSUME NEW o \in 1..made', NEW d \in Endpoints
                   PROVE  limiters'[o].tokens[d] <= Burst[d]
        OBVIOUS
      <3>1. CASE o \in 1..made
        BY <1>t, <1>6, <3>1, GetsOne DEF TypeOK
      <3>2. CASE o \notin 1..made
        <4>1. limiters'[o] = NewSessionLimiter
          BY <1>t, <1>6, <3>2, GetsOne DEF TypeOK
        <4> QED
          BY <4>1, ConstantsTyped DEF NewSessionLimiter
      <3> QED
        BY <3>1, <3>2
    <2>3. at' \in [Requests -> Request' \cup {Idle}]
      BY <1>t, <1>6, <2>1 DEF Get, TypeOK, Request
    <2> QED
      BY <1>t, <1>6, <2>1, <2>2, <2>3 DEF Get, TypeOK
  <1> QED
    BY <1>1, <1>2, <1>3, <1>4, <1>5, <1>6, NextCases

-----------------------------------------------------------------------------
(* The invariant.                                                          *)

\* While a request holds the limiter of its session, cleanup does not drop it.
LEMMA HeldIsNotIdle ==
    ASSUME IInv, NEW r \in Requests, at[r] # Idle
    PROVE  /\ at[r] \in Request
           /\ sessions[at[r].session] \in 1..made
           /\ ~IsIdle(limiters[sessions[at[r].session]])
  <1>1. at[r] \in Request
    BY DEF IInv, TypeOK
  <1>2. /\ at[r].limiter \in 1..made /\ at[r].got \in Time
        /\ at[r].limiter = sessions[at[r].session]
        /\ at[r].got <= limiters[at[r].limiter].lastSeen
        /\ now - at[r].got <= MaxPause
    BY <1>1 DEF Request, IInv, Held
  <1>3. limiters[at[r].limiter].lastSeen \in Time /\ now \in Time
    BY <1>2 DEF IInv, TypeOK, Limiter
  <1> QED
    BY <1>1, <1>2, <1>3, ConstantsTyped DEF IsIdle, Time

LEMMA InvInit == Init => Stamped /\ Held /\ Unshared
  BY ConstantsTyped DEF Init, Stamped, Held, Unshared

LEMMA StampedNext == IInv /\ [Next]_vars => Stamped'
  <1> SUFFICES ASSUME IInv, [Next]_vars
               PROVE  Stamped'
    OBVIOUS
  <1>t. /\ now \in Time /\ MaxPause \in Nat /\ made \in 0..MaxLimiters
        /\ limiters \in [1..made -> Limiter] /\ Stamped
    BY ConstantsTyped DEF IInv, TypeOK
  <1>0. \A o \in 1..made :
            /\ limiters[o].lastSeen \in Time
            /\ \A e \in Endpoints : limiters[o].lastRefill[e] \in Time
    BY <1>t DEF Limiter
  <1>1. CASE Tick
    BY <1>t, <1>0, <1>1 DEF Tick, Stamped, Time
  <1>2. CASE Cleanup
    BY <1>t, <1>2 DEF Cleanup, Stamped
  <1>3. CASE Observe
    BY <1>t, <1>3 DEF Observe, Stamped
  <1>4. CASE UNCHANGED vars
    BY <1>t, <1>4 DEF vars, Stamped
  <1>5. ASSUME NEW r \in Requests, Allow(r)
        PROVE  Stamped'
    <2>1. PICK s \in Sessions, e \in Endpoints, o \in 1..made,
                t \in Nat, u \in Nat :
                AllowOn(r, s, e, o, t, u)
      BY <1>5, AllowsOne
    <2>2. /\ now - at[r].got <= MaxPause /\ at[r].got <= limiters[o].lastSeen
          /\ at[r].got \in Time
      BY <2>1 DEF AllowOn
    <2>3. now <= limiters[o].lastSeen + MaxPause
      BY <1>t, <1>0, <2>2 DEF Time
    <2>4. ASSUME NEW p \in 1..made, NEW d \in Endpoints
          PROVE  /\ limiters'[p].lastSeen = limiters[p].lastSeen
                 /\ \/ limiters'[p].lastRefill[d] = limiters[p].lastRefill[d]
                    \/ p = o /\ limiters'[p].lastRefill[d] = now
      <3>1. limiters[p].lastRefill \in [Endpoints -> Time]
        BY <1>t DEF Limiter
      <3>2. CASE p = o
        <4>1. /\ limiters'[p].lastRefill = [limiters[p].lastRefill EXCEPT ![e] = now]
              /\ limiters'[p].lastSeen = limiters[p].lastSeen
          BY <2>1, <3>2 DEF AllowOn
        <4> QED
          BY <3>1, <3>2, <4>1
      <3>3. CASE p # o
        BY <2>1, <3>3 DEF AllowOn
      <3> QED
        BY <3>2, <3>3
    <2>5. now' = now /\ made' = made
      BY <1>5 DEF Allow
    <2>6. \A p \in 1..made : limiters'[p].lastSeen = limiters[p].lastSeen
      BY <2>1 DEF AllowOn
    <2>7. ASSUME NEW p \in 1..made, NEW d \in Endpoints
          PROVE  /\ limiters'[p].lastRefill[d] <= now
                 /\ limiters'[p].lastRefill[d] <= limiters'[p].lastSeen + MaxPause
      <3>1. /\ limiters[p].lastRefill[d] <= now
            /\ limiters[p].lastRefill[d] <= limiters[p].lastSeen + MaxPause
        BY <1>t DEF Stamped
      <3> QED
        BY <1>t, <2>3, <2>4, <3>1 DEF Time
    <2>8. \A p \in 1..made : limiters'[p].lastSeen <= now
      BY <1>t, <2>6 DEF Stamped
    <2> QED
      BY <2>5, <2>7, <2>8 DEF Stamped
  <1>6. ASSUME NEW r \in Requests, NEW s \in Sessions, NEW e \in Endpoints,
               Get(r, s, e)
        PROVE  Stamped'
    <2>1. now' = now
      BY <1>6 DEF Get
    <2> SUFFICES ASSUME NEW o \in 1..made'
                 PROVE  /\ limiters'[o].lastSeen <= now
                        /\ \A d \in Endpoints :
                            /\ limiters'[o].lastRefill[d] <= now
                            /\ limiters'[o].lastRefill[d]
                                 <= limiters'[o].lastSeen + MaxPause
      BY <2>1 DEF Stamped
    <2>2. CASE o \in 1..made
      <3>1. limiters'[o].lastSeen = limiters[o].lastSeen \/ limiters'[o].lastSeen = now
        BY <1>6, <2>2, GetsOne
      <3>2. limiters'[o].lastRefill = limiters[o].lastRefill
        BY <1>6, <2>2, GetsOne
      <3> QED
        BY <1>t, <1>0, <2>2, <3>1, <3>2 DEF Stamped, Time
    <2>3. CASE o \notin 1..made
      <3>1. limiters'[o] = NewSessionLimiter
        BY <1>t, <1>6, <2>3, GetsOne
      <3> QED
        BY <1>t, <3>1 DEF NewSessionLimiter, Time
    <2> QED
      BY <2>2, <2>3
  <1> QED
    BY <1>1, <1>2, <1>3, <1>4, <1>5, <1>6, NextCases

LEMMA HeldNext == IInv /\ [Next]_vars => Held'
  <1> SUFFICES ASSUME IInv, [Next]_vars, NEW q \in Requests, at'[q] # Idle
               PROVE  /\ at'[q].limiter = sessions'[at'[q].session]
                      /\ at'[q].got <= limiters'[at'[q].limiter].lastSeen
                      /\ now' - at'[q].got <= MaxPause
    BY DEF Held
  <1>t. /\ now \in Time /\ MaxPause \in Nat /\ made \in 0..MaxLimiters
        /\ limiters \in [1..made -> Limiter] /\ Held
        /\ sessions \in [Sessions -> 0..made]
        /\ at \in [Requests -> Request \cup {Idle}]
    BY ConstantsTyped DEF IInv, TypeOK
  <1>0. at[q] # Idle => /\ at[q] \in Request
                        /\ at[q].limiter \in 1..made /\ at[q].got \in Time
                        /\ at[q].session \in Sessions
                        /\ at[q].limiter = sessions[at[q].session]
                        /\ at[q].got <= limiters[at[q].limiter].lastSeen
                        /\ now - at[q].got <= MaxPause
    BY <1>t DEF Held, Request
  <1>1. CASE Tick
    BY <1>t, <1>0, <1>1 DEF Tick, Time
  <1>2. CASE Cleanup
    <2>1. at' = at /\ limiters' = limiters /\ now' = now
      BY <1>2 DEF Cleanup
    <2>2. sessions'[at[q].session] = sessions[at[q].session]
      BY <1>2, <1>0, <2>1, HeldIsNotIdle DEF Cleanup
    <2> QED
      BY <1>0, <2>1, <2>2
  <1>3. CASE Observe
    BY <1>0, <1>3 DEF Observe
  <1>4. CASE UNCHANGED vars
    BY <1>0, <1>4 DEF vars
  <1>5. ASSUME NEW r \in Requests, Allow(r)
        PROVE  /\ at'[q].limiter = sessions'[at'[q].session]
               /\ at'[q].got <= limiters'[at'[q].limiter].lastSeen
               /\ now' - at'[q].got <= MaxPause
    <2>1. \A p \in 1..made : limiters'[p].lastSeen = limiters[p].lastSeen
      <3>1. PICK s \in Sessions, e \in Endpoints, o \in 1..made,
                t \in Nat, u \in Nat :
                AllowOn(r, s, e, o, t, u)
        BY <1>5, AllowsOne
      <3> QED
        BY <3>1 DEF AllowOn
    <2>2. at'[q] = at[q] /\ sessions' = sessions /\ now' = now
      BY <1>t, <1>5 DEF Allow
    <2> QED
      BY <1>0, <2>1, <2>2
  <1>6. ASSUME NEW r \in Requests, NEW s \in Sessions, NEW e \in Endpoints,
               Get(r, s, e)
        PROVE  /\ at'[q].limiter = sessions'[at'[q].session]
               /\ at'[q].got <= limiters'[at'[q].limiter].lastSeen
               /\ now' - at'[q].got <= MaxPause
    <2>1. now' = now
      BY <1>6 DEF Get
    <2>2. CASE q = r
      <3>1. at'[q] = [session |-> s, endpoint |-> e,
                      limiter |-> sessions'[s], got |-> now]
        BY <1>t, <1>6, <2>2 DEF Get
      <3>2. limiters'[sessions'[s]].lastSeen = now
        BY <1>6, GetsOne
      <3> QED
        BY <1>t, <2>1, <3>1, <3>2 DEF Time
    <2>3. CASE q # r
      <3>1. at'[q] = at[q] /\ at[q] # Idle
        BY <1>t, <1>6, <2>3 DEF Get
      <3>2. sessions[at[q].session] # 0
        BY <1>t, <1>0, <3>1
      <3>3. sessions'[at[q].session] = sessions[at[q].session]
        BY <1>6, <1>0, <3>1, <3>2, GetsOne
      <3>4. \/ limiters'[at[q].limiter].lastSeen = limiters[at[q].limiter].lastSeen
            \/ limiters'[at[q].limiter].lastSeen = now
        BY <1>6, <1>0, <3>1, GetsOne
      <3>5. /\ limiters[at[q].limiter].lastSeen <= now
            /\ limiters[at[q].limiter].lastSeen \in Time
        BY <1>t, <1>0, <3>1 DEF IInv, Stamped, Limiter
      <3>6. at[q].got <= now
        BY <1>t, <1>0, <3>1, <3>5 DEF Time
      <3> QED
        BY <1>0, <2>1, <3>1, <3>3, <3>4, <3>6
    <2> QED
      BY <2>2, <2>3
  <1> QED
    BY <1>1, <1>2, <1>3, <1>4, <1>5, <1>6, NextCases

LEMMA UnsharedNext == IInv /\ [Next]_vars => Unshared'
  <1> SUFFICES ASSUME IInv, [Next]_vars
               PROVE  Unshared'
    OBVIOUS
  <1>t. made \in Nat /\ sessions \in [Sessions -> 0..made] /\ Unshared
    BY DEF IInv, TypeOK
  <1>1. CASE Cleanup
    BY <1>t, <1>1 DEF Cleanup, Unshared
  <1>2. CASE UNCHANGED sessions
    BY <1>t, <1>2 DEF Unshared
  <1>3. ASSUME NEW r \in Requests, NEW s \in Sessions, NEW e \in Endpoints,
               Get(r, s, e)
        PROVE  Unshared'
    <2>1. CASE sessions[s] # 0
      BY <1>3, <2>1, <1>2, GetsOne
    <2>2. CASE sessions[s] = 0
      <3>1. /\ sessions'[s] = made + 1
            /\ \A q \in Sessions : q # s => sessions'[q] = sessions[q]
        BY <1>3, <2>2, GetsOne
      <3>2. \A q \in Sessions : q # s => sessions'[q] # made + 1
        BY <1>t, <3>1
      <3> QED
        BY <1>t, <3>1, <3>2 DEF Unshared
    <2> QED
      BY <2>1, <2>2
  <1> QED
    BY <1>1, <1>2, <1>3, NextCases DEF Tick, Observe, Allow, vars

LEMMA InvNext == IInv /\ [Next]_vars => IInv'
  BY TypeNext, StampedNext, HeldNext, UnsharedNext DEF IInv

LEMMA InvCorrect == Spec => []IInv
  <1>1. Init => IInv
    BY TypeInit, InvInit DEF IInv
  <1> QED
    BY <1>1, InvNext, PTL DEF Spec

\* The buckets of every limiter, forgotten or not, hold no more than their
\* burst, and requests hold limiters that exist.
THEOREM TypeCorrect == Spec => []TypeOK
  <1>1. IInv => TypeOK
    BY DEF IInv
  <1> QED
    BY <1>1, InvCorrect, PTL

\* Although cleanup and the making of limiters come between a request's lookup
\* and its use of what it found, no two requests of a session ever spend from
\* different limiters.
THEOREM OneLimiterCorrect == Spec => []OneLimiter
  <1>1. IInv => OneLimiter
    BY DEF IInv, Held, OneLimiter
  <1> QED
    BY <1>1, InvCorrect, PTL

-----------------------------------------------------------------------------
(* The refinement.                                                         *)

\* What a request would find in one bucket.
Found(s, e) ==
    IF sessions[s] = 0 THEN Burst[e] ELSE Refilled(limiters[sessions[s]], e)

LEMMA AvailableIs ==
    /\ Available = [b \in Buckets |-> Available[b]]
    /\ Available' = [b \in Buckets |-> Available'[b]]
    /\ \A b \in Buckets : \E s \in Sessions, e \in Endpoints :
        /\ b = <<s, e>> /\ b[1] = s /\ b[2] = e
        /\ Available[b] = Found(s, e) /\ Available'[b] = Found(s, e)'
  BY DEF Available, Buckets, Found

\* What is available does not change if no bucket changes.
LEMMA AvailableSame ==
    ASSUME \A s \in Sessions, e \in Endpoints : Found(s, e)' = Found(s, e)
    PROVE  Available' = Available
  <1>1. \A b \in Buckets : Available'[b] = Available[b]
    BY AvailableIs
  <1> QED
    BY <1>1, AvailableIs

LEMMA FoundTyped ==
    ASSUME IInv, NEW s \in Sessions, NEW e \in Endpoints
    PROVE  Found(s, e) \in Nat /\ Found(s, e) <= Burst[e]
  <1>1. CASE sessions[s] = 0
    BY <1>1, ConstantsTyped DEF Found
  <1>2. CASE sessions[s] # 0
    <2>1. sessions[s] \in 1..made
      BY <1>2 DEF IInv, TypeOK
    <2> QED
      BY <1>2, <2>1, RefilledTyped DEF Found
  <1> QED
    BY <1>1, <1>2

\* Time passing is a Pass of the buckets.
LEMMA TickPasses ==
    ASSUME IInv, Tick
    PROVE  Ideal!Pass
  <1>1. ASSUME NEW s \in Sessions, NEW e \in Endpoints
        PROVE  Found(s, e)' = Least(Burst[e], Found(s, e) + Rate[e])
    <2>1. sessions' = sessions /\ limiters' = limiters /\ now' = now + 1
      BY DEF Tick
    <2>2. CASE sessions[s] = 0
      BY <2>1, <2>2, ConstantsTyped DEF Found, Least
    <2>3. CASE sessions[s] # 0
      <3>1. sessions[s] \in 1..made
        BY <2>3 DEF IInv, TypeOK
      <3> QED
        BY <2>1, <2>3, <3>1, RefilledLater DEF Found
    <2> QED
      BY <2>2, <2>3
  <1>2. \A b \in Buckets :
            Available'[b] = Least(Burst[b[2]], Available[b] + Rate[b[2]])
    BY <1>1, AvailableIs
  <1>3. Available' = [b \in Buckets |->
                        Least(Burst[b[2]], Available[b] + Rate[b[2]])]
    BY <1>2, AvailableIs
  <1> QED
    BY <1>3 DEF Tick, Ideal!Pass, Ideal!Least, Least

\* Dropping idle limiters changes nothing: they were full.
LEMMA CleanupStutters ==
    ASSUME IInv, Cleanup
    PROVE  UNCHANGED Ideal!bucketVars
  <1>1. ASSUME NEW s \in Sessions, NEW e \in Endpoints
        PROVE  Found(s, e)' = Found(s, e)
    <2>1. /\ sessions'[s] = IF sessions[s] # 0 /\ IsIdle(limiters[sessions[s]])
                            THEN 0 ELSE sessions[s]
          /\ limiters' = limiters /\ now' = now
      BY DEF Cleanup
    <2>2. CASE sessions[s] # 0 /\ IsIdle(limiters[sessions[s]])
      <3>1. sessions[s] \in 1..made
        BY <2>2 DEF IInv, TypeOK
      <3>2. Found(s, e) = Burst[e]
        BY <2>2, <3>1, IdleIsFull DEF Found
      <3> QED
        BY <2>1, <2>2, <3>2 DEF Found
    <2>3. CASE ~(sessions[s] # 0 /\ IsIdle(limiters[sessions[s]]))
      BY <2>1, <2>3 DEF Found, Refilled
    <2> QED
      BY <2>2, <2>3
  <1> QED
    BY <1>1, AvailableSame DEF Cleanup, Ideal!bucketVars

\* Finding a limiter changes nothing, nor does making one: it is full.
LEMMA GetStutters ==
    ASSUME IInv, NEW r \in Requests, NEW q \in Sessions, NEW d \in Endpoints,
           Get(r, q, d)
    PROVE  UNCHANGED Ideal!bucketVars
  <1>n. now' = now
    BY DEF Get
  <1>1. ASSUME NEW s \in Sessions, NEW e \in Endpoints
        PROVE  Found(s, e)' = Found(s, e)
    <2>1. CASE sessions[s] # 0
      <3>1. sessions'[s] = sessions[s] /\ sessions[s] \in 1..made
        BY <2>1, GetsOne DEF IInv, TypeOK
      <3>2. /\ limiters'[sessions[s]].tokens = limiters[sessions[s]].tokens
            /\ limiters'[sessions[s]].lastRefill = limiters[sessions[s]].lastRefill
        BY <3>1, GetsOne
      <3> QED
        BY <1>n, <2>1, <3>1, <3>2 DEF Found, Refilled
    <2>2. CASE sessions[s] = 0 /\ s # q
      BY <2>2, GetsOne DEF Found
    <2>3. CASE sessions[s] = 0 /\ s = q
      <3>1. /\ sessions'[s] = made + 1 /\ made \in Nat
            /\ limiters'[made + 1] = NewSessionLimiter
        BY <2>3, GetsOne DEF IInv, TypeOK
      <3>2. Found(s, e)' = Least(Burst[e], Burst[e] + (now - now) * Rate[e])
        BY <1>n, <3>1 DEF Found, Refilled, NewSessionLimiter
      <3>3. (now - now) * Rate[e] = 0
        <4>1. now - now = 0
          BY DEF IInv, TypeOK, Time
        <4> QED
          BY <4>1, NoneYet, ConstantsTyped
      <3> QED
        BY <2>3, <3>2, <3>3, ConstantsTyped DEF Found, Least
    <2> QED
      BY <2>1, <2>2, <2>3
  <1> QED
    BY <1>1, AvailableSame DEF Get, Ideal!bucketVars

\* A request that is let pass or refused takes a Grant or a Refuse of its own
\* session's bucket, which no other request sees on another limiter.
LEMMA AllowDecides ==
    ASSUME IInv, NEW r \in Requests, Allow(r)
    PROVE  \E b \in Buckets : Ideal!Grant(b) \/ Ideal!Refuse(b)
  <1>1. PICK s \in Sessions, e \in Endpoints, o \in 1..made,
                t \in Nat, u \in Nat :
                AllowOn(r, s, e, o, t, u)
    BY AllowsOne
  <1> DEFINE b == <<s, e>>
  <1>2. b \in Buckets
    BY DEF Buckets
  <1>3. /\ now' = now /\ sessions' = sessions /\ since' = since
        /\ sessions \in [Sessions -> 0..made] /\ made \in Nat
        /\ limiters \in [1..made -> Limiter] /\ now \in Time /\ Unshared
    BY DEF Allow, IInv, TypeOK
  <1>4. /\ sessions[s] = o /\ sessions[s] # 0
        /\ t = Found(s, e) /\ t \in Nat /\ u \in Nat /\ u <= Burst[e]
        /\ u = IF t < Cost THEN t ELSE t - Cost
    BY <1>1 DEF AllowOn, Found
  <1>5. Found(s, e)' = u
    <2>1. /\ limiters'[o].tokens = [limiters[o].tokens EXCEPT ![e] = u]
          /\ limiters'[o].lastRefill = [limiters[o].lastRefill EXCEPT ![e] = now]
      BY <1>1 DEF AllowOn
    <2>2. limiters'[o].tokens[e] = u /\ limiters'[o].lastRefill[e] = now
      BY <1>3, <2>1 DEF Limiter
    <2>3. (now - now) * Rate[e] = 0
      <3>1. now - now = 0
        BY <1>3 DEF Time
      <3> QED
        BY <3>1, NoneYet, ConstantsTyped
    <2>4. Found(s, e)' = Least(Burst[e], u + (now - now) * Rate[e])
      BY <1>3, <1>4, <2>2 DEF Found, Refilled
    <2> QED
      BY <1>4, <2>3, <2>4, ConstantsTyped DEF Least
  <1>6. ASSUME NEW q \in Sessions, NEW d \in Endpoints, q # s \/ d # e
        PROVE  Found(q, d)' = Found(q, d)
    <2>1. CASE q # s
      <3>1. sessions[q] # 0 => sessions[q] \in 1..made /\ sessions[q] # o
        BY <1>3, <1>4, <2>1 DEF Unshared
      <3>2. sessions[q] # 0 => limiters'[sessions[q]] = limiters[sessions[q]]
        BY <1>1, <3>1 DEF AllowOn
      <3> QED
        BY <1>3, <3>2 DEF Found, Refilled
    <2>2. CASE q = s /\ d # e
      <3>1. /\ limiters'[o].tokens = [limiters[o].tokens EXCEPT ![e] = u]
            /\ limiters'[o].lastRefill = [limiters[o].lastRefill EXCEPT ![e] = now]
        BY <1>1 DEF AllowOn
      <3>2. /\ limiters'[o].tokens[d] = limiters[o].tokens[d]
            /\ limiters'[o].lastRefill[d] = limiters[o].lastRefill[d]
        BY <1>3, <2>2, <3>1 DEF Limiter
      <3> QED
        BY <1>3, <1>4, <2>2, <3>2 DEF Found, Refilled
    <2> QED
      BY <1>6, <2>1, <2>2
  <1>7. Available[b] = t /\ Available'[b] = u
    BY <1>2, <1>4, <1>5, AvailableIs
  <1>8. \A c \in Buckets : c # b => Available'[c] = Available[c]
    BY <1>6, AvailableIs
  <1>9. Available' = [Available EXCEPT ![b] = u]
    BY <1>2, <1>7, <1>8, AvailableIs
  <1>10. CASE t < Cost
    <2>1. /\ Available' = Available
      BY <1>4, <1>7, <1>9, <1>10, AvailableIs
    <2>2. refused' = [refused EXCEPT ![b] = @ + 1] /\ granted' = granted
      BY <1>1, <1>10 DEF Allow, AllowOn
    <2>3. Ideal!Refuse(b)
      BY <1>3, <1>7, <1>10, <2>1, <2>2 DEF Ideal!Refuse
    <2> QED
      BY <1>2, <2>3
  <1>11. CASE ~(t < Cost)
    <2>1. Available' = [Available EXCEPT ![b] = Available[b] - Cost]
      BY <1>4, <1>7, <1>9, <1>11
    <2>2. granted' = [granted EXCEPT ![b] = @ + 1] /\ refused' = refused
      BY <1>1, <1>11 DEF Allow, AllowOn
    <2>3. t >= Cost
      BY <1>4, <1>11, ConstantsTyped
    <2>4. Ideal!Grant(b)
      BY <1>3, <1>7, <2>1, <2>2, <2>3 DEF Ideal!Grant
    <2> QED
      BY <1>2, <2>4
  <1> QED
    BY <1>10, <1>11

LEMMA InitRefines ==
    ASSUME Init
    PROVE  Ideal!BucketInit
  <1>1. ASSUME NEW b \in Buckets PROVE Available[b] = Burst[b[2]]
    BY AvailableIs DEF Init, Found
  <1>2. Available = [b \in Buckets |-> Burst[b[2]]]
    BY <1>1, AvailableIs
  <1> QED
    BY <1>2 DEF Init, Ideal!BucketInit

LEMMA NextRefines ==
    ASSUME IInv, [Next]_vars
    PROVE  [Ideal!BucketNext]_(Ideal!bucketVars)
  <1>1. CASE Tick
    BY <1>1, TickPasses DEF Ideal!BucketNext
  <1>2. CASE Cleanup
    BY <1>2, CleanupStutters
  <1>3. CASE Observe
    <2>1. \A s \in Sessions, e \in Endpoints : Found(s, e)' = Found(s, e)
      BY <1>3 DEF Observe, Found, Refilled
    <2> QED
      BY <1>3, <2>1, AvailableSame
      DEF Observe, Ideal!StartCounting, Ideal!BucketNext
  <1>4. CASE UNCHANGED vars
    <2>1. \A s \in Sessions, e \in Endpoints : Found(s, e)' = Found(s, e)
      BY <1>4 DEF vars, Found, Refilled
    <2> QED
      BY <1>4, <2>1, AvailableSame DEF vars, Ideal!bucketVars
  <1>5. ASSUME NEW r \in Requests, Allow(r)
        PROVE  Ideal!BucketNext
    BY <1>5, AllowDecides DEF Ideal!BucketNext
  <1>6. ASSUME NEW r \in Requests, NEW s \in Sessions, NEW e \in Endpoints,
               Get(r, s, e)
        PROVE  UNCHANGED Ideal!bucketVars
    BY <1>6, GetStutters
  <1> QED
    BY <1>1, <1>2, <1>3, <1>4, <1>5, <1>6, NextCases

\* Every behaviour of the limiter is one of buckets that are never forgotten:
\* dropping limiters after an hour and making them anew, at whatever moment
\* between the two steps of a request, cannot be noticed by any client.
THEOREM TokenBucketImplemented == Spec => ImplementsTokenBucket
  <1>1. Init => Ideal!BucketInit
    BY InitRefines
  <1>2. IInv /\ [Next]_vars => [Ideal!BucketNext]_(Ideal!bucketVars)
    BY NextRefines
  <1> QED
    BY <1>1, <1>2, InvCorrect, PTL DEF Spec, ImplementsTokenBucket, Ideal!BucketSpec

-----------------------------------------------------------------------------
(* What the abstract buckets promise, and with them the limiter.           *)

Full == [b \in Buckets |-> Burst[b[2]]]
Gain == [b \in Buckets |-> Rate[b[2]]]

LEMMA BucketConstants ==
    /\ Full \in [Buckets -> Nat]
    /\ Gain \in [Buckets -> Nat]
    /\ Cost \in Nat \ {0}
  BY RateLimiterAssumption DEF Full, Gain, Buckets

\* Products with a factor that grows by one.
LEMMA OneMoreTime ==
    ASSUME NEW k \in Nat, NEW n \in Int
    PROVE  k * (n + 1) = k * n + k
  OBVIOUS

LEMMA NothingYet == ASSUME NEW k \in Nat PROVE k * 0 = 0
  OBVIOUS

LEMMA ProductIsInt == ASSUME NEW k \in Nat, NEW n \in Int PROVE k * n \in Int
  OBVIOUS

LEMMA BucketTypeInit ==
    Ideal!BucketInit => Ideal!BucketTypeOK
  BY BucketConstants DEF Full, Gain, Ideal!BucketInit, Ideal!BucketTypeOK

LEMMA BucketTypeNext ==
    Ideal!BucketTypeOK /\ [Ideal!BucketNext]_(Ideal!bucketVars)
        => Ideal!BucketTypeOK'
  <1> SUFFICES ASSUME Ideal!BucketTypeOK, [Ideal!BucketNext]_(Ideal!bucketVars)
               PROVE  Ideal!BucketTypeOK'
    OBVIOUS
  <1>1. CASE Ideal!Pass
    BY <1>1, BucketConstants
    DEF Full, Gain, Ideal!BucketTypeOK, Ideal!Pass, Ideal!Least
  <1>2. CASE Ideal!StartCounting
    BY <1>2 DEF Full, Gain, Ideal!BucketTypeOK, Ideal!StartCounting
  <1>3. ASSUME NEW b \in Buckets, Ideal!Grant(b) PROVE Ideal!BucketTypeOK'
    <2>1. /\ Cost \in Nat /\ Available[b] \in Nat /\ Full[b] \in Nat
          /\ Available[b] >= Cost /\ Available[b] <= Full[b]
      BY <1>3, BucketConstants DEF Full, Gain, Ideal!BucketTypeOK, Ideal!Grant
    <2>2. Available[b] - Cost \in Nat /\ Available[b] - Cost <= Full[b]
      BY <2>1
    <2>3. /\ Available' \in [Buckets -> Nat]
          /\ \A d \in Buckets : Available'[d] <= Full[d]
      BY <1>3, <2>2 DEF Full, Gain, Ideal!BucketTypeOK, Ideal!Grant
    <2>4. granted' \in [Buckets -> Nat]
      BY <1>3 DEF Full, Gain, Ideal!BucketTypeOK, Ideal!Grant
    <2> QED
      BY <1>3, <2>3, <2>4 DEF Full, Gain, Ideal!BucketTypeOK, Ideal!Grant
  <1>4. ASSUME NEW b \in Buckets, Ideal!Refuse(b) PROVE Ideal!BucketTypeOK'
    BY <1>4 DEF Full, Gain, Ideal!BucketTypeOK, Ideal!Refuse
  <1>5. CASE UNCHANGED Ideal!bucketVars
    BY <1>5 DEF Full, Gain, Ideal!BucketTypeOK, Ideal!bucketVars
  <1> QED
    BY <1>1, <1>2, <1>3, <1>4, <1>5 DEF Ideal!BucketNext

\* A bucket never holds more than its burst.
THEOREM BucketTypeCorrect ==
    Ideal!BucketSpec => []Ideal!BucketTypeOK
  BY BucketTypeInit, BucketTypeNext, PTL DEF Ideal!BucketSpec

LEMMA PaidInit ==
    Ideal!BucketInit => Ideal!Paid
  <1> SUFFICES ASSUME Ideal!BucketInit, NEW b \in Buckets
               PROVE  Cost * granted[b] + Available[b] <= Full[b] + Gain[b] * (now - since)
    BY DEF Full, Gain, Ideal!Paid
  <1>1. granted[b] = 0 /\ Available[b] = Full[b] /\ now - since = 0
    BY DEF Full, Gain, Ideal!BucketInit
  <1>2. Cost * 0 = 0 /\ Gain[b] * 0 = 0
    BY NothingYet, BucketConstants DEF Full, Gain
  <1> QED
    BY <1>1, <1>2, BucketConstants DEF Full, Gain

LEMMA PaidNext ==
    Ideal!BucketTypeOK /\ Ideal!Paid /\ [Ideal!BucketNext]_(Ideal!bucketVars)
        => Ideal!Paid'
  <1> SUFFICES ASSUME Ideal!BucketTypeOK, Ideal!Paid,
                      [Ideal!BucketNext]_(Ideal!bucketVars), NEW b \in Buckets
               PROVE  (Cost * granted[b] + Available[b]
                         <= Full[b] + Gain[b] * (now - since))'
    BY DEF Full, Gain, Ideal!Paid
  <1>t. /\ Cost \in Nat /\ Full[b] \in Nat /\ Gain[b] \in Nat
        /\ granted[b] \in Nat /\ Available[b] \in Nat /\ Available[b] <= Full[b]
        /\ now \in Nat /\ since \in Nat /\ now - since \in Int
    BY BucketConstants DEF Full, Gain, Ideal!BucketTypeOK
  <1>i. Cost * granted[b] + Available[b] <= Full[b] + Gain[b] * (now - since)
    BY DEF Full, Gain, Ideal!Paid
  <1>p. Cost * granted[b] \in Int /\ Gain[b] * (now - since) \in Int
    BY <1>t, ProductIsInt
  <1>1. CASE Ideal!Pass
    <2>1. /\ granted' = granted
          /\ Available'[b] <= Available[b] + Gain[b] /\ Available'[b] \in Int
          /\ now' - since' = (now - since) + 1
      BY <1>1, <1>t DEF Full, Gain, Ideal!Pass, Ideal!Least
    <2>2. Gain[b] * ((now - since) + 1) = Gain[b] * (now - since) + Gain[b]
      BY <1>t, OneMoreTime
    <2> QED
      BY <1>t, <1>i, <1>p, <2>1, <2>2
  <1>2. CASE Ideal!StartCounting
    <2>1. granted'[b] = 0 /\ Available' = Available /\ now' - since' = 0
      BY <1>2, <1>t DEF Ideal!StartCounting
    <2>2. Cost * 0 = 0 /\ Gain[b] * 0 = 0
      BY <1>t, NothingYet
    <2> QED
      BY <1>t, <2>1, <2>2
  <1>3. ASSUME NEW d \in Buckets, Ideal!Grant(d)
        PROVE  (Cost * granted[b] + Available[b]
                  <= Full[b] + Gain[b] * (now - since))'
    <2>1. CASE d = b
      <3>1. /\ granted'[b] = granted[b] + 1 /\ Available'[b] = Available[b] - Cost
            /\ now' = now /\ since' = since
        BY <1>3, <2>1 DEF Full, Gain, Ideal!Grant, Ideal!BucketTypeOK
      <3>2. Cost * (granted[b] + 1) = Cost * granted[b] + Cost
        BY <1>t, OneMoreTime
      <3> QED
        BY <1>t, <1>i, <1>p, <3>1, <3>2
    <2>2. CASE d # b
      <3>1. /\ granted'[b] = granted[b] /\ Available'[b] = Available[b]
            /\ now' = now /\ since' = since
        BY <1>3, <2>2 DEF Full, Gain, Ideal!Grant, Ideal!BucketTypeOK
      <3> QED
        BY <1>i, <3>1
    <2> QED
      BY <2>1, <2>2
  <1>4. ASSUME NEW d \in Buckets, Ideal!Refuse(d)
        PROVE  (Cost * granted[b] + Available[b]
                  <= Full[b] + Gain[b] * (now - since))'
    BY <1>4, <1>i DEF Full, Gain, Ideal!Refuse
  <1>5. CASE UNCHANGED Ideal!bucketVars
    BY <1>5, <1>i DEF Ideal!bucketVars
  <1> QED
    BY <1>1, <1>2, <1>3, <1>4, <1>5 DEF Ideal!BucketNext

\* In every interval, whenever it starts, the grants of a bucket are paid for by
\* a full bucket and what it gained since.
THEOREM PaidCorrect ==
    Ideal!BucketSpec => []Ideal!Paid
  <1>1. Ideal!BucketInit => Ideal!BucketTypeOK /\ Ideal!Paid
    BY BucketTypeInit, PaidInit
  <1>2. Ideal!BucketTypeOK /\ Ideal!Paid /\ [Ideal!BucketNext]_(Ideal!bucketVars)
            => (Ideal!BucketTypeOK /\ Ideal!Paid)'
    BY BucketTypeNext, PaidNext
  <1> QED
    BY <1>1, <1>2, PTL DEF Ideal!BucketSpec

\* The bound a caller can rely on.
THEOREM WindowBoundCorrect ==
    Ideal!BucketSpec => []Ideal!WindowBound
  <1>1. Ideal!BucketTypeOK /\ Ideal!Paid => Ideal!WindowBound
    <2> SUFFICES ASSUME Ideal!BucketTypeOK, Ideal!Paid, NEW b \in Buckets
                 PROVE  Cost * granted[b] <= Full[b] + Gain[b] * (now - since)
      BY DEF Full, Gain, Ideal!WindowBound
    <2>1. /\ Cost \in Nat /\ Full[b] \in Nat /\ Gain[b] \in Nat
          /\ granted[b] \in Nat /\ Available[b] \in Nat /\ now - since \in Int
      BY BucketConstants DEF Full, Gain, Ideal!BucketTypeOK
    <2>2. Cost * granted[b] \in Int /\ Gain[b] * (now - since) \in Int
      BY <2>1, ProductIsInt
    <2>3. Cost * granted[b] + Available[b] <= Full[b] + Gain[b] * (now - since)
      BY DEF Full, Gain, Ideal!Paid
    <2> QED
      BY <2>1, <2>2, <2>3
  <1> QED
    BY <1>1, BucketTypeCorrect, PaidCorrect, PTL

\* In every interval, whenever it starts, a session is granted at most its
\* burst and its gain, also when its limiter is dropped and made anew within it.
THEOREM GrantsBoundedCorrect == Spec => []GrantsBounded
  <1>1. Spec => Ideal!BucketSpec
    BY TokenBucketImplemented DEF ImplementsTokenBucket
  <1>2. Ideal!WindowBound => GrantsBounded
    BY DEF GrantsBounded
  <1> QED
    BY <1>1, <1>2, WindowBoundCorrect, PTL
=============================================================================
