------------------------------ MODULE Sessions ------------------------------
(***************************************************************************)
(* Sessions of the terminals and the device flow that creates them: the    *)
(* sessions and device_flows tables of internal/storage/sqlite.go, the     *)
(* handlers of internal/api/server.go that read and revoke sessions and    *)
(* answer the polls, and the OAuth callback and the clean-up goroutines of *)
(* cmd/main.go.                                                            *)
(*                                                                         *)
(* A token stands for both the raw session token and its hash.  It is      *)
(* random, so one run of the callback makes a token that no other makes:   *)
(* login[t] is that run.  A step is one operation of the store, which runs *)
(* under its mutex, with what the caller does up to the next one.  The     *)
(* goroutine that GetSessionByHash leaves behind to write last_seen_at is  *)
(* a step of its own.                                                      *)
(*                                                                         *)
(* main.go 283 says where the callback should be registered; no route of   *)
(* this commit leads to it, so as it stands a flow stays pending.  Here    *)
(* the frontend calls it.                                                  *)
(*                                                                         *)
(* The database compares times as text.  What Go writes there is the local *)
(* time; datetime('now') is UTC.  Offset is by how much local time is      *)
(* ahead, and negative west of UTC.                                        *)
(***************************************************************************)
EXTENDS Integers, FiniteSets

CONSTANTS
    Users,            \* Discord users
    Tokens,           \* session tokens, one for each login
    Flows,            \* device codes
    Nothing,          \* no row, no token, no user
    MaxSessions,      \* the 5 of SaveSession
    SessionDuration,  \* auth.SessionDuration, 24 hours
    FlowDuration,     \* 15 minutes
    IdleLimit,        \* 7 days
    Offset,           \* local time minus UTC
    MaxTime,          \* bound: the time at which the clock stops
    MaxPolls,         \* bound: polls that are answered with one token
    MaxTouches,       \* bound: goroutines at a time that update one session
    MaxStoreErrors,   \* bound: store operations that fail
    MaxRestarts       \* bound: restarts of the relay

\* Rows of the two tables.
Session == [user : Users, expires : Nat, seen : 0..MaxTime]
DeviceFlow == [expires : Nat, status : {"pending", "authorized"},
               token : Tokens \cup {Nothing}]

ASSUME SessionsAssumption ==
    /\ {MaxSessions, SessionDuration, FlowDuration, IdleLimit} \subseteq Nat \ {0}
    /\ FlowDuration <= SessionDuration /\ SessionDuration <= IdleLimit
    /\ Nothing \notin Users \cup Tokens \cup Session \cup DeviceFlow
    /\ IsFiniteSet(Tokens)
    /\ Offset \in Int
    /\ {MaxTime, MaxPolls, MaxTouches, MaxStoreErrors, MaxRestarts} \subseteq Nat

VARIABLES
    now,
    rows,         \* rows[t]: the row of the sessions table for token t
    flows,        \* flows[f]: the row of the device_flows table
    issued,       \* device codes that were made
    login,        \* login[t]: the callback that makes token t
    touches,      \* touches[t]: goroutines that will update last_seen_at
    revoking,     \* tokens of requests between AuthMiddleware and DeleteSession
    given,        \* given[t]: polls that were answered with t
    used,         \* used[t]: when a request last found session t
    storeErrors, restarts

vars == <<now, rows, flows, issued, login, touches, revoking, given, used,
          storeErrors, restarts>>

NewLogin == [stage |-> "none", flow |-> Nothing, user |-> Nothing]

TypeOK ==
    /\ now \in 0..MaxTime
    /\ rows \in [Tokens -> Session \cup {Nothing}]
    /\ flows \in [Flows -> DeviceFlow \cup {Nothing}]
    /\ issued \subseteq Flows
    /\ login \in [Tokens -> [stage : {"none", "save", "update", "done"},
                             flow : Flows \cup {Nothing},
                             user : Users \cup {Nothing}]]
    /\ touches \in [Tokens -> 0..MaxTouches]
    /\ revoking \subseteq Tokens
    /\ given \in [Tokens -> 0..MaxPolls]
    /\ used \in [Tokens -> 0..MaxTime]
    /\ storeErrors \in 0..MaxStoreErrors
    /\ restarts \in 0..MaxRestarts

\* The first start on an empty database.
Init ==
    /\ now = 0
    /\ rows = [t \in Tokens |-> Nothing]
    /\ flows = [f \in Flows |-> Nothing]
    /\ issued = {}
    /\ login = [t \in Tokens |-> NewLogin]
    /\ touches = [t \in Tokens |-> 0]
    /\ revoking = {}
    /\ given = [t \in Tokens |-> 0]
    /\ used = [t \in Tokens |-> 0]
    /\ storeErrors = 0
    /\ restarts = 0

-----------------------------------------------------------------------------
(* Helpers.                                                                *)

Held == {t \in Tokens : rows[t] # Nothing}

SessionsOf(u) == {t \in Held : rows[t].user = u}

\* Sets of k sessions of S that ORDER BY last_seen_at ASC can put first.
FirstSeen(S, k) ==
    {V \in SUBSET S : /\ Cardinality(V) = k
                      /\ \A v \in V, w \in S \ V : rows[v].seen <= rows[w].seen}

EvictOnlyOne(u) ==
    LET mine == SessionsOf(u)
    IN  IF Cardinality(mine) >= MaxSessions THEN FirstSeen(mine, 1) ELSE {{}}

\* Sets of sessions that SaveSession can delete to make room for one of u.
Evictions(u) ==
    LET mine == SessionsOf(u)
    IN  IF Cardinality(mine) >= MaxSessions
        THEN FirstSeen(mine, Cardinality(mine) - (MaxSessions - 1))
        ELSE {{}}

Delete(table, S) == [x \in DOMAIN table |-> IF x \in S THEN Nothing ELSE table[x]]

\* Can a callback still make token t, which is random?
Fresh(t) == login[t].stage = "none"

\* The row of a flow that has just been started.
NewFlow == [expires |-> now + FlowDuration, status |-> "pending", token |-> Nothing]

\* GetDeviceFlow finds f, which has not expired and has been authorized.
Answerable(f) ==
    /\ flows[f] # Nothing
    /\ now <= flows[f].expires
    /\ flows[f].status = "authorized"

StoreError == storeErrors < MaxStoreErrors /\ storeErrors' = storeErrors + 1

LoginAt(t, stage) == login' = [login EXCEPT ![t].stage = stage]

-----------------------------------------------------------------------------
(* The device flow.                                                        *)

\* PostDeviceAuthorize: the flow that makeDeviceFlowFn saves.
Authorize(f) ==
    /\ f \notin issued
    /\ flows' = [flows EXCEPT ![f] = NewFlow]
    /\ issued' = issued \cup {f}
    /\ UNCHANGED <<now, rows, login, touches, revoking, given, used,
                   storeErrors, restarts>>

\* The callback as it would be with the flow updated before the session is saved.
UpdateFlowFirst(t, f, u) ==
    /\ f \in issued
    /\ Fresh(t)
    /\ login' = [login EXCEPT ![t] = [stage |-> "save", flow |-> f, user |-> u]]
    /\ flows' = IF flows[f] = Nothing THEN flows
                ELSE [flows EXCEPT ![f].status = "authorized", ![f].token = t]
    /\ UNCHANGED <<now, rows, issued, touches, revoking, given, used,
                   storeErrors, restarts>>

\* The web frontend calls back for f, for which user u has logged in.  Once the
\* code is exchanged the handler has a new token; before that it changes nothing.
Callback(t, f, u) ==
    /\ f \in issued
    /\ Fresh(t)
    /\ login' = [login EXCEPT ![t] = [stage |-> "save", flow |-> f, user |-> u]]
    /\ UNCHANGED <<now, rows, flows, issued, touches, revoking, given, used,
                   storeErrors, restarts>>

SwapTimes(table, t) ==
    [table EXCEPT ![t] = [user |-> login[t].user,
                          expires |-> now, seen |-> now + SessionDuration]]

\* The row for token t, just made.
Inserted(table, t) ==
    [table EXCEPT ![t] = [user |-> login[t].user,
                          expires |-> now + SessionDuration, seen |-> now]]

\* SaveSession makes room and inserts the session.
SaveSession(t) ==
    /\ login[t].stage = "save"
    /\ \E V \in Evictions(login[t].user) : rows' = Inserted(Delete(rows, V), t)
    /\ used' = [used EXCEPT ![t] = now]
    /\ LoginAt(t, "update")
    /\ UNCHANGED <<now, flows, issued, touches, revoking, given, storeErrors,
                   restarts>>

\* The errors of the count and of the deletion are ignored, so the session is
\* inserted beside those that are there ...
SaveBeyondLimit(t) ==
    /\ login[t].stage = "save"
    /\ StoreError
    /\ rows' = Inserted(rows, t)
    /\ used' = [used EXCEPT ![t] = now]
    /\ LoginAt(t, "update")
    /\ UNCHANGED <<now, flows, issued, touches, revoking, given, restarts>>

\* ... and if the insertion fails the callback reports that, with what was
\* deleted gone.
SaveFails(t) ==
    /\ login[t].stage = "save"
    /\ StoreError
    /\ \E V \in Evictions(login[t].user) : rows' = Delete(rows, V)
    /\ LoginAt(t, "done")
    /\ UNCHANGED <<now, flows, issued, touches, revoking, given, used,
                   restarts>>

\* UpdateDeviceFlow: an UPDATE, which finds nothing when the flow was cleaned
\* up.  Neither status nor expiry is looked at, and an error is only logged.
UpdateDeviceFlow(t) ==
    /\ login[t].stage = "update"
    /\ LET f == login[t].flow
       IN  \/ /\ flows' = IF flows[f] = Nothing THEN flows
                          ELSE [flows EXCEPT ![f].status = "authorized",
                                             ![f].token = t]
              /\ UNCHANGED storeErrors
           \/ StoreError /\ UNCHANGED flows
    /\ LoginAt(t, "done")
    /\ UNCHANGED <<now, rows, issued, touches, revoking, given, used,
                   restarts>>

\* PostDeviceToken: a poll that is answered with the token.  The others change
\* nothing.
Poll(f) ==
    /\ Answerable(f)
    /\ given[flows[f].token] < MaxPolls
    /\ given' = [given EXCEPT ![flows[f].token] = @ + 1]
    /\ UNCHANGED <<now, rows, flows, issued, login, touches, revoking, used,
                   storeErrors, restarts>>

-----------------------------------------------------------------------------
(* The use of a session.                                                   *)

\* GetSessionByHash finds the session a terminal names and starts the goroutine
\* that will update it, whether the session has expired or not.
Lookup(t) ==
    /\ given[t] > 0
    /\ rows[t] # Nothing
    /\ touches[t] < MaxTouches
    /\ touches' = [touches EXCEPT ![t] = @ + 1]
    /\ used' = [used EXCEPT ![t] = now]

Expired(t) == now > rows[t].expires

\* AuthMiddleware of a request that leaves the session alone; it is refused if
\* the session has expired.
Use(t) ==
    /\ Lookup(t)
    /\ UNCHANGED <<now, rows, flows, issued, login, revoking, given,
                   storeErrors, restarts>>

\* AuthMiddleware lets a request for PostRevokeSession pass.
BeginRevoke(t) ==
    /\ Lookup(t)
    /\ ~Expired(t)
    /\ revoking' = revoking \cup {t}
    /\ UNCHANGED <<now, rows, flows, issued, login, given, storeErrors,
                   restarts>>

\* DeleteSession; if it fails the caller is told.
DeleteSession(t) ==
    /\ t \in revoking
    /\ \/ rows' = Delete(rows, {t}) /\ UNCHANGED storeErrors
       \/ StoreError /\ UNCHANGED rows
    /\ revoking' = revoking \ {t}
    /\ UNCHANGED <<now, flows, issued, login, touches, given, used, restarts>>

TouchUpserts(t) ==
    /\ touches[t] > 0
    /\ rows' = [rows EXCEPT ![t] = [user |-> login[t].user,
                                    expires |-> now + SessionDuration,
                                    seen |-> now]]
    /\ touches' = [touches EXCEPT ![t] = @ - 1]
    /\ UNCHANGED <<now, flows, issued, login, revoking, given, used,
                   storeErrors, restarts>>

TouchForgets(t) ==
    /\ touches[t] > 0
    /\ touches' = [touches EXCEPT ![t] = @ - 1]
    /\ UNCHANGED <<now, rows, flows, issued, login, revoking, given, used,
                   storeErrors, restarts>>

\* The goroutine of GetSessionByHash gets the store's mutex: an UPDATE with the
\* time of that moment, whose error is ignored.
Touch(t) ==
    /\ touches[t] > 0
    /\ \/ /\ rows' = IF rows[t] = Nothing THEN rows
                     ELSE [rows EXCEPT ![t].seen = now]
          /\ UNCHANGED storeErrors
       \/ StoreError /\ UNCHANGED rows
    /\ touches' = [touches EXCEPT ![t] = @ - 1]
    /\ UNCHANGED <<now, flows, issued, login, revoking, given, used,
                   restarts>>

-----------------------------------------------------------------------------
(* Clean-up, the clock, and the specification.                             *)

\* A time that was written as local time is below another one in UTC.
Below(written, utc) == written + Offset < utc

AheadNotAgo(t) == Below(rows[t].expires, now) \/ Below(rows[t].seen, now + IdleLimit)

Stale(t) == Below(rows[t].expires, now) \/ Below(rows[t].seen, now - IdleLimit)

\* CleanupSessions, by the ticker of main.  An error changes nothing and the
\* next tick tries again, which is a stuttering step here.
CleanupSessions ==
    /\ rows' = Delete(rows, {t \in Held : Stale(t)})
    /\ UNCHANGED <<now, flows, issued, login, touches, revoking, given, used,
                   storeErrors, restarts>>

CleanupByCreation ==
    /\ flows' = Delete(flows, {f \in Flows : /\ flows[f] # Nothing
                              /\ Below(flows[f].expires - FlowDuration, now)})
    /\ UNCHANGED <<now, rows, issued, login, touches, revoking, given, used,
                   storeErrors, restarts>>

\* CleanupDeviceFlows, by the same ticker and by pollDeviceFlows.
CleanupDeviceFlows ==
    /\ flows' = Delete(flows, {f \in Flows : /\ flows[f] # Nothing
                                             /\ Below(flows[f].expires, now)})
    /\ UNCHANGED <<now, rows, issued, login, touches, revoking, given, used,
                   storeErrors, restarts>>

Tick ==
    /\ now < MaxTime
    /\ now' = now + 1
    /\ UNCHANGED <<rows, flows, issued, login, touches, revoking, given, used,
                   storeErrors, restarts>>

\* The process ends and starts again: the tables stay, goroutines do not.
Restart ==
    /\ restarts < MaxRestarts
    /\ restarts' = restarts + 1
    /\ login' = [t \in Tokens |-> IF login[t].stage = "none" THEN login[t]
                                  ELSE [login[t] EXCEPT !.stage = "done"]]
    /\ touches' = [t \in Tokens |-> 0]
    /\ revoking' = {}
    /\ UNCHANGED <<now, rows, flows, issued, given, used, storeErrors>>

LoginStep(t) ==
    \/ \E f \in Flows, u \in Users : Callback(t, f, u)
    \/ SaveSession(t) \/ SaveBeyondLimit(t) \/ SaveFails(t)
    \/ UpdateDeviceFlow(t)

SessionStep(t) == Use(t) \/ BeginRevoke(t) \/ DeleteSession(t) \/ Touch(t)

FlowStep(f) == Authorize(f) \/ Poll(f)

Next ==
    \/ \E t \in Tokens : LoginStep(t) \/ SessionStep(t)
    \/ \E f \in Flows : FlowStep(f)
    \/ CleanupSessions \/ CleanupDeviceFlows
    \/ Tick \/ Restart

Spec == Init /\ [][Next]_vars

-----------------------------------------------------------------------------
(* Properties.                                                             *)

\* SaveSession brings its user back to MaxSessions sessions whenever it works,
\* however many there were: a deletion that failed before is made up for, which
\* is what "count-4" (sqlite.go 780) is for.
LimitRestored ==
    [][\A t \in Tokens :
        (rows[t] = Nothing /\ rows'[t] # Nothing /\ storeErrors' = storeErrors)
            => Cardinality({s \in Tokens : /\ rows'[s] # Nothing
                                           /\ rows'[s].user = rows'[t].user})
                 <= MaxSessions]_vars

\* A session that was revoked, evicted or cleaned up never comes back, although
\* a goroutine that updates last_seen_at (sqlite.go 816-823) may still be on its
\* way: a row appears only by the login that made the token, which comes once.
NoResurrection ==
    [][\A t \in Tokens : (rows[t] = Nothing /\ rows'[t] # Nothing)
            => login[t].stage = "save" /\ login'[t].stage = "update"]_vars

\* Does the callback of token n just now make room for a session of user u?
MakesRoom(n, u) ==
    /\ login[n].stage = "save" /\ login'[n].stage # "save"
    /\ login[n].user = u
    /\ Cardinality(SessionsOf(u)) >= MaxSessions

\* By how much the clean-up is early, where local time is behind UTC.
Early == IF Offset < 0 THEN -Offset ELSE 0

\* A session that its user has not revoked is not lost before it expires, less
\* the time by which local time is behind UTC (sqlite.go 845), unless the user
\* logs in once more with MaxSessions sessions open.
LostForCause ==
    [][\A t \in Held : rows'[t] = Nothing =>
            \/ now + Early > rows[t].expires
            \/ t \in revoking
            \/ \E n \in Tokens : MakesRoom(n, rows[t].user)]_vars

\* A pending or authorized flow is there for the terminal that polls until it
\* expires, less that time (sqlite.go 913).
FlowsKept ==
    [][\A f \in Flows : (flows[f] # Nothing /\ flows'[f] = Nothing)
            => now + Early > flows[f].expires]_vars

\* "CleanupDeviceFlows removes expired device flows" (sqlite.go 908), and no
\* others: a terminal can poll until the time it was told.
FlowsKeptUntilExpiry ==
    [][\A f \in Flows : (flows[f] # Nothing /\ flows'[f] = Nothing)
            => now > flows[f].expires]_vars

\* The token a poll is answered with opens a session: it was saved before the
\* flow named it, for the user who logged in, and outlives the flow, unless the
\* user has revoked it, or logged in so often that it was evicted.
TokenOpensSession ==
    \A f \in Flows :
        Answerable(f) =>
            LET t == flows[f].token
            IN  /\ login[t].flow = f
                /\ login[t].stage = "done"
                /\ rows[t] # Nothing => /\ rows[t].user = login[t].user
                                        /\ ~Expired(t)

\* Once no update is pending, last_seen_at is not before the last request that
\* used the session, so the eviction of the session seen longest ago and the
\* deletion of idle ones go by what really happened.
LastSeenCatchesUp ==
    (storeErrors = 0 /\ restarts = 0) =>
        \A t \in Held : touches[t] = 0 => rows[t].seen >= used[t]
=============================================================================
