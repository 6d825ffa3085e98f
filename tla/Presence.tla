------------------------------ MODULE Presence ------------------------------
(***************************************************************************)
(* The status a developer sets: PostStatus of internal/api/server.go and   *)
(* SetStatus and shouldDebounce of internal/presence/tracker.go, over the  *)
(* statuses table of internal/storage/sqlite.go and the hub's stream.      *)
(*                                                                         *)
(* Each request runs SetStatus on its own goroutine.  It reads the time of *)
(* the last such status under a read lock, writes it under the write lock, *)
(* stores the status under the store's mutex and broadcasts it: four steps *)
(* between which others run.  Users share nothing, so one user is          *)
(* modelled, who may have several terminals.                               *)
(***************************************************************************)
EXTENDS Integers

CONSTANTS
    Requests,        \* goroutines that run PostStatus
    Statuses,        \* texts a status can have
    Unset,           \* no status
    Debounce,        \* the 5 seconds of shouldDebounce
    MaxTime,         \* bound: the time at which the clock stops
    MaxStoreErrors   \* bound: store operations that fail

ASSUME PresenceAssumption ==
    /\ Unset \notin Statuses
    /\ Debounce \in Nat \ {0}
    /\ {MaxTime, MaxStoreErrors} \subseteq Nat

VARIABLES
    now,
    last,         \* last[v]: t.last of the user and status v; Never if absent
    row,          \* the user's row of the statuses table
    shown,        \* the last status_update of the user handed to the hub
    pc,           \* pc[r]: where request r is
    wanted,       \* wanted[r]: the status it sets
    held,         \* held[r]: the row has held wanted[r] since r began
    answer,       \* answer[r]: what PostStatus has answered
    storeErrors,
    crossed       \* history: a status was stored between the storing and the
                  \* announcing of another's

vars == <<now, last, row, shown, pc, wanted, held, answer, storeErrors, crossed>>

Never == -Debounce

TypeOK ==
    /\ now \in 0..MaxTime
    /\ last \in [Statuses -> {Never} \cup 0..MaxTime]
    /\ row \in Statuses \cup {Unset}
    /\ shown \in Statuses \cup {Unset}
    /\ pc \in [Requests -> {"idle", "check", "mark", "store", "broadcast"}]
    /\ wanted \in [Requests -> Statuses \cup {Unset}]
    /\ held \in [Requests -> BOOLEAN]
    /\ answer \in [Requests -> {"none", "updated", "failed"}]
    /\ storeErrors \in 0..MaxStoreErrors
    /\ crossed \in BOOLEAN

Init ==
    /\ now = 0
    /\ last = [v \in Statuses |-> Never]
    /\ row = Unset
    /\ shown = Unset
    /\ pc = [r \in Requests |-> "idle"]
    /\ wanted = [r \in Requests |-> Unset]
    /\ held = [r \in Requests |-> FALSE]
    /\ answer = [r \in Requests |-> "none"]
    /\ storeErrors = 0
    /\ crossed = FALSE

-----------------------------------------------------------------------------

Goto(r, l) == pc' = [pc EXCEPT ![r] = l]

\* PostStatus answers.
Answer(r, a) == Goto(r, "idle") /\ answer' = [answer EXCEPT ![r] = a]

\* A valid request arrives.
Begin(r, v) ==
    /\ pc[r] = "idle"
    /\ wanted' = [wanted EXCEPT ![r] = v]
    /\ held' = [held EXCEPT ![r] = row = v]
    /\ answer' = [answer EXCEPT ![r] = "none"]
    /\ Goto(r, "check")
    /\ UNCHANGED <<now, last, row, shown, storeErrors, crossed>>

\* shouldDebounce of the user and status v.
ShouldDebounce(v) == last[v] # Never /\ now - last[v] < Debounce

\* The check under the read lock; a debounced request is answered as if done.
Check(r) ==
    /\ pc[r] = "check"
    /\ IF ShouldDebounce(wanted[r])
       THEN Answer(r, "updated")
       ELSE Goto(r, "mark") /\ UNCHANGED answer
    /\ UNCHANGED <<now, last, row, shown, wanted, held, storeErrors, crossed>>

\* t.last is written, before anything is stored.
Mark(r) ==
    /\ pc[r] = "mark"
    /\ last' = [last EXCEPT ![wanted[r]] = now]
    /\ Goto(r, "store")
    /\ UNCHANGED <<now, row, shown, wanted, held, answer, storeErrors,
                   crossed>>

\* The store's SetStatus replaces the row; requests that want this status now
\* have it stored.
Store(r) ==
    /\ pc[r] = "store"
    /\ row' = wanted[r]
    /\ held' = [q \in Requests |-> held[q] \/ (pc[q] # "idle" /\ wanted[q] = row')]
    /\ crossed' = (crossed \/ \E q \in Requests : pc[q] = "broadcast")
    /\ Goto(r, "broadcast")
    /\ UNCHANGED <<now, last, shown, wanted, answer, storeErrors>>

BroadcastAnyway(r) ==
    /\ pc[r] = "store"
    /\ storeErrors < MaxStoreErrors
    /\ storeErrors' = storeErrors + 1
    /\ Goto(r, "broadcast")
    /\ UNCHANGED <<now, last, row, shown, wanted, held, answer, crossed>>

FailsQuietly(r) ==
    /\ pc[r] = "store"
    /\ storeErrors < MaxStoreErrors
    /\ storeErrors' = storeErrors + 1
    /\ Answer(r, "updated")
    /\ UNCHANGED <<now, last, row, shown, wanted, held, crossed>>

\* An error of the store is reported, and nothing is broadcast.
StoreFails(r) ==
    /\ pc[r] = "store"
    /\ storeErrors < MaxStoreErrors
    /\ storeErrors' = storeErrors + 1
    /\ Answer(r, "failed")
    /\ UNCHANGED <<now, last, row, shown, wanted, held, crossed>>

\* The event goes to the hub and the request is answered.
Broadcast(r) ==
    /\ pc[r] = "broadcast"
    /\ shown' = wanted[r]
    /\ Answer(r, "updated")
    /\ UNCHANGED <<now, last, row, wanted, held, storeErrors, crossed>>

Tick ==
    /\ now < MaxTime
    /\ now' = now + 1
    /\ UNCHANGED <<last, row, shown, pc, wanted, held, answer, storeErrors,
                   crossed>>

Step(r) == Check(r) \/ Mark(r) \/ Store(r) \/ StoreFails(r) \/ Broadcast(r)

Next ==
    \/ \E r \in Requests : Step(r) \/ \E v \in Statuses : Begin(r, v)
    \/ Tick

Spec == Init /\ [][Next]_vars

-----------------------------------------------------------------------------
(* Properties.                                                             *)

\* While no request is at work, the status announced last is the stored one,
\* also when the store has failed in between.  What can part the two for good is
\* that one request stores a status between the storing and the announcing of
\* another's: SetStatus holds no lock over both.
ShownIsStored == (~crossed /\ \A r \in Requests : pc[r] = "idle") => shown = row

\* A request for a status that is answered "failed" has left the row and the
\* stream alone, and one that is answered "updated" without having had it stored
\* was preceded by one for the same status less than Debounce ago.
AnswersAccounted ==
    [][\A r \in Requests : (pc[r] # "idle" /\ pc'[r] = "idle") =>
        \/ answer'[r] = "failed" /\ row' = row /\ shown' = shown
        \/ answer'[r] = "updated" /\ held'[r]
        \/ answer'[r] = "updated" /\ now - last[wanted[r]] < Debounce]_vars
=============================================================================
