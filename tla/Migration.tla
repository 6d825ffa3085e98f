------------------------------ MODULE Migration ------------------------------
(***************************************************************************)
(* Store.migrate of internal/storage/sqlite.go: whenever the relay starts, *)
(* the schema is brought from any earlier version to the current one.      *)
(*                                                                         *)
(* Every statement commits on its own, and the process may end between any *)
(* two.  The version is written once, after all of them, so an interrupted *)
(* migration runs again over what it already did.                          *)
(***************************************************************************)
EXTENDS Integers, Sequences

CONSTANT MaxFaults    \* bound: statements that fail, and crashes

ASSUME MigrationAssumption == MaxFaults \in Nat

VARIABLES
    schema,     \* the tables and added columns that exist
    persisted,  \* schema_version in _meta; 0 when there is none
    at,         \* "stopped", "migrating" or "running"
    pos,        \* migrate's next statement, while it is at work
    faults,
    ignored     \* ghost: a fault of v6's statement went unnoticed

vars == <<schema, persisted, at, pos, faults, ignored>>

currentSchemaVersion == 6
TypeColumn == "channels.type"
TokenColumn == "webhooks.webhook_token_encrypted"

\* The statements in the order of migrate: the version each belongs to and what
\* it makes.  (Indexes are left out, no statement depends on one.)
Statements ==
    << [v |-> 1, makes |-> "users"],         [v |-> 1, makes |-> "messages"],
       [v |-> 1, makes |-> "statuses"],      [v |-> 1, makes |-> "channels"],
       [v |-> 1, makes |-> "webhooks"],      [v |-> 2, makes |-> TypeColumn],
       [v |-> 3, makes |-> "setup_configs"], [v |-> 4, makes |-> "guilds"],
       [v |-> 5, makes |-> "sessions"],
       [v |-> 5, makes |-> "device_flows"],  [v |-> 6, makes |-> TokenColumn] >>

End == Len(Statements) + 1

Made(S) == {Statements[i].makes : i \in S}
Upto(v) == Made({i \in DOMAIN Statements : Statements[i].v <= v})

TypeOK ==
    /\ schema \subseteq Upto(currentSchemaVersion)
    /\ persisted \in 0..currentSchemaVersion
    /\ at \in {"stopped", "migrating", "running"}
    /\ pos \in 1..End
    /\ faults \in 0..MaxFaults
    /\ ignored \in BOOLEAN

\* A new file, or one of any earlier release: of those that wrote version 1,
\* some had the type column.
Init ==
    /\ persisted \in 0..currentSchemaVersion
    /\ \/ schema = Upto(persisted)
       \/ persisted = 1 /\ schema = Upto(2)
    /\ at = "stopped" /\ pos = 1 /\ faults = 0 /\ ignored = FALSE

-----------------------------------------------------------------------------

Fault == faults < MaxFaults /\ faults' = faults + 1

\* The first statement of a version above v.
From(v) ==
    CHOOSE i \in 1..End :
        /\ \A j \in 1..(i - 1) : Statements[j].v <= v
        /\ i < End => Statements[i].v > v

\* Open: when the version cannot be read, migrate takes it for 0.
Start ==
    /\ at = "stopped"
    /\ at' = "migrating"
    /\ \/ pos' = From(persisted) /\ UNCHANGED faults
       \/ pos' = 1 /\ Fault
    /\ UNCHANGED <<schema, persisted, ignored>>

\* CREATE TABLE IF NOT EXISTS.  A channels table made now has its type column.
CreateTable ==
    /\ pos < End /\ Statements[pos].v \notin {2, 6}
    /\ LET table == Statements[pos].makes IN
       schema' = schema \cup {table} \cup
                    IF table = "channels" /\ table \notin schema
                    THEN {TypeColumn} ELSE {}
    /\ pos' = pos + 1
    /\ UNCHANGED <<at, faults, ignored>>

\* (Were v2 not to ask.)
AlterBlindly ==
    /\ pos < End /\ Statements[pos].v = 2
    /\ IF TypeColumn \in schema
       THEN at' = "stopped" /\ UNCHANGED <<schema, pos>>
       ELSE /\ schema' = schema \cup {TypeColumn}
            /\ pos' = pos + 1 /\ UNCHANGED at
    /\ UNCHANGED <<faults, ignored>>

\* v2 asks whether the column is there; when the SELECT fails for another
\* reason, the ALTER does, too.
AddTypeColumn ==
    /\ pos < End /\ Statements[pos].v = 2
    /\ schema' = schema \cup {TypeColumn}
    /\ pos' = pos + 1
    /\ UNCHANGED <<at, faults, ignored>>

\* (Were v6 to report every error.)
ReportDuplicate ==
    /\ pos < End /\ Statements[pos].v = 6
    /\ schema' = schema \cup {TokenColumn}
    /\ IF TokenColumn \in schema
       THEN at' = "stopped" /\ UNCHANGED pos
       ELSE UNCHANGED at /\ pos' = pos + 1
    /\ UNCHANGED <<faults, ignored>>

\* v6 adds its column and ignores every error: the column was there already, or
\* the statement failed.
AddTokenColumn ==
    /\ pos < End /\ Statements[pos].v = 6
    /\ \/ schema' = schema \cup {TokenColumn} /\ UNCHANGED <<faults, ignored>>
       \/ schema' = schema /\ ignored' = TRUE /\ Fault
    /\ pos' = pos + 1
    /\ UNCHANGED at

\* Any other error ends migrate, Open and the process.
StatementFails ==
    /\ pos < End => Statements[pos].v # 6
    /\ at' = "stopped"
    /\ Fault
    /\ UNCHANGED <<schema, pos, ignored>>

\* (Were the version written by a deferred call, failures would write it, too.)
PersistDeferred ==
    /\ persisted' = IF pos > 1 THEN Statements[pos - 1].v ELSE persisted
    /\ \/ pos = End /\ at' = "running" /\ UNCHANGED <<pos, faults>>
       \/ at' = "stopped" /\ Fault /\ UNCHANGED pos
    /\ UNCHANGED <<schema, ignored>>

\* The version is written when everything has been done.
Persist ==
    /\ pos = End
    /\ persisted' = currentSchemaVersion
    /\ at' = "running"
    /\ UNCHANGED <<schema, pos, faults, ignored>>

\* The process ends, at any point.
Crash ==
    /\ at # "stopped"
    /\ Fault
    /\ at' = "stopped"
    /\ UNCHANGED <<schema, persisted, pos, ignored>>

Migrate ==
    /\ at = "migrating"
    /\ \/ (CreateTable \/ AddTypeColumn \/ AddTokenColumn \/ StatementFails)
          /\ UNCHANGED persisted
       \/ Persist

Next == Start \/ Migrate \/ Crash

Spec == Init /\ [][Next]_vars

-----------------------------------------------------------------------------
(* Properties.                                                             *)

\* The version in _meta never promises what the file does not have, so a later
\* start that skips the statements of that version may do so, and a relay that
\* runs has the whole schema: after every interruption.  The one exception is
\* the column of v6, whose statement may fail unnoticed (sqlite.go 180).
VersionHonest ==
    LET missing == IF ignored THEN {TokenColumn} ELSE {} IN
    /\ Upto(persisted) \ schema \subseteq missing
    /\ at = "running" => Upto(currentSchemaVersion) \ schema \subseteq missing

\* Whatever earlier, interrupted runs left behind, a migration ends with an
\* error only if one of its own statements fails or the process ends: running a
\* statement again over its own result is harmless.
FailsOnlyByFault ==
    [][(at = "migrating" /\ at' = "stopped") => faults' > faults]_vars

\* The version never falls, not even when it could not be read and everything
\* is done again from the beginning and interrupted.
VersionNeverFalls == [][persisted' >= persisted]_persisted
=============================================================================
