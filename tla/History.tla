------------------------------- MODULE History -------------------------------
(***************************************************************************)
(* A terminal that reads a channel's history in pages while the relay goes *)
(* on: GetHistory and GetChannelMessages of internal/api/server.go, over   *)
(* GetMessages and GetMessagesByChannelTimestamp of storage/sqlite.go.     *)
(* The module composes MessageRelay with the terminal, which may also      *)
(* follow the event stream.                                                *)
(*                                                                         *)
(* A request names a message by its id (before=, after=), whose row the    *)
(* query looks up, or by its time (before=, since=).  The terminal asks    *)
(* for the page beyond the last message it was given until a page is not   *)
(* full (has_more of HistoryResponse).  Timestamps need not be distinct,   *)
(* and ORDER BY leaves the order of equal ones open.                       *)
(*                                                                         *)
(* The table holds times as text, and SQLite compares text: first the      *)
(* instant, then the name of the zone behind it.  What the relay writes    *)
(* itself, and the bounds of a request, end in +0000 UTC; Discord's times  *)
(* end as the host's own zone has it: in +0000 UTC where that is UTC, in   *)
(* +0000 +0000, which sorts below, where it has another offset.            *)
(***************************************************************************)
EXTENDS MessageRelay

CONSTANTS
    Limit,     \* the terminal's limit, 1 to 1000
    None,      \* the parameter is absent
    Zone       \* how the zone in the text of Discord's time of a message sorts

ASSUME HistoryAssumption ==
    /\ Limit \in Nat \ {0} /\ None \notin Messages
    /\ Zone \in [Humans \cup Others -> Int]

VARIABLES
    watching,  \* the terminal's connection is registered with the hub
    live,      \* messages whose creation the terminal saw in the stream
    reading,   \* "idle", "more" pages to ask for, or "done"
    by,        \* "id" for GetHistory, "time" for GetChannelMessages
    before,    \* the request's bounds
    after,
    got,       \* the messages the pages contained
    cutShort,  \* some page was empty because a bound's row was gone
    owed,      \* rows within the bounds since the first page was asked for
    whole,     \* the terminal asked for everything
    gap        \* messages announced but not stored at that moment

terminalVars == <<watching, live, reading, by, before, after, got,
                  cutShort, owed, whole, gap>>
vars == <<relayVars, terminalVars>>

Bound == Messages \cup {None}

TypeOK ==
    /\ RelayTypeOK
    /\ watching \in BOOLEAN
    /\ live \subseteq Messages
    /\ reading \in {"idle", "more", "done"}
    /\ by \in {"id", "time"}
    /\ before \in Bound /\ after \in Bound
    /\ got \subseteq Messages
    /\ cutShort \in BOOLEAN
    /\ owed \subseteq Messages
    /\ whole \in BOOLEAN
    /\ gap \subseteq Messages

TerminalInit ==
    /\ watching = FALSE /\ live = {}
    /\ reading = "idle" /\ by = "id" /\ before = None /\ after = None
    /\ got = {} /\ cutShort = FALSE
    /\ owed = {} /\ whole = FALSE /\ gap = {}

Init == RelayInit /\ TerminalInit

-----------------------------------------------------------------------------
(* The queries.                                                            *)

Rows == {m \in Messages : stored[m] # Absent}

\* The subquery for a bound's timestamp; without a row it yields NULL, and a
\* comparison with NULL selects nothing.
Known(b) == b = None \/ by = "time" \/ b \in Rows

UTC == 0     \* the end of a time the relay made itself, models.TimeNow().UTC()

\* The text of m's time in its row.
Text(m) == [time |-> stamp[m],
            zone |-> IF m \in Posts \cup Files THEN UTC ELSE Zone[m]]

Sorts(x, y) == x.time < y.time \/ (x.time = y.time /\ x.zone < y.zone)

\* What a request that names message b is compared with: the text in b's row, or
\* b's time as before.UTC() or since.UTC().
BoundText(b) == IF by = "id" THEN Text(b) ELSE [time |-> stamp[b], zone |-> UTC]

AtOrBefore(m) == before = None \/ ~Sorts(BoundText(before), Text(m))

OlderThan(m) == before = None \/ Sorts(Text(m), BoundText(before))
NewerThan(m) == after = None \/ Sorts(BoundText(after), Text(m))

Selected ==
    IF Known(before) /\ Known(after)
    THEN {m \in Rows : OlderThan(m) /\ NewerThan(m)}
    ELSE {}

\* Only GetMessages with nothing but `after' orders from old to new.
Ascending == by = "id" /\ after # None /\ before = None

Precedes(m, n) == IF Ascending THEN ~Sorts(Text(n), Text(m))
                               ELSE ~Sorts(Text(m), Text(n))

\* What ORDER BY ... LIMIT may return, for some order of equal timestamps.
Pages ==
    {P \in SUBSET Selected :
        /\ Cardinality(P) <= Limit
        /\ Cardinality(P) = Limit \/ P = Selected
        /\ \A m \in P, n \in Selected \ P : Precedes(m, n)}

HasMore(P) == Cardinality(P) = Limit

-----------------------------------------------------------------------------
(* The terminal.                                                           *)

Watch ==
    /\ ~watching
    /\ watching' = TRUE
    /\ UNCHANGED <<relayVars, live, reading, by, before, after, got, cutShort,
                   owed, whole, gap>>

\* The terminal decides to read everything, or what is newer than a message it
\* has heard of.  (It follows the stream first, as one that wants to miss
\* nothing must; for the pages alone it makes no difference.)
Ask(how, a) ==
    /\ watching /\ reading = "idle"
    /\ reading' = "more"
    /\ by' = how /\ before' = None /\ after' = a
    /\ owed' = {m \in Rows : a = None \/ stamp[m] > stamp[a]}
    /\ whole' = (a = None)
    /\ gap' = {m \in Messages : \E h \in handlers :
                    h.id = m /\ h.op = "create" /\ h.at = "store"}
    /\ UNCHANGED <<relayVars, watching, live, got, cutShort>>

\* One request: a page, and the bound of the next one.
ReadPage ==
    /\ reading = "more"
    /\ \E P \in Pages :
        /\ got' = got \cup P
        /\ reading' = IF HasMore(P) THEN "more" ELSE "done"
        /\ IF P = {}
           THEN UNCHANGED <<before, after>>
           ELSE \E last \in P :
                    /\ \A m \in P : Precedes(m, last)
                    /\ before' = IF Ascending THEN before ELSE last
                    /\ after' = IF Ascending THEN last ELSE after
    /\ cutShort' = ~(Known(before) /\ Known(after))
    /\ UNCHANGED <<relayVars, watching, live, by, owed, whole, gap>>

\* What a step of the relay means for the terminal.
Follow ==
    /\ live' = IF watching
               THEN live \cup {m \in Messages : created'[m] > created[m]}
               ELSE live
    /\ owed' = {m \in owed : stored'[m] # Absent}
    /\ UNCHANGED <<watching, reading, by, before, after, got, cutShort,
                   whole, gap>>

Next ==
    \/ RelayStep /\ Follow
    \/ Tick /\ Follow
    \/ Watch
    \/ \E how \in {"id", "time"}, a \in Rows \cup {None} : Ask(how, a)
    \/ ReadPage

Spec == Init /\ [][Next]_vars

-----------------------------------------------------------------------------
(* Properties.                                                             *)

\* The terminal cannot tell why a message is missing: a page was empty because
\* the row of a bound was deleted, or the message has the timestamp of one it
\* was given, at the edge of a page.
Skipped(m) == cutShort \/ \E g \in got : stamp[g] = stamp[m]

\* Asked for by time, the message whose time is the bound comes again where its
\* own text sorts below that of the same time in UTC (sqlite.go 334): a message of
\* Discord's on a host whose zone is not UTC.  With a limit of one the
\* terminal is given nothing else for ever.
GivenAgain(m) ==
    /\ by = "time" /\ before # None
    /\ stamp[m] = stamp[before] /\ Text(m).zone < UTC

\* While there are pages to come they contain nothing the terminal has, but for
\* GivenAgain; and when it has read the last page it has every message that was
\* there all the time, but for the two reasons of Skipped: however new messages
\* arrive and others are deleted meanwhile.
PagesComplete ==
    /\ reading = "more" => \A m \in got \cap Selected : GivenAgain(m)
    /\ reading = "done" => \A m \in owed : m \in got \/ Skipped(m)

\* A terminal that follows the stream first and reads everything then has each
\* stored message, from the one or the other: PostMessage stores before it
\* announces.  Exceptions are messages of people whose handler had announced
\* but not stored them when the reading began, files, which are not announced,
\* and a message whose announcement is still to come or was lost.
CaughtUp ==
    (reading = "done" /\ whole) =>
        \A m \in Rows :
            \/ m \in live \cup got
            \/ Skipped(m) \/ m \in gap \/ m \in hit
            \/ m \in Files \ owed
            \/ m \in Posts /\ request[m] = "recorded"
=============================================================================
