---------------------------- MODULE MessageRelay ----------------------------
(***************************************************************************)
(* How the messages of one channel reach the table `messages' and the      *)
(* event stream: PostMessage and PostFile of internal/api/server.go,       *)
(* onMessageCreate, onMessageUpdate and onMessageDelete of                 *)
(* internal/discord/handlers.go, and the statements they run.              *)
(*                                                                         *)
(* discordgo starts a goroutine for every gateway event, so the handlers   *)
(* of one message may run in any order and at the same time.  Each of them *)
(* hands an event to the hub first and changes the table afterwards.       *)
(* PostMessage stores first and announces afterwards; PostFile stores only.*)
(* No error of the store is reported to anyone.                            *)
(*                                                                         *)
(* A content is a version number: 1 is the text the message was sent with, *)
(* and an edit counts it up.  Ghost state (created, crossed, hit) is read  *)
(* by no guard.                                                            *)
(***************************************************************************)
EXTENDS Integers, FiniteSets

CONSTANTS
    Humans,      \* messages people write at Discord
    Posts,       \* messages terminals send with PostMessage
    Files,       \* files terminals send with PostFile
    Others,      \* messages of other bots and of third-party webhooks
    MaxVersion,  \* bound: versions of a message's content
    MaxChanges,  \* bound: edits, unfurled links and deletions
    MaxTime,     \* bound: the clock
    MaxMishaps   \* bound: faults and restarts

Messages == Humans \cup Posts \cup Files \cup Others
Absent == 0      \* no row; nothing to show
Blank == -1      \* the content of an event that carries only embeds
Contents == {Absent, Blank} \cup 1..MaxVersion

ASSUME RelayAssumption ==
    /\ Humans \cap (Posts \cup Files \cup Others) = {}
    /\ Posts \cap (Files \cup Others) = {} /\ Files \cap Others = {}
    /\ MaxVersion \in Nat \ {0} /\ MaxChanges \in Nat
    /\ MaxTime \in Nat /\ MaxMishaps \in Nat

VARIABLES
    version,   \* version[m]: the content Discord shows; 0 before it is sent
    deleted,   \* the messages deleted at Discord
    stored,    \* stored[m]: the content of m's row, or Absent
    stamp,     \* stamp[m]: the timestamp m's row has, once there is a row
    told,      \* told[m]: what the stream last said m's content is
    handlers,  \* gateway handlers that run
    request,   \* request[m]: where the request that posts m is
    now,
    changes,   \* edits, unfurled links and deletions so far
    mishaps,
    created,   \* created[m]: how often m's creation was announced
    crossed,   \* crossed[m]: where a later event of m overtook an earlier one
    hit        \* the messages an error, a loss or a restart befell

ghostVars == <<created, crossed, hit>>
discordVars == <<version, deleted>>
relayVars == <<discordVars, stored, stamp, told, handlers, request, now,
               changes, mishaps, ghostVars>>

Handler ==
    [op : {"create", "update", "delete"}, id : Messages, content : Contents,
     at : {"announce", "store"}]

RelayTypeOK ==
    /\ version \in [Messages -> 0..MaxVersion]
    /\ deleted \subseteq Messages
    /\ stored \in [Messages -> Contents]
    /\ stamp \in [Messages -> 0..MaxTime]
    /\ told \in [Messages -> Contents]
    /\ handlers \subseteq Handler
    /\ request \in [Posts \cup Files ->
                        {"idle", "sent", "recorded", "done", "failed"}]
    /\ now \in 0..MaxTime
    /\ changes \in 0..MaxChanges
    /\ mishaps \in 0..MaxMishaps
    /\ created \in [Messages -> Nat]
    /\ crossed \in [Messages -> SUBSET {"stream", "table"}]
    /\ hit \subseteq Messages

RelayInit ==
    /\ version = [m \in Messages |-> 0]
    /\ deleted = {}
    /\ stored = [m \in Messages |-> Absent]
    /\ stamp = [m \in Messages |-> 0]
    /\ told = [m \in Messages |-> Absent]
    /\ handlers = {}
    /\ request = [m \in Posts \cup Files |-> "idle"]
    /\ now = 0
    /\ changes = 0
    /\ mishaps = 0
    /\ created = [m \in Messages |-> 0]
    /\ crossed = [m \in Messages |-> {}]
    /\ hit = {}

-----------------------------------------------------------------------------
(* Pieces the actions are made of.                                         *)

\* Something goes wrong for m, if the bound allows it.
Mishap(m) ==
    /\ mishaps < MaxMishaps
    /\ mishaps' = mishaps + 1
    /\ hit' = hit \cup {m}

NoMishap == UNCHANGED <<mishaps, hit>>

\* (Were only the messages of webhooks in the cache dropped, and the one that
\* messages are posted with purged from it.)
HeardUnlessCached(m) == m \notin Files

\* onMessageCreate and onMessageUpdate return at once for a bot's message and
\* for a message of any webhook, the relay's own and foreign ones alike.
Heard(m) == m \in Humans

\* A gateway event starts a handler, unless the relay is not connected.
StartHandler(h) ==
    \/ handlers' = handlers \cup {h} /\ NoMishap
    \/ handlers' = handlers /\ Mishap(h.id)

\* A message comes back from Discord as a gateway event.
Echo(m) ==
    IF Heard(m)
    THEN StartHandler([op |-> "create", id |-> m, content |-> 1,
                       at |-> "announce"])
    ELSE UNCHANGED handlers /\ NoMishap

\* Hub.Broadcast accepts the event or, with a full buffer, drops it.
Tell(m, content, creation) ==
    \/ /\ told' = [told EXCEPT ![m] = content]
       /\ created' = [created EXCEPT ![m] = @ + creation]
       /\ NoMishap
    \/ /\ Mishap(m)
       /\ UNCHANGED <<told, created>>

\* The events of m that came before h's: its creation, and the smaller
\* versions; everything came before the deletion.
Earlier(g, h) ==
    /\ g.id = h.id /\ g.content # Blank
    /\ \/ h.op = "delete" /\ g.op # "delete"
       \/ g.op # "delete" /\ h.op # "delete" /\ g.content < h.content

\* A step of h that reaches `place' before the same step of an earlier event.
Crossing(h, place, waiting, posting) ==
    crossed' = [crossed EXCEPT ![h.id] =
        IF \/ \E g \in handlers : Earlier(g, h) /\ g.at \in waiting
           \/ h.id \in Posts \cup Files /\ request[h.id] \in posting
        THEN @ \cup {place} ELSE @]

-----------------------------------------------------------------------------
(* Discord and its users.                                                  *)

\* Someone else than the relay sends a message, and Discord stamps it.
Say(m) ==
    /\ m \in Humans \cup Others
    /\ version[m] = 0
    /\ version' = [version EXCEPT ![m] = 1]
    /\ stamp' = [stamp EXCEPT ![m] = now]
    /\ Echo(m)
    /\ UNCHANGED <<deleted, stored, told, request, now, changes, created,
                   crossed>>

\* A person or Discord changes a message.
Change == changes < MaxChanges /\ changes' = changes + 1

Edit(m) ==
    /\ Change
    /\ m \in Humans \ deleted
    /\ version[m] \in 1..(MaxVersion - 1)
    /\ version' = [version EXCEPT ![m] = @ + 1]
    /\ StartHandler([op |-> "update", id |-> m, content |-> version[m] + 1,
                     at |-> "announce"])
    /\ UNCHANGED <<deleted, stored, stamp, told, request, now, created,
                   crossed>>

\* Discord unfurls a link: an update event without author and content, which
\* comes for messages of webhooks too.
Unfurl(m) ==
    /\ Change
    /\ version[m] > 0 /\ m \notin deleted
    /\ StartHandler([op |-> "update", id |-> m, content |-> Blank,
                     at |-> "announce"])
    /\ UNCHANGED <<discordVars, stored, stamp, told, request, now, created,
                   crossed>>

Delete(m) ==
    /\ Change
    /\ version[m] > 0 /\ m \notin deleted
    /\ deleted' = deleted \cup {m}
    /\ StartHandler([op |-> "delete", id |-> m, content |-> Absent,
                     at |-> "announce"])
    /\ UNCHANGED <<version, stored, stamp, told, request, now, created,
                   crossed>>

-----------------------------------------------------------------------------
(* The gateway handlers.                                                   *)

\* (Were the event made from the row instead of from what Discord sent.)
TellStored(h) == stored[h.id]

\* What the event says of the message.
Said(h) == h.content

Announce(h) ==
    /\ h \in handlers /\ h.at = "announce"
    /\ handlers' = (handlers \ {h}) \cup {[h EXCEPT !.at = "store"]}
    /\ Tell(h.id, Said(h), IF h.op = "create" THEN 1 ELSE 0)
    /\ Crossing(h, "stream", {"announce"}, {"sent", "recorded"})
    /\ UNCHANGED <<discordVars, stored, stamp, request, now, changes>>

\* (Were an event without author stored as well.)
UpdateBlindly(h) ==
    [stored EXCEPT ![h.id] =
        IF h.op = "update" /\ @ = Absent THEN @ ELSE h.content]

\* INSERT OR REPLACE, DELETE, and UPDATE: which does nothing without a row and
\* is not run for an event without author.
Applied(h) ==
    [stored EXCEPT ![h.id] =
        IF h.op = "update" /\ (@ = Absent \/ h.content = Blank)
        THEN @ ELSE h.content]

Store(h) ==
    /\ h \in handlers /\ h.at = "store"
    /\ handlers' = handlers \ {h}
    /\ \/ stored' = Applied(h) /\ NoMishap
       \/ stored' = stored /\ Mishap(h.id)
    /\ Crossing(h, "table", {"announce", "store"}, {"sent"})
    /\ UNCHANGED <<discordVars, stamp, told, request, now, changes, created>>

-----------------------------------------------------------------------------
(* PostMessage and PostFile.                                               *)

\* The request is limited, invalid, for an unknown channel, or refused by Discord.
Refuse(m) ==
    /\ request[m] = "idle"
    /\ request' = [request EXCEPT ![m] = "failed"]
    /\ UNCHANGED <<discordVars, stored, stamp, told, handlers, now, changes,
                   mishaps, ghostVars>>

\* sendMsg or sendFile put the message on Discord.  When its answer is lost
\* the request ends with an error, and nothing is recorded or announced.
Send(m) ==
    /\ request[m] = "idle"
    /\ version' = [version EXCEPT ![m] = 1]
    /\ \/ request' = [request EXCEPT ![m] = "sent"] /\ Echo(m)
       \/ request' = [request EXCEPT ![m] = "failed"] /\ Mishap(m)
          /\ UNCHANGED handlers
    /\ UNCHANGED <<deleted, stored, stamp, told, now, changes, created,
                   crossed>>

\* InsertMessage, with the relay's own time and its error ignored.
Record(m) ==
    /\ request[m] = "sent"
    /\ request' = [request EXCEPT ![m] =
                        IF m \in Posts THEN "recorded" ELSE "done"]
    /\ stamp' = [stamp EXCEPT ![m] = now]
    /\ \/ stored' = [stored EXCEPT ![m] = 1] /\ NoMishap
       \/ stored' = stored /\ Mishap(m)
    /\ UNCHANGED <<discordVars, told, handlers, now, changes, created,
                   crossed>>

\* (Were the terminal's own message not announced.)
SkipAnnouncement(m) ==
    /\ request[m] = "recorded"
    /\ request' = [request EXCEPT ![m] = "done"]
    /\ UNCHANGED <<discordVars, stored, stamp, told, handlers, now, changes,
                   mishaps, ghostVars>>

AnnouncePost(m) ==
    /\ request[m] = "recorded"
    /\ request' = [request EXCEPT ![m] = "done"]
    /\ Tell(m, 1, 1)
    /\ UNCHANGED <<discordVars, stored, stamp, handlers, now, changes,
                   crossed>>

-----------------------------------------------------------------------------

\* The clock only decides how pages of the history are cut: RelayNext leaves it
\* where it is, History moves it.
Tick ==
    /\ now < MaxTime
    /\ now' = now + 1
    /\ UNCHANGED <<discordVars, stored, stamp, told, handlers, request,
                   changes,
                   mishaps, ghostVars>>

\* The process ends and starts again: what its goroutines had to do is lost.
Restart ==
    LET cut == {m \in DOMAIN request : request[m] \in {"sent", "recorded"}} IN
    /\ mishaps < MaxMishaps
    /\ mishaps' = mishaps + 1
    /\ hit' = hit \cup cut \cup {h.id : h \in handlers}
    /\ handlers' = {}
    /\ request' = [m \in DOMAIN request |->
                        IF m \in cut THEN "failed" ELSE request[m]]
    /\ UNCHANGED <<discordVars, stored, stamp, told, now, changes, created,
                   crossed>>

HandlerStep == \E h \in handlers : Announce(h) \/ Store(h)

RequestStep == \E m \in Posts \cup Files : Record(m) \/ AnnouncePost(m)

RelayStep ==
    \/ \E m \in Messages : Say(m) \/ Edit(m) \/ Unfurl(m) \/ Delete(m)
    \/ \E m \in Posts \cup Files : Refuse(m) \/ Send(m)
    \/ HandlerStep
    \/ RequestStep

RelayNext == RelayStep \/ Restart

\* Goroutines keep running, and no call they make waits for ever.
RelaySpec == /\ RelayInit /\ [][RelayNext]_relayVars
             /\ WF_relayVars(HandlerStep) /\ WF_relayVars(RequestStep)

-----------------------------------------------------------------------------
(* Properties.                                                             *)

\* Nothing of m is under way in the relay.
Settled(m) ==
    /\ \A h \in handlers : h.id # m
    /\ m \in DOMAIN request => request[m] \in {"idle", "done", "failed"}

\* What Discord shows of m.
AtDiscord(m) == IF m \in deleted THEN Absent ELSE version[m]

\* When nothing of a message is under way, the table has what Discord shows
\* (of people's messages and of those the relay posted).  The only causes for
\* anything else are a fault, and a handler that changed the row before the
\* handler of an earlier event did: a row that outlives its message, or one
\* that keeps an old text, comes from there (handlers.go 64, 113 and 132).
TableFollows ==
    \A m \in Messages \ hit :
        (Settled(m) /\ "table" \notin crossed[m]) =>
            stored[m] = IF m \in Others THEN Absent ELSE AtDiscord(m)

\* Unless one of the two causes intervened the table agrees with Discord in the
\* end and for good: no event is left waiting for another one.
EventuallyConsistent ==
    \A m \in Humans \cup Posts \cup Files :
        <>[](m \in hit \/ "table" \in crossed[m] \/ stored[m] = AtDiscord(m))

\* The same of the stream: a terminal that applies each event to what it shows
\* ends with what Discord shows, but for files, which are never announced, for
\* an unfurled link, whose event has no content, and for an event that was
\* announced before an earlier one.
StreamFollows ==
    \A m \in Humans \cup Posts :
        ( /\ Settled(m) /\ m \notin hit
          /\ "stream" \notin crossed[m] /\ told[m] # Blank ) =>
            told[m] = AtDiscord(m)

\* Each message of a person or of a terminal is announced exactly once though
\* the terminal's message comes back through the gateway; what bots and foreign
\* webhooks write is never announced.
AnnouncedOnce ==
    \A m \in Messages :
        /\ created[m] <= IF m \in Humans \cup Posts THEN 1 ELSE 0
        /\ (/\ m \in Humans \cup Posts /\ m \notin hit
            /\ Settled(m) /\ version[m] > 0) => created[m] = 1
=============================================================================
