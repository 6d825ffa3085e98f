---------------------------- MODULE GuildCatalog ----------------------------
(***************************************************************************)
(* The catalogue of guilds and text channels: onReady and onGuildCreate of *)
(* internal/discord/client.go, resolveChannel and syncGuild of             *)
(* cmd/main.go, CheckBotGuild of internal/api/server.go, and the           *)
(* statements of storage/sqlite.go they run.                               *)
(*                                                                         *)
(* A READY event names the guilds the bot is in; Discord then sends a      *)
(* GUILD_CREATE for each of them, and one for each guild that is joined    *)
(* later.  Every event is handled on a goroutine of its own.  onReady asks *)
(* for the channels of one guild after the other and then replaces both    *)
(* tables, each in a transaction.  Nothing handles a guild that is left or *)
(* a channel that is made or deleted: the next READY brings that.          *)
(***************************************************************************)
EXTENDS Integers, FiniteSets

CONSTANTS
    Guilds,      \* guild ids
    Channels,    \* ids of text channels
    GuildOf,     \* GuildOf[c]: the guild of channel c
    MaxReadys,   \* bound: READY events
    MaxChanges,  \* bound: guilds joined or left, channels made or deleted
    MaxCalls,    \* bound: calls of the API that look something up at Discord
    MaxFaults    \* bound: calls of Discord and of the store that fail

Absent == "absent"    \* there is no row
Blank == "blank"      \* the name in the stub a READY event carries
Named == "named"

ASSUME CatalogAssumption ==
    /\ GuildOf \in [Channels -> Guilds]
    /\ MaxReadys \in Nat /\ MaxChanges \in Nat
    /\ MaxCalls \in Nat /\ MaxFaults \in Nat

VARIABLES
    member,    \* the guilds the bot is in
    exists,    \* the text channels that exist at Discord
    guilds,    \* guilds[g]: the name in g's row, or Absent
    channels,  \* the channels that have a row
    readys,    \* READY events so far
    ready,     \* the runs of onReady under way
    tasks,     \* the other goroutines: onGuildCreate, CheckBotGuild, ...
    changes,
    calls,
    faults,
    \* Ghost state, read by no guard.
    raced,     \* what appeared in a way the last READY cannot account for
    gone,      \* what disappeared since the last READY, or may come back
    early,     \* guilds onGuildCreate named while an onReady was at work
    clean,     \* nothing has failed since the last READY
    alone,     \* no earlier onReady was under way at the last READY
    steady,    \* numbers of the checks that nothing keeps from finding a row
    denied     \* such a check denied its guild

causes == <<raced, gone, early>>
ghosts == <<causes, clean, alone, steady, denied>>
discord == <<member, exists>>
tables == <<guilds, channels>>
bounds == <<readys, changes, calls>>
vars == <<discord, tables, bounds, ready, tasks, faults, ghosts>>

\* onReady, session n: the guilds it was given, those still to ask about, and
\* the channels it found.
Run == [n : 1..MaxReadys, at : {"fetch", "guilds", "channels"},
        list : SUBSET Guilds, todo : SUBSET Guilds, synced : SUBSET Channels]

Task == [kind : {"create", "resolve", "check"}, guild : Guilds,
         n : 0..(MaxReadys + MaxCalls),
         at : {"name", "fetch", "store", "again"},
         todo : SUBSET Channels]

TypeOK ==
    /\ member \subseteq Guilds /\ exists \subseteq Channels
    /\ guilds \in [Guilds -> {Absent, Blank, Named}]
    /\ channels \subseteq Channels
    /\ readys \in 0..MaxReadys
    /\ ready \subseteq Run /\ tasks \subseteq Task
    /\ changes \in 0..MaxChanges /\ calls \in 0..MaxCalls
    /\ faults \in 0..MaxFaults
    /\ raced \subseteq Guilds \cup Channels
    /\ gone \subseteq Guilds \cup Channels
    /\ early \subseteq Guilds
    /\ clean \in BOOLEAN /\ alone \in BOOLEAN /\ denied \in BOOLEAN
    /\ steady \subseteq 0..(MaxReadys + MaxCalls)

\* The tables may hold what an earlier process left.
Init ==
    /\ member \in SUBSET Guilds
    /\ exists = Channels
    /\ \/ guilds = [g \in Guilds |-> Absent] /\ channels = {}
       \/ guilds = [g \in Guilds |-> Named] /\ channels = Channels
    /\ readys = 0 /\ ready = {} /\ tasks = {}
    /\ changes = 0 /\ calls = 0 /\ faults = 0
    /\ raced = {} /\ gone = {} /\ early = {} /\ clean = FALSE /\ alone = TRUE
    /\ steady = {} /\ denied = FALSE

-----------------------------------------------------------------------------

ChannelsOf(g) == {c \in Channels : GuildOf[c] = g}

ChecksOf(g) == {t.n : t \in {u \in tasks : u.guild = g}}

\* What GuildChannels(g) lists for the bot.
Visible(g) == IF g \in member THEN ChannelsOf(g) \cap exists ELSE {}

HasGuildRow(g) == guilds[g] # Absent

\* The query counts channels, not guilds.
HasGuild(g) == ChannelsOf(g) \cap channels # {}

NoFault == UNCHANGED <<faults, clean, alone, steady>>

Fault ==
    /\ faults < MaxFaults
    /\ faults' = faults + 1
    /\ clean' = FALSE
    /\ steady' = {}
    /\ UNCHANGED alone

-----------------------------------------------------------------------------
(* Discord.                                                                *)

Change == changes < MaxChanges /\ changes' = changes + 1

NewTask(kind, g, n, at, todo) ==
    tasks \cup {[kind |-> kind, guild |-> g, n |-> n, at |-> at, todo |-> todo]}

\* The bot is added to a guild.  Once it has connected, GUILD_CREATE follows.
Join(g) ==
    /\ Change
    /\ g \notin member
    /\ member' = member \cup {g}
    /\ tasks' = IF readys = 0 THEN tasks
                ELSE NewTask("create", g, 0, "name", {})
    /\ raced' = IF ready = {} THEN raced ELSE raced \cup {g} \cup ChannelsOf(g)
    /\ UNCHANGED <<exists, tables, readys, ready, calls, faults, gone, early,
                   clean, alone, steady, denied>>

Leave(g) ==
    /\ Change
    /\ g \in member
    /\ member' = member \ {g}
    /\ gone' = gone \cup {g} \cup ChannelsOf(g)
    /\ steady' = steady \ ChecksOf(g)
    /\ UNCHANGED <<exists, tables, readys, ready, tasks, calls, faults, raced,
                   early, clean, alone, denied>>

MakeChannel(c) ==
    /\ Change
    /\ c \notin exists
    /\ exists' = exists \cup {c}
    /\ raced' = raced \cup {c}
    /\ UNCHANGED <<member, tables, readys, ready, tasks, calls, faults, gone,
                   early, clean, alone, steady, denied>>

DeleteChannel(c) ==
    /\ Change
    /\ c \in exists
    /\ exists' = exists \ {c}
    /\ gone' = gone \cup {c}
    /\ steady' = steady \ ChecksOf(GuildOf[c])
    /\ UNCHANGED <<member, tables, readys, ready, tasks, calls, faults, raced,
                   early, clean, alone, denied>>

\* onReady's loop ends when no guild is left to ask about.
Stage(todo) == IF todo = {} THEN "guilds" ELSE "fetch"

\* What goroutines that are under way may still put into the tables.
InFlight == UNION {{t.guild} \cup ChannelsOf(t.guild) : t \in tasks}

\* The gateway session begins: READY, then GUILD_CREATE for every guild.
Ready ==
    /\ readys < MaxReadys
    /\ readys' = readys + 1
    /\ ready' = ready \cup {[n |-> readys + 1, at |-> Stage(member),
                             list |-> member, todo |-> member, synced |-> {}]}
    /\ tasks' = tasks \cup
            {[kind |-> "create", guild |-> g, n |-> readys + 1, at |-> "name",
              todo |-> {}] : g \in member}
    /\ raced' = {}
    /\ gone' = InFlight
    /\ early' = {}
    /\ clean' = TRUE
    /\ alone' = (ready = {})
    /\ steady' = {}
    /\ UNCHANGED <<discord, tables, changes, calls, faults, denied>>

-----------------------------------------------------------------------------
(* onReady.                                                                *)

Advance(r, s) == ready' = (ready \ {r}) \cup {s}

\* One turn of the loop; when the channels of a guild cannot be fetched, it
\* goes on with the next.
FetchGuild(r, g) ==
    /\ r.at = "fetch" /\ g \in r.todo
    /\ LET s == [r EXCEPT !.todo = @ \ {g}, !.at = Stage(r.todo \ {g})] IN
       \/ Advance(r, [s EXCEPT !.synced = @ \cup Visible(g)]) /\ NoFault
       \/ Advance(r, s) /\ Fault
    /\ UNCHANGED <<discord, tables, bounds, tasks, causes, denied>>

\* The rows of the guilds in the READY event.  A name is blank unless the
\* session's state had merged the guild's GUILD_CREATE into the stub by the
\* time the loop read it.
Listed(r) ==
    {f \in [Guilds -> {Absent, Blank, Named}] :
        \A g \in Guilds : f[g] = Absent <=> g \notin r.list}

ReplaceWithoutRollback(r) ==
    /\ r.at = "guilds"
    /\ Advance(r, [r EXCEPT !.at = "channels"])
    /\ \/ guilds' \in Listed(r) /\ NoFault
       \/ guilds' = [g \in Guilds |-> Absent] /\ Fault
    /\ UNCHANGED <<discord, channels, bounds, tasks, causes, denied>>

\* A transaction: readers see the old rows or the new ones.
ReplaceGuilds(r) ==
    /\ r.at = "guilds"
    /\ Advance(r, [r EXCEPT !.at = "channels"])
    /\ \/ guilds' \in Listed(r) /\ NoFault
       \/ guilds' = guilds /\ Fault
    /\ UNCHANGED <<discord, channels, bounds, tasks, causes, denied>>

AddChannels(r) ==
    /\ r.at = "channels"
    /\ ready' = ready \ {r}
    /\ \/ channels' = channels \cup r.synced /\ NoFault
       \/ channels' = channels /\ Fault
    /\ UNCHANGED <<discord, guilds, bounds, tasks, causes, denied>>

ReplaceChannels(r) ==
    /\ r.at = "channels"
    /\ ready' = ready \ {r}
    /\ \/ channels' = r.synced /\ NoFault
       \/ channels' = channels /\ Fault
    /\ UNCHANGED <<discord, guilds, bounds, tasks, causes, denied>>

-----------------------------------------------------------------------------
(* onGuildCreate, resolveChannel and CheckBotGuild with syncGuild.         *)

Continue(t, u) == tasks' = (tasks \ {t}) \cup {u}
End(t) == tasks' = tasks \ {t}

UpsertGuild(t) ==
    /\ t.kind = "create" /\ t.at = "name"
    /\ Continue(t, [t EXCEPT !.at = "fetch"])
    /\ \/ guilds' = [guilds EXCEPT ![t.guild] = Named] /\ NoFault
       \/ guilds' = guilds /\ Fault
    /\ early' = IF ready = {} THEN early ELSE early \cup {t.guild}
    /\ UNCHANGED <<discord, channels, bounds, ready, raced, gone, denied>>

\* Wherever t is, it goes on with the channels S to store.
Storing(t, S) ==
    IF S # {} THEN Continue(t, [t EXCEPT !.at = "store", !.todo = S])
    ELSE IF t.kind = "check"
         THEN Continue(t, [t EXCEPT !.at = "again", !.todo = {}])
         ELSE End(t)

\* A check that fails to fetch answers that the bot is not in the guild.
FetchChannels(t) ==
    /\ t.at = "fetch"
    /\ \/ Storing(t, Visible(t.guild)) /\ NoFault
       \/ End(t) /\ Fault
    /\ UNCHANGED <<discord, tables, bounds, ready, causes, denied>>

UpsertChannel(t, c) ==
    /\ t.at = "store" /\ c \in t.todo
    /\ Storing(t, t.todo \ {c})
    /\ \/ channels' = channels \cup {c} /\ NoFault
       \/ channels' = channels /\ Fault
    /\ UNCHANGED <<discord, guilds, bounds, ready, causes, denied>>

Call == calls < MaxCalls /\ calls' = calls + 1

\* Posting or reading by a channel's id or name finds it live at Discord and
\* stores its row.
ResolveChannel(c) ==
    /\ Call
    /\ c \in Visible(GuildOf[c])
    /\ tasks' = NewTask("resolve", GuildOf[c], MaxReadys + calls + 1, "store",
                        {c})
    /\ UNCHANGED <<discord, tables, readys, ready, changes, faults, ghosts>>

\* CheckBotGuild looks for rows first.
BeginCheck(g) ==
    /\ Call
    /\ tasks' = IF HasGuild(g) THEN tasks
                ELSE NewTask("check", g, MaxReadys + calls + 1, "fetch", {})
    /\ steady' = IF ready = {} /\ Visible(g) # {}
                 THEN steady \cup {MaxReadys + calls + 1} ELSE steady
    /\ UNCHANGED <<discord, tables, readys, ready, changes, faults, causes,
                   clean, alone, denied>>

CheckByListing(t) ==
    /\ t.kind = "check" /\ t.at = "again"
    /\ End(t)
    /\ denied' = (denied \/ (~HasGuildRow(t.guild) /\ t.n \in steady))
    /\ UNCHANGED <<discord, tables, bounds, ready, faults, causes, clean,
                   alone, steady>>

\* ... and again after a live synchronisation.
AnswerCheck(t) ==
    /\ t.kind = "check" /\ t.at = "again"
    /\ End(t)
    /\ denied' = (denied \/ (~HasGuild(t.guild) /\ t.n \in steady))
    /\ UNCHANGED <<discord, tables, bounds, ready, faults, causes, clean,
                   alone, steady>>

-----------------------------------------------------------------------------

Next ==
    \/ \E g \in Guilds : Join(g) \/ Leave(g) \/ BeginCheck(g)
    \/ \E c \in Channels :
        MakeChannel(c) \/ DeleteChannel(c) \/ ResolveChannel(c)
    \/ Ready
    \/ \E r \in ready :
        \/ \E g \in r.todo : FetchGuild(r, g)
        \/ ReplaceGuilds(r) \/ ReplaceChannels(r)
    \/ \E t \in tasks :
        \/ UpsertGuild(t) \/ FetchChannels(t) \/ AnswerCheck(t)
        \/ \E c \in t.todo : UpsertChannel(t, c)

Spec == Init /\ [][Next]_vars

-----------------------------------------------------------------------------
(* Properties.                                                             *)

Quiet == readys > 0 /\ ready = {} /\ tasks = {}

\* When no goroutine is at work, nothing failed since the last READY and no
\* earlier onReady was still at work then, the tables list the guilds the bot is
\* in and their channels.  A guild is
\* missing only if it was joined while onReady was at work, and a channel also
\* if it was made since; a row is left over only if its guild or channel went
\* away since the READY, or a goroutine from before the READY brought it back;
\* and a name is blank only if onGuildCreate wrote it before onReady did.
CatalogFollows ==
    (Quiet /\ clean /\ alone) =>
        /\ \A g \in Guilds :
            /\ g \in member => HasGuildRow(g) \/ g \in raced
            /\ HasGuildRow(g) => g \in member \/ g \in gone
            /\ (guilds[g] = Blank /\ g \in member) => g \in early
        /\ \A c \in Channels :
            /\ c \in Visible(GuildOf[c]) => c \in channels \/ c \in raced
            /\ c \in channels => c \in Visible(GuildOf[c]) \/ c \in gone

\* A reader never sees a guild vanish that the bot is in, whatever fails, unless
\* it was joined while onReady was at work (client.go 361 works from the list of
\* the READY event) or two onReadys overlap; nor a channel, unless besides it
\* was made since the READY event, or a call failed: when the channels of a
\* guild cannot be fetched, onReady drops them.
NeverVanishes ==
    [][/\ \A g \in member : HasGuildRow(g) =>
            HasGuildRow(g)' \/ g \in raced \/ ~alone
       /\ \A c \in channels : c \in Visible(GuildOf[c]) =>
            c \in channels' \/ c \in raced \/ ~alone \/ ~clean]_vars

\* A check denies a guild the bot is in, and that has text channels, only after
\* a fault or while the tables are being replaced: even if no row was there.
NeverDenied == ~denied
=============================================================================
