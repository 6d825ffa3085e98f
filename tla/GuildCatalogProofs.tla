------------------------- MODULE GuildCatalogProofs -------------------------
(***************************************************************************)
(* Theorems about GuildCatalog, for any guilds and channels, any number of *)
(* sessions, changes, lookups and faults.                                  *)
(***************************************************************************)
EXTENDS GuildCatalog, TLAPS

\* The channels a lookup at Discord would find.
Shown == {c \in Channels : c \in Visible(GuildOf[c])}

\* The name of g is still to be stored by its onGuildCreate.
Naming(g) == \E t \in tasks : t.kind = "create" /\ t.at = "name" /\ t.guild = g

\* The row of c is still to be stored, by an onGuildCreate or a live lookup.
Coming(c) ==
    \E t \in tasks :
        \/ t.kind = "create" /\ t.at \in {"name", "fetch"} /\ t.guild = GuildOf[c]
        \/ c \in t.todo

\* What a goroutine stores was at Discord, or went away since the last READY.  A
\* check that nothing disturbed has something to find.
TaskOK(t) ==
    /\ t.todo \subseteq ChannelsOf(t.guild) \cap (Shown \cup gone)
    /\ t.todo # {} <=> t.at = "store"
    /\ t.kind = "create" => t.guild \in member \cup gone
    /\ t.kind = "check" => t.n <= MaxReadys + calls
    /\ t.kind = "check" /\ t.n \in steady =>
           /\ Visible(t.guild) # {}
           /\ t.at = "again" => HasGuild(t.guild)

\* What onReady has collected, and has still to ask for, covers what is there.
RunOK(r) ==
    /\ r.at # "fetch" => r.todo = {}
    /\ r.at # "channels" =>
           /\ member \subseteq r.list \cup raced
           /\ r.list \subseteq member \cup gone
           /\ \A g \in r.list : g \in early \/ Naming(g)
    /\ r.synced \subseteq Shown \cup gone
    /\ clean = TRUE => \A c \in Shown :
                   c \in raced \/ GuildOf[c] \in r.todo \/ c \in r.synced

\* The table of guilds once onReady has replaced it, ...
GuildsOK ==
    \A g \in Guilds :
        /\ g \in member => HasGuildRow(g) \/ g \in raced \/ Naming(g)
        /\ HasGuildRow(g) => g \in member \cup gone
        /\ guilds[g] = Blank => g \in early \/ Naming(g)

\* ... and that of channels when onReady has ended.
ChannelsOK ==
    /\ \A c \in Shown : c \in channels \/ c \in raced \/ Coming(c)
    /\ channels \subseteq Shown \cup gone

TasksOK == \A t \in tasks : TaskOK(t)

AloneOK ==
    alone = TRUE =>
        /\ \A r, s \in ready : r = s
        /\ \A r \in ready : RunOK(r)
        /\ clean = TRUE /\ (\A r \in ready : r.at = "channels") => GuildsOK
        /\ clean = TRUE /\ ready = {} => ChannelsOK

SteadyOK ==
    /\ steady # {} => ready = {}
    /\ denied = FALSE
    /\ readys = 0 => ready = {} /\ clean = FALSE
    /\ \A n \in steady : n <= MaxReadys + calls

IInv == TypeOK /\ TasksOK /\ AloneOK /\ SteadyOK
USE DEF discord, tables, bounds, causes, ghosts

-----------------------------------------------------------------------------
(* Types.                                                                  *)

\* The places and the facts that rest on the constants alone.
LEMMA Places ==
  /\ \A c \in Channels : GuildOf[c] \in Guilds
  /\ \A g : ChannelsOf(g) \subseteq Channels /\ Visible(g) \subseteq ChannelsOf(g)
  /\ MaxReadys \in Nat /\ MaxChanges \in Nat /\ MaxCalls \in Nat /\ MaxFaults \in Nat
  BY CatalogAssumption DEF ChannelsOf, Visible

\* A fault, or none, keeps the types of what it counts and switches off.
LEMMA FaultTyped ==
  ASSUME TypeOK, Fault \/ NoFault
  PROVE  /\ faults' \in 0..MaxFaults /\ clean' \in BOOLEAN /\ alone' \in BOOLEAN
         /\ steady' \subseteq steady
         /\ alone' = alone
         /\ NoFault => clean' = clean
         /\ Fault => clean' = FALSE /\ steady' = {}
<1>t. /\ clean \in BOOLEAN /\ alone \in BOOLEAN
      /\ faults \in 0..MaxFaults /\ MaxFaults \in Nat
  BY Places DEF TypeOK
<1>1. ASSUME Fault
      PROVE  /\ faults' \in 0..MaxFaults /\ alone' = alone
             /\ clean' = FALSE /\ steady' = {}
  <2>1. faults' \in 0..MaxFaults
    BY <1>t, <1>1 DEF Fault
  <2> QED
    BY <1>1, <2>1, Zenon DEF Fault
<1>2. ASSUME NoFault
      PROVE  faults' = faults /\ alone' = alone /\ clean' = clean /\ steady' = steady
  BY <1>2, Zenon DEF NoFault
<1>3. faults' \in 0..MaxFaults
  BY <1>t, <1>1, <1>2
<1>4. clean' \in BOOLEAN /\ alone' \in BOOLEAN
  BY <1>t, <1>1, <1>2, Zenon
<1>5. steady' \subseteq steady
  BY <1>1, <1>2
<1> QED
  BY <1>1, <1>2, <1>3, <1>4, <1>5, Zenon

LEMMA NewTaskTyped ==
  ASSUME TypeOK, NEW kind \in {"create", "resolve", "check"}, NEW g \in Guilds,
         NEW n \in 0..(MaxReadys + MaxCalls),
         NEW at \in {"name", "fetch", "store", "again"}, NEW todo \in SUBSET Channels
  PROVE  NewTask(kind, g, n, at, todo) \subseteq Task
  BY DEF TypeOK, NewTask, Task

\* A goroutine goes on with channels to store, or ends.
LEMMA StoringTyped ==
  ASSUME TypeOK, NEW t \in tasks, NEW S \in SUBSET Channels, Storing(t, S)
  PROVE  tasks' \subseteq Task
<1>1. t \in Task /\ tasks \subseteq Task
  BY DEF TypeOK
<1>2. /\ [t EXCEPT !.at = "store", !.todo = S] \in Task
      /\ [t EXCEPT !.at = "again", !.todo = {}] \in Task
  BY <1>1 DEF Task
<1> QED
  BY <1>1, <1>2 DEF Storing, Continue, End

LEMMA TypeInit == Init => TypeOK
<1> SUFFICES ASSUME Init
             PROVE  TypeOK
  OBVIOUS
<1>1. /\ readys \in 0..MaxReadys /\ changes \in 0..MaxChanges /\ calls \in 0..MaxCalls
      /\ faults \in 0..MaxFaults
  BY Places DEF Init
<1>2. clean \in BOOLEAN /\ alone \in BOOLEAN /\ denied \in BOOLEAN
  BY DEF Init
<1>3. guilds \in [Guilds -> {Absent, Blank, Named}] /\ channels \subseteq Channels
  BY DEF Init
<1> QED
  BY <1>1, <1>2, <1>3 DEF Init, TypeOK

LEMMA TypeNext == TypeOK /\ [Next]_vars => TypeOK'
<1> SUFFICES ASSUME TypeOK, [Next]_vars
             PROVE  TypeOK'
  OBVIOUS
<1> USE Places
<1>1. ASSUME NEW g \in Guilds, Join(g) PROVE TypeOK'
  <2>1. tasks' \subseteq Task
    <3>1. 0 \in 0..(MaxReadys + MaxCalls)
      OBVIOUS
    <3> QED
      BY <1>1, <3>1, NewTaskTyped DEF Join, TypeOK
  <2> QED
    BY <1>1, <2>1 DEF TypeOK, Join, Change
<1>2. ASSUME NEW g \in Guilds, Leave(g) PROVE TypeOK'
  <2>1. gone' \subseteq Guilds \cup Channels
    BY <1>2 DEF TypeOK, Leave
  <2>2. steady' \subseteq steady
    BY <1>2 DEF Leave
  <2>3. changes' \in 0..MaxChanges
    BY <1>2 DEF TypeOK, Leave, Change
  <2> QED
    BY <1>2, <2>1, <2>2, <2>3 DEF TypeOK, Leave
<1>3. ASSUME NEW g \in Guilds, BeginCheck(g) PROVE TypeOK'
  <2>1. calls' \in 0..MaxCalls /\ MaxReadys + calls + 1 \in 0..(MaxReadys + MaxCalls)
    BY <1>3 DEF BeginCheck, Call, TypeOK
  <2>2. tasks' \subseteq Task
    BY <1>3, <2>1, NewTaskTyped DEF BeginCheck, TypeOK
  <2> QED
    BY <1>3, <2>1, <2>2 DEF TypeOK, BeginCheck
<1>4. ASSUME NEW c \in Channels, MakeChannel(c) PROVE TypeOK'
  BY <1>4 DEF TypeOK, MakeChannel, Change
<1>5. ASSUME NEW c \in Channels, DeleteChannel(c) PROVE TypeOK'
  <2>1. gone' \subseteq Guilds \cup Channels
    BY <1>5 DEF TypeOK, DeleteChannel
  <2>2. steady' \subseteq steady
    BY <1>5 DEF DeleteChannel
  <2>3. changes' \in 0..MaxChanges
    BY <1>5 DEF TypeOK, DeleteChannel, Change
  <2> QED
    BY <1>5, <2>1, <2>2, <2>3 DEF TypeOK, DeleteChannel
<1>6. ASSUME NEW c \in Channels, ResolveChannel(c) PROVE TypeOK'
  <2>1. calls' \in 0..MaxCalls /\ MaxReadys + calls + 1 \in 0..(MaxReadys + MaxCalls)
    BY <1>6 DEF ResolveChannel, Call, TypeOK
  <2>2. tasks' \subseteq Task
    BY <1>6, <2>1, NewTaskTyped DEF ResolveChannel, TypeOK
  <2> QED
    BY <1>6, <2>1, <2>2 DEF TypeOK, ResolveChannel
<1>7. ASSUME Ready PROVE TypeOK'
  <2>1. readys' \in 0..MaxReadys /\ readys + 1 \in 1..MaxReadys
        /\ readys + 1 \in 0..(MaxReadys + MaxCalls)
    BY <1>7 DEF Ready, TypeOK
  <2>2. ready' \subseteq Run
    BY <1>7, <2>1 DEF Ready, TypeOK, Run, Stage
  <2>3. tasks' \subseteq Task
    BY <1>7, <2>1 DEF Ready, TypeOK, Task
  <2>4. gone' \subseteq Guilds \cup Channels
    BY <1>7 DEF Ready, TypeOK, InFlight, Task
  <2>5. clean' \in BOOLEAN /\ alone' \in BOOLEAN
    BY <1>7 DEF Ready
  <2> QED
    BY <1>7, <2>1, <2>2, <2>3, <2>4, <2>5 DEF TypeOK, Ready
<1>8. ASSUME NEW r \in ready, NEW g \in r.todo, FetchGuild(r, g) PROVE TypeOK'
  <2> DEFINE s == [r EXCEPT !.todo = @ \ {g}, !.at = Stage(r.todo \ {g})]
  <2>1. s \in Run /\ [s EXCEPT !.synced = @ \cup Visible(g)] \in Run /\ ready \subseteq Run
    BY DEF TypeOK, Run, Stage
  <2>2. ready' \subseteq Run /\ (Fault \/ NoFault)
    BY <1>8, <2>1 DEF FetchGuild, Advance
  <2> QED
    BY <1>8, <2>2, FaultTyped DEF TypeOK, FetchGuild
<1>9. ASSUME NEW r \in ready, ReplaceGuilds(r) PROVE TypeOK'
  <2>1. [r EXCEPT !.at = "channels"] \in Run /\ ready \subseteq Run
    BY DEF TypeOK, Run
  <2>2. ready' \subseteq Run /\ (Fault \/ NoFault)
        /\ guilds' \in [Guilds -> {Absent, Blank, Named}]
    BY <1>9, <2>1 DEF ReplaceGuilds, Advance, Listed, TypeOK
  <2> QED
    BY <1>9, <2>2, FaultTyped DEF TypeOK, ReplaceGuilds
<1>10. ASSUME NEW r \in ready, ReplaceChannels(r) PROVE TypeOK'
  <2>1. r.synced \subseteq Channels
    BY DEF TypeOK, Run
  <2>2. ready' \subseteq Run /\ (Fault \/ NoFault) /\ channels' \subseteq Channels
    BY <1>10, <2>1 DEF ReplaceChannels, TypeOK
  <2> QED
    BY <1>10, <2>2, FaultTyped DEF TypeOK, ReplaceChannels
<1>11. ASSUME NEW t \in tasks, UpsertGuild(t) PROVE TypeOK'
  <2>1. [t EXCEPT !.at = "fetch"] \in Task /\ tasks \subseteq Task /\ t.guild \in Guilds
    BY DEF TypeOK, Task
  <2>2. tasks' \subseteq Task /\ (Fault \/ NoFault)
        /\ guilds' \in [Guilds -> {Absent, Blank, Named}] /\ early' \subseteq Guilds
    BY <1>11, <2>1 DEF UpsertGuild, Continue, TypeOK
  <2> QED
    BY <1>11, <2>2, FaultTyped DEF TypeOK, UpsertGuild
<1>12. ASSUME NEW t \in tasks, FetchChannels(t) PROVE TypeOK'
  <2>1. Visible(t.guild) \subseteq Channels
    OBVIOUS
  <2>2. tasks' \subseteq Task /\ (Fault \/ NoFault)
    BY <1>12, <2>1, StoringTyped DEF FetchChannels, End, TypeOK
  <2> QED
    BY <1>12, <2>2, FaultTyped DEF TypeOK, FetchChannels
<1>13. ASSUME NEW t \in tasks, AnswerCheck(t) PROVE TypeOK'
  <2>1. tasks' \subseteq Task
    BY <1>13 DEF AnswerCheck, End, TypeOK
  <2>2. denied' \in BOOLEAN
    BY <1>13 DEF AnswerCheck, TypeOK
  <2> QED
    BY <1>13, <2>1, <2>2 DEF TypeOK, AnswerCheck
<1>14. ASSUME NEW t \in tasks, NEW c \in t.todo, UpsertChannel(t, c) PROVE TypeOK'
  <2>1. t.todo \subseteq Channels
    BY DEF TypeOK, Task
  <2>2. t.todo \ {c} \in SUBSET Channels
    BY <2>1
  <2>3. tasks' \subseteq Task
    BY <1>14, <2>2, StoringTyped DEF UpsertChannel
  <2>4. (Fault \/ NoFault) /\ channels' \subseteq Channels
    BY <1>14, <2>1 DEF UpsertChannel, TypeOK
  <2> QED
    BY <1>14, <2>3, <2>4, FaultTyped DEF TypeOK, UpsertChannel
<1>15. ASSUME UNCHANGED vars PROVE TypeOK'
  BY <1>15 DEF TypeOK, vars
<1> QED
  BY <1>1, <1>2, <1>3, <1>4, <1>5, <1>6, <1>7, <1>8, <1>9, <1>10, <1>11, <1>12, <1>13,
     <1>14, <1>15 DEF Next

-----------------------------------------------------------------------------
(* What stays as it is.                                                    *)

\* A goroutine that takes no step.
LEMMA TaskKept ==
  ASSUME NEW t, TaskOK(t), t.n \in Nat, calls \in Nat, calls' \in Nat, calls <= calls',
         Shown \cup gone \subseteq Shown' \cup gone',
         member \cup gone \subseteq member' \cup gone',
         t.kind = "check" /\ t.n \in steady' =>
             /\ t.n \in steady
             /\ Visible(t.guild)' # {}
             /\ HasGuild(t.guild) => HasGuild(t.guild)'
  PROVE  TaskOK(t)'
<1>1. t.todo \subseteq (ChannelsOf(t.guild) \cap (Shown \cup gone))'
  BY DEF TaskOK, ChannelsOf
<1>2. t.kind = "check" => t.n <= MaxReadys + calls'
  BY Places DEF TaskOK
<1> QED
  BY <1>1, <1>2 DEF TaskOK

\* Discord lists more channels only of guilds joined and for channels made.
LEMMA ShownFacts ==
  /\ \A c : c \in Shown <=> c \in Channels /\ c \in exists /\ GuildOf[c] \in member
  /\ \A c, g : c \in Visible(g) <=> /\ c \in Channels /\ GuildOf[c] = g
                                    /\ c \in exists /\ g \in member
  BY DEF Shown, Visible, ChannelsOf

\* The steps that do not concern an onReady.
LEMMA AloneKept ==
  ASSUME AloneOK, UNCHANGED <<ready, alone>>, clean' = TRUE => clean = TRUE,
         raced \subseteq raced', early \subseteq early',
         member \cup gone \subseteq member' \cup gone',
         Shown \cup gone \subseteq Shown' \cup gone',
         ready # {} => member' \subseteq member \cup raced' /\ Shown' \subseteq Shown \cup raced',
         clean' = TRUE => \A g \in member' \ member : g \in raced' \/ Naming(g)',
         clean' = TRUE => \A c \in Shown' \ Shown : c \in raced' \/ Coming(c)',
         \A g \in Guilds : Naming(g) => Naming(g)' \/ g \in early' \/ ready = {},
         clean' = TRUE => \A g \in Guilds :
             \/ guilds'[g] = guilds[g] /\ (Naming(g) => Naming(g)')
             \/ guilds'[g] = Named /\ g \in member' \cup gone',
         clean' = TRUE =>
             /\ \A c \in Shown' : Coming(c) => Coming(c)' \/ c \in channels'
             /\ channels \subseteq channels'
             /\ channels' \subseteq channels \cup Shown' \cup gone',
         \A r \in ready : r.list \subseteq Guilds
  PROVE  AloneOK'
<1> SUFFICES ASSUME alone' = TRUE
             PROVE  /\ \A r, s \in ready' : r = s
                    /\ \A r \in ready' : RunOK(r)'
                    /\ clean' = TRUE /\ (\A r \in ready' : r.at = "channels") => GuildsOK'
                    /\ clean' = TRUE /\ ready' = {} => ChannelsOK'
  BY DEF AloneOK
<1>t. /\ alone = TRUE /\ ready' = ready
      /\ \A r, s \in ready : r = s
      /\ \A r \in ready : RunOK(r)
      /\ clean = TRUE /\ (\A r \in ready : r.at = "channels") => GuildsOK
      /\ clean = TRUE /\ ready = {} => ChannelsOK
  BY DEF AloneOK
<1>1. ASSUME NEW r \in ready
      PROVE  RunOK(r)'
  <2>t. RunOK(r) /\ ready # {} /\ r.list \subseteq Guilds
    BY <1>t, <1>1
  <2>1. r.at # "fetch" => r.todo = {}
    BY <2>t DEF RunOK
  <2>2. r.at # "channels" =>
           /\ member' \subseteq r.list \cup raced'
           /\ r.list \subseteq member' \cup gone'
           /\ \A g \in r.list : g \in early' \/ Naming(g)'
    BY <2>t DEF RunOK
  <2>3. r.synced \subseteq Shown' \cup gone'
    BY <2>t DEF RunOK
  <2>4. clean' = TRUE => \A c \in Shown' :
            c \in raced' \/ GuildOf[c] \in r.todo \/ c \in r.synced
    BY <2>t DEF RunOK
  <2> QED
    BY <2>1, <2>2, <2>3, <2>4 DEF RunOK
<1>2. ASSUME clean' = TRUE, GuildsOK
      PROVE  GuildsOK'
  <2> SUFFICES ASSUME NEW g \in Guilds
               PROVE  /\ g \in member' => guilds'[g] # Absent \/ g \in raced' \/ Naming(g)'
                      /\ guilds'[g] # Absent => g \in member' \cup gone'
                      /\ guilds'[g] = Blank => g \in early' \/ Naming(g)'
    BY DEF GuildsOK, HasGuildRow
  <2>1. CASE guilds'[g] = guilds[g] /\ (Naming(g) => Naming(g)')
    BY <1>2, <2>1 DEF GuildsOK, HasGuildRow
  <2>2. CASE guilds'[g] = Named /\ g \in member' \cup gone'
    BY <2>2 DEF Absent, Blank, Named
  <2> QED
    BY <1>2, <2>1, <2>2
<1>3. ASSUME clean' = TRUE, ChannelsOK
      PROVE  ChannelsOK'
  <2>1. \A c \in Shown' : c \in channels' \/ c \in raced' \/ Coming(c)'
    BY <1>3 DEF ChannelsOK
  <2>2. channels' \subseteq Shown' \cup gone'
    BY <1>3 DEF ChannelsOK
  <2> QED
    BY <2>1, <2>2 DEF ChannelsOK
<1> QED
  BY <1>t, <1>1, <1>2, <1>3

\* Goroutines that are added leave what was to come.
LEMMA MoreTasks ==
  ASSUME tasks \subseteq tasks'
  PROVE  /\ \A g : Naming(g) => Naming(g)'
         /\ \A c : Coming(c) => Coming(c)'
  BY DEF Naming, Coming

\* The steps at Discord, and lookups that begin.
LEMMA DiscordKept ==
  ASSUME AloneOK, TypeOK, UNCHANGED <<ready, alone, clean, guilds, channels, early>>,
         tasks \subseteq tasks', raced \subseteq raced',
         member \cup gone \subseteq member' \cup gone',
         Shown \cup gone \subseteq Shown' \cup gone',
         ready # {} => member' \subseteq member \cup raced' /\ Shown' \subseteq Shown \cup raced',
         clean' = TRUE => \A g \in member' \ member : g \in raced' \/ Naming(g)',
         clean' = TRUE => \A c \in Shown' \ Shown : c \in raced' \/ Coming(c)'
  PROVE  AloneOK'
<1>1. /\ \A g : Naming(g) => Naming(g)'
      /\ \A c : Coming(c) => Coming(c)'
  BY MoreTasks
<1>2. \A r \in ready : r.list \subseteq Guilds
  BY DEF TypeOK, Run
<1> QED
  BY <1>1, <1>2, AloneKept

-----------------------------------------------------------------------------
(* What happens at Discord.                                                *)

\* Names for what the steps start from.
LEMMA InvParts ==
  ASSUME IInv
  PROVE  /\ TypeOK /\ TasksOK /\ AloneOK /\ SteadyOK
         /\ \A t \in tasks : /\ TaskOK(t) /\ t.n \in Nat /\ t.guild \in Guilds
                             /\ t.todo \subseteq Channels /\ t \in Task
         /\ \A r \in ready : /\ r.list \subseteq Guilds /\ r.todo \subseteq Guilds
                             /\ r.synced \subseteq Channels
         /\ calls \in Nat /\ member \subseteq Guilds /\ exists \subseteq Channels
         /\ channels \subseteq Channels
<1>1. TypeOK /\ TasksOK /\ AloneOK /\ SteadyOK
  BY DEF IInv
<1>2. \A t \in tasks : t.n \in Nat /\ t.guild \in Guilds /\ t.todo \subseteq Channels
                       /\ t \in Task
  BY <1>1, Places DEF TypeOK, Task
<1>3. \A r \in ready : r.list \subseteq Guilds /\ r.todo \subseteq Guilds
                       /\ r.synced \subseteq Channels
  BY <1>1 DEF TypeOK, Run
<1> QED
  BY <1>1, <1>2, <1>3, Places DEF TypeOK, TasksOK

LEMMA JoinKeeps ==
  ASSUME IInv, NEW g \in Guilds, Join(g)
  PROVE  TasksOK' /\ AloneOK' /\ SteadyOK'
<1> DEFINE u == [kind |-> "create", guild |-> g, n |-> 0, at |-> "name", todo |-> {}]
<1> USE InvParts
<1>t. /\ member' = member \cup {g} /\ calls' = calls
      /\ UNCHANGED <<exists, guilds, channels, readys, ready, gone, early>>
      /\ UNCHANGED <<clean, alone, steady, denied>>
      /\ raced' = IF ready = {} THEN raced ELSE raced \cup {g} \cup ChannelsOf(g)
      /\ readys = 0 => tasks' = tasks
      /\ readys # 0 => tasks' = tasks \cup {u}
  BY DEF Join, NewTask
<1>1. /\ Shown \subseteq Shown'
      /\ \A c \in Shown' \ Shown : c \in ChannelsOf(g)
  BY <1>t, ShownFacts DEF ChannelsOf, Shown, Visible
<1>2. TasksOK'
  <2>1. ASSUME NEW t \in tasks
        PROVE  TaskOK(t)'
    <3>1. t.kind = "check" /\ t.n \in steady =>
             Visible(t.guild)' # {} /\ (HasGuild(t.guild) => HasGuild(t.guild)')
      BY <1>t, <2>1 DEF TaskOK, Visible, HasGuild, ChannelsOf
    <3> QED
      BY <1>t, <1>1, <2>1, <3>1, TaskKept
  <2>2. TaskOK(u)'
    BY <1>t DEF TaskOK
  <2>3. \A t \in tasks' : t \in tasks \/ t = u
    BY <1>t
  <2> QED
    BY <2>1, <2>2, <2>3 DEF TasksOK
<1>3. AloneOK'
  <2>1. clean' = TRUE => readys # 0
    BY <1>t DEF SteadyOK
  <2>2. clean' = TRUE => Naming(g)' /\ \A c \in ChannelsOf(g) : Coming(c)'
    <3>1. /\ u.kind = "create" /\ u.at = "name" /\ u.guild = g
          /\ \A c \in ChannelsOf(g) : GuildOf[c] = g
      BY DEF ChannelsOf
    <3>2. clean' = TRUE => u \in tasks'
      BY <1>t, <2>1
    <3> HIDE DEF u
    <3> QED
      BY <3>1, <3>2 DEF Naming, Coming
  <2>3. tasks \subseteq tasks' /\ raced \subseteq raced'
    BY <1>t
  <2>4. ready # {} => member' \subseteq member \cup raced' /\ Shown' \subseteq Shown \cup raced'
    BY <1>t, <1>1
  <2> QED
    BY <1>t, <1>1, <2>2, <2>3, <2>4, DiscordKept
<1>4. SteadyOK'
  BY <1>t DEF SteadyOK
<1> QED
  BY <1>2, <1>3, <1>4

LEMMA LeaveKeeps ==
  ASSUME IInv, NEW g \in Guilds, Leave(g)
  PROVE  TasksOK' /\ AloneOK' /\ SteadyOK'
<1> USE InvParts
<1>t. /\ member' = member \ {g} /\ calls' = calls
      /\ UNCHANGED <<exists, guilds, channels, readys, ready, tasks, raced, early>>
      /\ UNCHANGED <<clean, alone, denied>>
      /\ gone' = gone \cup {g} \cup ChannelsOf(g)
      /\ steady' = steady \ ChecksOf(g)
  BY DEF Leave
<1>1. /\ Shown' \subseteq Shown
      /\ Shown \cup gone \subseteq Shown' \cup gone'
  BY <1>t, ShownFacts DEF Shown, Visible, ChannelsOf
<1>2. TasksOK'
  <2>1. ASSUME NEW t \in tasks
        PROVE  TaskOK(t)'
    <3>1. t.kind = "check" /\ t.n \in steady' =>
             /\ t.n \in steady
             /\ Visible(t.guild)' # {} /\ (HasGuild(t.guild) => HasGuild(t.guild)')
      <4>1. t.n \in steady' => t.n \in steady /\ t.guild # g
        BY <1>t, <2>1 DEF ChecksOf
      <4> QED
        BY <1>t, <2>1, <4>1 DEF TaskOK, Visible, HasGuild, ChannelsOf
    <3> QED
      BY <1>t, <1>1, <2>1, <3>1, TaskKept
  <2> QED
    BY <1>t, <2>1 DEF TasksOK
<1>3. AloneOK'
  BY <1>t, <1>1, DiscordKept
<1>4. SteadyOK'
  BY <1>t DEF SteadyOK
<1> QED
  BY <1>2, <1>3, <1>4

LEMMA MakeChannelKeeps ==
  ASSUME IInv, NEW c \in Channels, MakeChannel(c)
  PROVE  TasksOK' /\ AloneOK' /\ SteadyOK'
<1> USE InvParts
<1>t. /\ exists' = exists \cup {c} /\ raced' = raced \cup {c}
      /\ UNCHANGED <<member, guilds, channels, readys, ready, tasks, calls, gone, early>>
      /\ UNCHANGED <<clean, alone, steady, denied>>
  BY DEF MakeChannel
<1>1. Shown \subseteq Shown' /\ Shown' \subseteq Shown \cup {c}
  BY <1>t, ShownFacts DEF Shown, Visible, ChannelsOf
<1>2. TasksOK'
  <2>1. ASSUME NEW t \in tasks
        PROVE  TaskOK(t)'
    <3>1. t.kind = "check" /\ t.n \in steady =>
             Visible(t.guild)' # {} /\ (HasGuild(t.guild) => HasGuild(t.guild)')
      BY <1>t, <2>1 DEF TaskOK, Visible, HasGuild, ChannelsOf
    <3> QED
      BY <1>t, <1>1, <2>1, <3>1, TaskKept
  <2> QED
    BY <1>t, <2>1 DEF TasksOK
<1>3. AloneOK'
  BY <1>t, <1>1, DiscordKept
<1>4. SteadyOK'
  BY <1>t DEF SteadyOK
<1> QED
  BY <1>2, <1>3, <1>4

LEMMA DeleteChannelKeeps ==
  ASSUME IInv, NEW c \in Channels, DeleteChannel(c)
  PROVE  TasksOK' /\ AloneOK' /\ SteadyOK'
<1> USE InvParts
<1>t. /\ exists' = exists \ {c} /\ gone' = gone \cup {c}
      /\ UNCHANGED <<member, guilds, channels, readys, ready, tasks, calls, raced, early>>
      /\ UNCHANGED <<clean, alone, denied>>
      /\ steady' = steady \ ChecksOf(GuildOf[c])
  BY DEF DeleteChannel
<1>1. /\ Shown' \subseteq Shown
      /\ Shown \cup gone \subseteq Shown' \cup gone'
  BY <1>t, ShownFacts DEF Shown, Visible, ChannelsOf
<1>2. TasksOK'
  <2>1. ASSUME NEW t \in tasks
        PROVE  TaskOK(t)'
    <3>1. t.kind = "check" /\ t.n \in steady' =>
             /\ t.n \in steady
             /\ Visible(t.guild)' # {} /\ (HasGuild(t.guild) => HasGuild(t.guild)')
      <4>1. t.n \in steady' => t.n \in steady /\ t.guild # GuildOf[c]
        BY <1>t, <2>1 DEF ChecksOf
      <4> QED
        BY <1>t, <2>1, <4>1 DEF TaskOK, Visible, HasGuild, ChannelsOf
    <3> QED
      BY <1>t, <1>1, <2>1, <3>1, TaskKept
  <2> QED
    BY <1>t, <2>1 DEF TasksOK
<1>3. AloneOK'
  BY <1>t, <1>1, DiscordKept
<1>4. SteadyOK'
  BY <1>t DEF SteadyOK
<1> QED
  BY <1>2, <1>3, <1>4

\* A lookup of a channel that is there.
LEMMA ResolveChannelKeeps ==
  ASSUME IInv, NEW c \in Channels, ResolveChannel(c)
  PROVE  TasksOK' /\ AloneOK' /\ SteadyOK'
<1> USE InvParts
<1>u. PICK u : u = [kind |-> "resolve", guild |-> GuildOf[c], n |-> MaxReadys + calls + 1,
                    at |-> "store", todo |-> {c}]
  OBVIOUS
<1>t. /\ UNCHANGED <<member, exists, guilds, channels, readys, ready, raced, gone, early>>
      /\ UNCHANGED <<clean, alone, steady, denied>>
      /\ calls' = calls + 1 /\ tasks' = tasks \cup {u}
      /\ c \in Visible(GuildOf[c])
  BY <1>u DEF ResolveChannel, Call, NewTask
<1>1. Shown' = Shown /\ c \in Shown
  BY <1>t DEF Shown, Visible
<1>2. TasksOK'
  <2>1. ASSUME NEW t \in tasks
        PROVE  TaskOK(t)'
    <3>1. t.kind = "check" /\ t.n \in steady =>
             Visible(t.guild)' # {} /\ (HasGuild(t.guild) => HasGuild(t.guild)')
      BY <1>t, <2>1 DEF TaskOK, Visible, HasGuild
    <3> QED
      BY <1>t, <1>1, <2>1, <3>1, TaskKept
  <2>2. TaskOK(u)'
    <3>1. /\ u.kind = "resolve" /\ u.at = "store" /\ u.todo = {c} /\ u.guild = GuildOf[c]
          /\ c \in ChannelsOf(GuildOf[c])
      BY <1>u DEF ChannelsOf
    <3> QED
      BY <1>1, <3>1 DEF TaskOK, ChannelsOf
  <2>3. \A t \in tasks' : t \in tasks \/ t = u
    BY <1>t
  <2> QED
    BY <2>1, <2>2, <2>3 DEF TasksOK
<1>3. AloneOK'
  BY <1>t, <1>1, DiscordKept
<1>4. SteadyOK'
  <2>1. \A n \in steady' : n <= MaxReadys + calls'
    BY <1>t, Places DEF SteadyOK, TypeOK
  <2> QED
    BY <1>t, <2>1 DEF SteadyOK
<1> QED
  BY <1>2, <1>3, <1>4

\* A check that begins has a number no earlier one has.
LEMMA BeginCheckKeeps ==
  ASSUME IInv, NEW g \in Guilds, BeginCheck(g)
  PROVE  TasksOK' /\ AloneOK' /\ SteadyOK'
<1> USE InvParts
<1>k. PICK k \in Nat : k = MaxReadys + calls + 1
  BY Places
<1>u. PICK u : u = [kind |-> "check", guild |-> g, n |-> k, at |-> "fetch", todo |-> {}]
  OBVIOUS
<1>t. /\ UNCHANGED <<member, exists, guilds, channels, readys, ready, raced, gone, early>>
      /\ UNCHANGED <<clean, alone, denied>>
      /\ calls' = calls + 1 /\ tasks' \in {tasks, tasks \cup {u}}
      /\ steady' = IF ready = {} /\ Visible(g) # {} THEN steady \cup {k} ELSE steady
  BY <1>k, <1>u DEF BeginCheck, Call, NewTask
<1>1. Shown' = Shown /\ \A h : Visible(h)' = Visible(h)
  BY <1>t DEF Shown, Visible
<1>2. TasksOK'
  <2>1. ASSUME NEW t \in tasks
        PROVE  TaskOK(t)'
    <3>1. t.kind = "check" /\ t.n \in steady' => t.n \in steady
      <4>1. t.kind = "check" => t.n <= MaxReadys + calls
        BY <2>1 DEF TaskOK
      <4>2. t.kind = "check" => t.n # k
        BY <1>k, <2>1, <4>1, Places
      <4> QED
        BY <1>t, <4>2
    <3>2. t.kind = "check" /\ t.n \in steady =>
             Visible(t.guild)' # {} /\ (HasGuild(t.guild) => HasGuild(t.guild)')
      BY <1>t, <1>1, <2>1 DEF TaskOK, HasGuild
    <3> QED
      BY <1>t, <1>1, <2>1, <3>1, <3>2, TaskKept
  <2>2. TaskOK(u)'
    <3>2. k \in steady' => Visible(g) # {}
      <4>1. CASE Visible(g) = {}
        <5>1. k \notin steady
          BY <1>k, Places DEF SteadyOK
        <5> QED
          BY <1>t, <4>1, <5>1
      <4> QED
        BY <4>1
    <3>3. /\ u.kind = "check" /\ u.at = "fetch" /\ u.guild = g /\ u.n = k /\ u.todo = {}
          /\ k <= MaxReadys + calls'
      BY <1>k, <1>u, <1>t, Places
    <3> QED
      BY <1>1, <3>2, <3>3 DEF TaskOK
  <2>3. \A t \in tasks' : t \in tasks \/ t = u
    BY <1>t
  <2> QED
    BY <2>1, <2>2, <2>3 DEF TasksOK
<1>3. AloneOK'
  BY <1>t, <1>1, DiscordKept
<1>4. SteadyOK'
  <2>1. \A n \in steady' : n <= MaxReadys + calls'
    BY <1>k, <1>t, Places DEF SteadyOK, TypeOK
  <2> QED
    BY <1>t, <2>1 DEF SteadyOK
<1> QED
  BY <1>2, <1>3, <1>4

-----------------------------------------------------------------------------
(* onReady.                                                                *)

\* What was under way is put down as possibly coming back, and the new run has
\* everything still to ask for.
LEMMA ReadyKeeps ==
  ASSUME IInv, Ready
  PROVE  TasksOK' /\ AloneOK' /\ SteadyOK'
<1> USE InvParts
<1>s. PICK s : s = [n |-> readys + 1, at |-> Stage(member), list |-> member,
                    todo |-> member, synced |-> {}]
  OBVIOUS
<1>N. PICK N : N = {[kind |-> "create", guild |-> g, n |-> readys + 1, at |-> "name",
                     todo |-> {}] : g \in member}
  OBVIOUS
<1>t. /\ UNCHANGED <<member, exists, guilds, channels, calls, denied>>
      /\ readys' = readys + 1
      /\ ready' = ready \cup {s} /\ tasks' = tasks \cup N
      /\ raced' = {} /\ gone' = InFlight /\ early' = {}
      /\ steady' = {}
  BY <1>s, <1>N DEF Ready
<1>b. clean' = TRUE /\ (alone' = TRUE => ready = {})
  BY Zenon DEF Ready
<1>n. \A t \in N : t.kind = "create" /\ t.at = "name" /\ t.guild \in member /\ t.todo = {}
  BY <1>N
<1>1. Shown' = Shown
  BY <1>t DEF Shown, Visible
<1>2. TasksOK'
  <2>1. ASSUME NEW t \in tasks
        PROVE  TaskOK(t)'
    <3>1. t.guild \in gone' /\ ChannelsOf(t.guild) \subseteq gone'
      BY <1>t, <2>1 DEF InFlight
    <3>2. TaskOK(t)
      BY <2>1
    <3>3. t.todo \subseteq (ChannelsOf(t.guild) \cap (Shown \cup gone))'
      BY <3>1, <3>2 DEF TaskOK, ChannelsOf
    <3> QED
      BY <1>t, <3>1, <3>2, <3>3 DEF TaskOK
  <2>2. ASSUME NEW t \in N
        PROVE  TaskOK(t)'
    BY <1>t, <1>n, <2>2 DEF TaskOK
  <2> QED
    BY <1>t, <2>1, <2>2 DEF TasksOK
<1>3. AloneOK'
  <2>1. /\ s.at \in {"guilds", "fetch"} /\ s.list = member /\ s.todo = member
        /\ s.synced = {} /\ (s.at # "fetch" => s.todo = {})
    BY <1>s DEF Stage
  <2>2. \A g \in member : Naming(g)'
    <3> SUFFICES ASSUME NEW g \in member
                 PROVE  Naming(g)'
      OBVIOUS
    <3>1. PICK t : t = [kind |-> "create", guild |-> g, n |-> readys + 1, at |-> "name",
                        todo |-> {}]
      OBVIOUS
    <3>2. t \in N /\ t.guild = g
      BY <1>N, <3>1
    <3> QED
      BY <1>t, <1>n, <3>2 DEF Naming
  <2>3. \A c \in Shown : GuildOf[c] \in member
    BY ShownFacts
  <2>4. RunOK(s)'
    BY <1>t, <1>1, <2>1, <2>2, <2>3 DEF RunOK
  <2>5. alone' = TRUE => ready' = {s}
    BY <1>t, <1>b
  <2> QED
    BY <2>1, <2>4, <2>5 DEF AloneOK
<1>4. SteadyOK'
  BY <1>t DEF SteadyOK, TypeOK
<1> QED
  BY <1>2, <1>3, <1>4

\* What a step of an onReady, or of another goroutine, does to the ghosts.
LEMMA FaultFacts ==
  ASSUME IInv, Fault \/ NoFault
  PROVE  /\ alone' = alone /\ (clean' = TRUE => clean = TRUE)
         /\ (clean' = TRUE => NoFault)
         /\ steady' \subseteq steady
         /\ (readys = 0 => clean' = FALSE)
<1>1. /\ alone' = alone /\ steady' \subseteq steady
      /\ NoFault => clean' = clean
      /\ Fault => clean' = FALSE
      /\ clean' \in BOOLEAN
  BY InvParts, FaultTyped
<1>2. readys = 0 => clean = FALSE
  BY InvParts, Zenon DEF SteadyOK
<1> QED
  BY <1>1, <1>2, Zenon

\* The goroutines keep what they have when an onReady takes a step.
LEMMA RunTasksKept ==
  ASSUME IInv, ready # {}, UNCHANGED <<member, exists, tasks, calls, gone>>,
         steady' \subseteq steady
  PROVE  TasksOK' /\ Shown' = Shown /\ steady' = {}
         /\ (\A g : Naming(g)' = Naming(g)) /\ (\A c : Coming(c)' = Coming(c))
<1> USE InvParts
<1>1. steady' = {}
  BY DEF SteadyOK
<1>2. Shown' = Shown /\ (\A g : Visible(g)' = Visible(g))
  BY DEF Shown, Visible
<1>3. ASSUME NEW t \in tasks
      PROVE  TaskOK(t)'
  BY <1>1, <1>2, <1>3, TaskKept
<1>4. TasksOK'
  BY <1>3 DEF TasksOK
<1>5. (\A g : Naming(g)' = Naming(g)) /\ (\A c : Coming(c)' = Coming(c))
  BY DEF Naming, Coming
<1> QED
  BY <1>1, <1>2, <1>4, <1>5

\* What a run has asked for moves from what is to come to what was found.
LEMMA FetchGuildKeeps ==
  ASSUME IInv, NEW r \in ready, NEW g \in r.todo, FetchGuild(r, g)
  PROVE  TasksOK' /\ AloneOK' /\ SteadyOK'
<1> USE InvParts
<1>t. /\ UNCHANGED <<member, exists, guilds, channels, tasks, readys, calls>>
      /\ UNCHANGED <<raced, gone, early, denied>>
      /\ r.at = "fetch" /\ (Fault \/ NoFault)
  BY DEF FetchGuild
<1>s. PICK s : /\ ready' = (ready \ {r}) \cup {s}
               /\ s.at = Stage(r.todo \ {g}) /\ s.todo = r.todo \ {g} /\ s.list = r.list
               /\ r.synced \subseteq s.synced /\ s.synced \subseteq r.synced \cup Visible(g)
               /\ Fault \/ Visible(g) \subseteq s.synced
  <2>1. r \in Run
    BY DEF TypeOK
  <2> DEFINE s == [r EXCEPT !.todo = @ \ {g}, !.at = Stage(r.todo \ {g})]
             w == [s EXCEPT !.synced = @ \cup Visible(g)]
  <2>2. /\ s.at = Stage(r.todo \ {g}) /\ s.todo = r.todo \ {g} /\ s.list = r.list
        /\ s.synced = r.synced
        /\ w.at = s.at /\ w.todo = s.todo /\ w.list = s.list
        /\ w.synced = r.synced \cup Visible(g)
    BY <2>1 DEF Run
  <2>3. \/ ready' = (ready \ {r}) \cup {w}
        \/ ready' = (ready \ {r}) \cup {s} /\ Fault
    BY DEF FetchGuild, Advance
  <2> HIDE DEF s, w
  <2> QED
    BY <2>2, <2>3
<1>f. /\ alone' = alone /\ (clean' = TRUE => clean = TRUE) /\ (clean' = TRUE => NoFault)
      /\ steady' \subseteq steady /\ (readys = 0 => clean' = FALSE)
      /\ (Fault => clean' = FALSE)
  BY <1>t, FaultFacts, FaultTyped
<1>1. /\ TasksOK' /\ Shown' = Shown /\ steady' = {}
      /\ (\A h : Naming(h)' = Naming(h))
  BY <1>t, <1>f, RunTasksKept
<1>2. AloneOK'
  <2>0. AloneOK
    OBVIOUS
  <2> SUFFICES ASSUME alone' = TRUE
               PROVE  /\ \A x, y \in ready' : x = y
                      /\ \A x \in ready' : RunOK(x)'
                      /\ ~(\A x \in ready' : x.at = "channels")
                      /\ ready' # {}
    BY DEF AloneOK
  <2>1. ready' = {s} /\ RunOK(r)
    BY <1>s, <1>f, <2>0 DEF AloneOK
  <2>2. s.at \in {"guilds", "fetch"} /\ (s.at # "fetch" => s.todo = {})
    BY <1>s DEF Stage
  <2>3. s.synced \subseteq Shown \cup gone
    <3>1. Visible(g) \subseteq Shown
      BY ShownFacts
    <3> QED
      BY <1>s, <2>1, <3>1 DEF RunOK
  <2>4. ASSUME clean' = TRUE, NEW c \in Shown
        PROVE  c \in raced \/ GuildOf[c] \in s.todo \/ c \in s.synced
    <3>1. clean = TRUE /\ Visible(g) \subseteq s.synced
      BY <1>s, <1>f, <2>4
    <3>2. c \in raced \/ GuildOf[c] \in r.todo \/ c \in r.synced
      BY <2>1, <2>4, <3>1 DEF RunOK
    <3>3. GuildOf[c] = g => c \in Visible(g)
      BY <2>4, ShownFacts
    <3> QED
      BY <1>s, <3>1, <3>2, <3>3
  <2>5. /\ member \subseteq s.list \cup raced /\ s.list \subseteq member \cup gone
        /\ \A h \in s.list : h \in early \/ Naming(h)
    BY <1>t, <1>s, <2>1 DEF RunOK
  <2>6. RunOK(s)'
    BY <1>t, <1>1, <2>2, <2>3, <2>4, <2>5 DEF RunOK
  <2> QED
    BY <2>1, <2>2, <2>6
<1>3. SteadyOK'
  <2>1. readys # 0
    BY DEF SteadyOK
  <2> QED
    BY <1>t, <1>1, <2>1 DEF SteadyOK
<1> QED
  BY <1>1, <1>2, <1>3

\* The table of guilds becomes the list of the READY event.
LEMMA ReplaceGuildsKeeps ==
  ASSUME IInv, NEW r \in ready, ReplaceGuilds(r)
  PROVE  TasksOK' /\ AloneOK' /\ SteadyOK'
<1> USE InvParts
<1>t. /\ UNCHANGED <<member, exists, channels, tasks, readys, calls>>
      /\ UNCHANGED <<raced, gone, early, denied>>
      /\ r.at = "guilds" /\ (Fault \/ NoFault)
      /\ guilds' \in Listed(r) \/ Fault
  BY DEF ReplaceGuilds
<1>s. PICK s : /\ ready' = (ready \ {r}) \cup {s}
               /\ s.at = "channels" /\ s.todo = r.todo /\ s.list = r.list
               /\ s.synced = r.synced
  <2>1. r \in Run
    BY DEF TypeOK
  <2> DEFINE s == [r EXCEPT !.at = "channels"]
  <2>2. s.at = "channels" /\ s.todo = r.todo /\ s.list = r.list /\ s.synced = r.synced
    BY <2>1 DEF Run
  <2>3. ready' = (ready \ {r}) \cup {s}
    BY DEF ReplaceGuilds, Advance
  <2> HIDE DEF s
  <2> QED
    BY <2>2, <2>3
<1>f. /\ alone' = alone /\ (clean' = TRUE => clean = TRUE)
      /\ steady' \subseteq steady /\ (Fault => clean' = FALSE)
  BY <1>t, FaultFacts, FaultTyped
<1>1. /\ TasksOK' /\ Shown' = Shown /\ steady' = {}
      /\ (\A h : Naming(h)' = Naming(h))
  BY <1>t, <1>f, RunTasksKept
<1>2. AloneOK'
  <2>0. AloneOK
    OBVIOUS
  <2> SUFFICES ASSUME alone' = TRUE
               PROVE  /\ \A x, y \in ready' : x = y
                      /\ \A x \in ready' : RunOK(x)'
                      /\ clean' = TRUE => GuildsOK'
                      /\ ready' # {}
    BY DEF AloneOK
  <2>1. ready' = {s} /\ RunOK(r)
    BY <1>s, <1>f, <2>0 DEF AloneOK
  <2>2. RunOK(s)'
    BY <1>t, <1>s, <1>f, <1>1, <2>1 DEF RunOK
  <2>3. /\ member \subseteq r.list \cup raced /\ r.list \subseteq member \cup gone
        /\ \A h \in r.list : h \in early \/ Naming(h)
    BY <1>t, <2>1 DEF RunOK
  <2>4. ASSUME clean' = TRUE
        PROVE  GuildsOK'
    <3>1. \A h \in Guilds : guilds'[h] = Absent <=> h \notin r.list
      BY <1>t, <1>f, <2>4 DEF Listed
    <3>2. Blank # Absent
      BY DEF Blank, Absent
    <3> QED
      BY <1>t, <1>1, <2>3, <3>1, <3>2 DEF GuildsOK, HasGuildRow
  <2> QED
    BY <2>1, <2>2, <2>4
<1>3. SteadyOK'
  <2>1. readys # 0
    BY DEF SteadyOK
  <2> QED
    BY <1>t, <1>1, <2>1 DEF SteadyOK
<1> QED
  BY <1>1, <1>2, <1>3

\* The table of channels becomes what the run has found.
LEMMA ReplaceChannelsKeeps ==
  ASSUME IInv, NEW r \in ready, ReplaceChannels(r)
  PROVE  TasksOK' /\ AloneOK' /\ SteadyOK'
<1> USE InvParts
<1>t. /\ UNCHANGED <<member, exists, guilds, tasks, readys, calls>>
      /\ UNCHANGED <<raced, gone, early, denied>>
      /\ r.at = "channels" /\ (Fault \/ NoFault)
      /\ channels' = r.synced \/ Fault
      /\ ready' = ready \ {r}
  BY DEF ReplaceChannels
<1>f. /\ alone' = alone /\ (clean' = TRUE => clean = TRUE)
      /\ steady' \subseteq steady /\ (Fault => clean' = FALSE)
  BY <1>t, FaultFacts, FaultTyped
<1>1. /\ TasksOK' /\ Shown' = Shown /\ steady' = {}
      /\ (\A h : Naming(h)' = Naming(h)) /\ (\A c : Coming(c)' = Coming(c))
  BY <1>t, <1>f, RunTasksKept
<1>2. AloneOK'
  <2>0. AloneOK
    OBVIOUS
  <2> SUFFICES ASSUME alone' = TRUE
               PROVE  ready' = {} /\ (clean' = TRUE => GuildsOK' /\ ChannelsOK')
    BY DEF AloneOK
  <2>1. /\ ready' = {} /\ RunOK(r) /\ \A x \in ready : x = r
        /\ clean = TRUE /\ (\A x \in ready : x.at = "channels") => GuildsOK
    BY <1>t, <1>f, <2>0 DEF AloneOK
  <2>2. ASSUME clean' = TRUE
        PROVE  GuildsOK' /\ ChannelsOK'
    <3>1. clean = TRUE /\ channels' = r.synced /\ GuildsOK
      BY <1>t, <1>f, <2>1, <2>2
    <3>2. GuildsOK'
      BY <1>t, <1>1, <3>1 DEF GuildsOK, HasGuildRow
    <3>3. /\ \A c \in Shown : c \in raced \/ c \in r.synced
          /\ r.synced \subseteq Shown \cup gone
      BY <1>t, <2>1, <3>1 DEF RunOK
    <3> QED
      BY <1>t, <1>1, <3>1, <3>2, <3>3 DEF ChannelsOK
  <2> QED
    BY <2>1, <2>2
<1>3. SteadyOK'
  <2>1. readys # 0
    BY DEF SteadyOK
  <2> QED
    BY <1>t, <1>1, <2>1 DEF SteadyOK
<1> QED
  BY <1>1, <1>2, <1>3

-----------------------------------------------------------------------------
(* The other goroutines.                                                   *)

\* The goroutines that do not take the step, and what Discord lists.
LEMMA OthersKept ==
  ASSUME IInv, UNCHANGED <<member, exists, calls, gone>>, steady' \subseteq steady,
         channels \subseteq channels'
  PROVE  /\ \A t \in tasks : TaskOK(t)'
         /\ Shown' = Shown /\ \A g : Visible(g)' = Visible(g)
<1> USE InvParts
<1>1. Shown' = Shown /\ (\A g : Visible(g)' = Visible(g))
  BY DEF Shown, Visible
<1>2. ASSUME NEW t \in tasks
      PROVE  TaskOK(t)'
  <2>1. t.kind = "check" /\ t.n \in steady =>
           Visible(t.guild)' # {} /\ (HasGuild(t.guild) => HasGuild(t.guild)')
    BY <1>1, <1>2 DEF TaskOK, HasGuild, ChannelsOf
  <2> QED
    BY <1>1, <1>2, <2>1, TaskKept
<1> QED
  BY <1>1, <1>2

LEMMA SteadyKept ==
  ASSUME IInv, Fault \/ NoFault, UNCHANGED <<ready, readys, calls>>, denied' = FALSE
  PROVE  SteadyOK'
<1>1. steady' \subseteq steady /\ (readys = 0 => clean' = FALSE)
  BY FaultFacts
<1>2. /\ steady # {} => ready = {}
      /\ readys = 0 => ready = {}
      /\ \A n \in steady : n <= MaxReadys + calls
  BY InvParts DEF SteadyOK
<1> QED
  BY <1>1, <1>2 DEF SteadyOK

\* An onGuildCreate names its guild.
LEMMA UpsertGuildKeeps ==
  ASSUME IInv, NEW t \in tasks, UpsertGuild(t)
  PROVE  TasksOK' /\ AloneOK' /\ SteadyOK'
<1> USE InvParts
<1>t. /\ UNCHANGED <<member, exists, channels, ready, readys, calls>>
      /\ UNCHANGED <<raced, gone, denied>>
      /\ t.kind = "create" /\ t.at = "name" /\ (Fault \/ NoFault)
      /\ Fault \/ guilds' = [guilds EXCEPT ![t.guild] = Named]
      /\ early' = IF ready = {} THEN early ELSE early \cup {t.guild}
  BY DEF UpsertGuild
<1>u. PICK u : /\ tasks' = (tasks \ {t}) \cup {u}
               /\ u.kind = "create" /\ u.at = "fetch" /\ u.guild = t.guild
               /\ u.todo = t.todo
  <2> DEFINE u == [t EXCEPT !.at = "fetch"]
  <2>1. /\ u.kind = "create" /\ u.at = "fetch" /\ u.guild = t.guild /\ u.todo = t.todo
    BY <1>t DEF Task
  <2>2. tasks' = (tasks \ {t}) \cup {u}
    BY DEF UpsertGuild, Continue
  <2> HIDE DEF u
  <2> QED
    BY <2>1, <2>2
<1>f. /\ alone' = alone /\ (clean' = TRUE => clean = TRUE)
      /\ steady' \subseteq steady /\ (Fault => clean' = FALSE)
  BY <1>t, FaultFacts, FaultTyped
<1>1. /\ \A w \in tasks : TaskOK(w)'
      /\ Shown' = Shown /\ \A g : Visible(g)' = Visible(g)
  BY <1>t, <1>f, OthersKept
<1>2. TasksOK'
  <2>1. TaskOK(t)'
    BY <1>1
  <2>2. TaskOK(u)'
    BY <1>t, <1>u, <2>1 DEF TaskOK
  <2> QED
    BY <1>u, <1>1, <2>2 DEF TasksOK
<1>3. AloneOK'
  <2>1. \A g \in Guilds : Naming(g) /\ g # t.guild => Naming(g)'
    BY <1>u DEF Naming
  <2>2. \A c \in Channels : Coming(c) => Coming(c)'
    BY <1>t, <1>u DEF Coming
  <2>3. t.guild \in member' \cup gone'
    BY <1>t DEF TaskOK
  <2>4. \A g \in Guilds : Naming(g) => Naming(g)' \/ g \in early' \/ ready = {}
    BY <1>t, <2>1
  <2>5. clean' = TRUE => \A g \in Guilds :
            \/ guilds'[g] = guilds[g] /\ (Naming(g) => Naming(g)')
            \/ guilds'[g] = Named /\ g \in member' \cup gone'
    <3>1. clean' = TRUE => guilds' = [guilds EXCEPT ![t.guild] = Named]
      BY <1>t, <1>f
    <3>2. guilds \in [Guilds -> {Absent, Blank, Named}]
      BY DEF TypeOK
    <3> QED
      BY <2>1, <2>3, <3>1, <3>2
  <2>6. Shown' \subseteq Channels /\ early \subseteq early'
    BY <1>t, <1>1, ShownFacts
  <2> QED
    BY <1>t, <1>f, <1>1, <2>2, <2>4, <2>5, <2>6, AloneKept
<1>4. SteadyOK'
  BY <1>t, SteadyKept DEF SteadyOK
<1> QED
  BY <1>2, <1>3, <1>4

\* Where a goroutine goes on with the channels S to store.
LEMMA StoringFacts ==
  ASSUME NEW t, t \in Task, NEW S, Storing(t, S)
  PROVE  \/ S = {} /\ t.kind # "check" /\ tasks' = tasks \ {t}
         \/ \E u : /\ tasks' = (tasks \ {t}) \cup {u}
                   /\ u.kind = t.kind /\ u.guild = t.guild /\ u.n = t.n /\ u.todo = S
                   /\ IF S = {} THEN u.kind = "check" /\ u.at = "again" ELSE u.at = "store"
<1> DEFINE u == [t EXCEPT !.at = "store", !.todo = S]
           w == [t EXCEPT !.at = "again", !.todo = {}]
<1>1. /\ u.kind = t.kind /\ u.guild = t.guild /\ u.n = t.n /\ u.todo = S /\ u.at = "store"
      /\ w.kind = t.kind /\ w.guild = t.guild /\ w.n = t.n /\ w.todo = {} /\ w.at = "again"
  BY DEF Task
<1>2. \/ S # {} /\ tasks' = (tasks \ {t}) \cup {u}
      \/ S = {} /\ t.kind = "check" /\ tasks' = (tasks \ {t}) \cup {w}
      \/ S = {} /\ t.kind # "check" /\ tasks' = tasks \ {t}
  BY DEF Storing, Continue, End
<1> HIDE DEF u, w
<1> QED
  BY <1>1, <1>2

\* A goroutine has the list of its guild's channels, or could not get it.
LEMMA FetchChannelsKeeps ==
  ASSUME IInv, NEW t \in tasks, FetchChannels(t)
  PROVE  TasksOK' /\ AloneOK' /\ SteadyOK'
<1> USE InvParts
<1>t. /\ UNCHANGED <<member, exists, guilds, channels, ready, readys, calls>>
      /\ UNCHANGED <<raced, gone, early, denied>>
      /\ t.at = "fetch" /\ (Fault \/ NoFault)
      /\ Storing(t, Visible(t.guild)) \/ (Fault /\ tasks' = tasks \ {t})
  BY DEF FetchChannels, End
<1>f. /\ alone' = alone /\ (clean' = TRUE => clean = TRUE)
      /\ steady' \subseteq steady /\ (Fault => clean' = FALSE)
  BY <1>t, FaultFacts, FaultTyped
<1>1. /\ \A w \in tasks : TaskOK(w)'
      /\ Shown' = Shown /\ \A g : Visible(g)' = Visible(g)
  BY <1>t, <1>f, OthersKept
<1>2. TaskOK(t)' /\ t.todo = {}
  BY <1>t, <1>1 DEF TaskOK
<1>3. TasksOK'
  <2>1. CASE tasks' = tasks \ {t}
    BY <1>1, <2>1 DEF TasksOK
  <2>2. ASSUME NEW u, tasks' = (tasks \ {t}) \cup {u},
               u.kind = t.kind, u.guild = t.guild, u.n = t.n, u.todo = Visible(t.guild),
               IF Visible(t.guild) = {} THEN u.at = "again" ELSE u.at = "store"
        PROVE  TasksOK'
    <3>1. Visible(t.guild) \subseteq ChannelsOf(t.guild)' \cap Shown'
      BY <1>1, ShownFacts, Places DEF ChannelsOf
    <3>2. t.kind = "check" /\ t.n \in steady' => Visible(t.guild) # {}
      BY <1>1, <1>2 DEF TaskOK
    <3>3. TaskOK(u)'
      BY <1>1, <1>2, <2>2, <3>1, <3>2 DEF TaskOK
    <3> QED
      BY <1>1, <2>2, <3>3 DEF TasksOK
  <2> QED
    BY <1>t, <2>1, <2>2, StoringFacts
<1>4. AloneOK'
  <2>1. \A w \in tasks : w # t => w \in tasks'
    BY <1>t, StoringFacts
  <2>2. \A g \in Guilds : Naming(g) => Naming(g)'
    BY <1>t, <2>1 DEF Naming
  <2>3. clean' = TRUE => \A c \in Shown' : Coming(c) => Coming(c)'
    <3> SUFFICES ASSUME clean' = TRUE, NEW c \in Shown, Coming(c)
                 PROVE  Coming(c)'
      BY <1>1
    <3>1. Storing(t, Visible(t.guild))
      BY <1>t, <1>f
    <3>2. GuildOf[c] = t.guild => c \in Visible(t.guild)
      BY ShownFacts
    <3>3. CASE GuildOf[c] = t.guild
      <4>1. PICK u \in tasks' : u.todo = Visible(t.guild)
        BY <3>1, <3>2, <3>3, StoringFacts
      <4> QED
        BY <3>2, <3>3, <4>1 DEF Coming
    <3>4. CASE GuildOf[c] # t.guild
      BY <1>2, <2>1, <3>4 DEF Coming
    <3> QED
      BY <3>3, <3>4
  <2> QED
    BY <1>t, <1>f, <1>1, <2>2, <2>3, AloneKept
<1>5. SteadyOK'
  BY <1>t, SteadyKept DEF SteadyOK
<1> QED
  BY <1>3, <1>4, <1>5

\* A channel is stored, or not.
LEMMA UpsertChannelKeeps ==
  ASSUME IInv, NEW t \in tasks, NEW c \in t.todo, UpsertChannel(t, c)
  PROVE  TasksOK' /\ AloneOK' /\ SteadyOK'
<1> USE InvParts
<1>t. /\ UNCHANGED <<member, exists, guilds, ready, readys, calls>>
      /\ UNCHANGED <<raced, gone, early, denied>>
      /\ t.at = "store" /\ (Fault \/ NoFault)
      /\ Storing(t, t.todo \ {c})
      /\ channels' = channels \cup {c} \/ (channels' = channels /\ Fault)
  BY DEF UpsertChannel
<1>f. /\ alone' = alone /\ (clean' = TRUE => clean = TRUE)
      /\ steady' \subseteq steady /\ (Fault => clean' = FALSE /\ steady' = {})
  BY <1>t, FaultFacts, FaultTyped
<1>1. /\ \A w \in tasks : TaskOK(w)'
      /\ Shown' = Shown /\ \A g : Visible(g)' = Visible(g)
  BY <1>t, <1>f, OthersKept
<1>2. TaskOK(t)' /\ c \in ChannelsOf(t.guild) /\ c \in Shown \cup gone
  BY <1>1, Zenon DEF TaskOK
<1>3. TasksOK'
  <2>1. CASE tasks' = tasks \ {t}
    BY <1>1, <2>1 DEF TasksOK
  <2>2. ASSUME NEW u, tasks' = (tasks \ {t}) \cup {u},
               u.kind = t.kind, u.guild = t.guild, u.n = t.n, u.todo = t.todo \ {c},
               IF t.todo \ {c} = {} THEN u.at = "again" ELSE u.at = "store"
        PROVE  TasksOK'
    <3>1. u.todo \subseteq (ChannelsOf(u.guild) \cap (Shown \cup gone))'
      BY <1>2, <2>2 DEF TaskOK, ChannelsOf
    <3>2. t.n \in steady' => HasGuild(t.guild)'
      BY <1>t, <1>f, <1>2 DEF HasGuild, ChannelsOf
    <3>3. TaskOK(u)'
      BY <1>2, <2>2, <3>1, <3>2 DEF TaskOK
    <3> QED
      BY <1>1, <2>2, <3>3 DEF TasksOK
  <2> QED
    BY <1>t, <2>1, <2>2, StoringFacts
<1>4. AloneOK'
  <2>1. \A w \in tasks : w # t => w \in tasks'
    BY <1>t, StoringFacts
  <2>2. \A g \in Guilds : Naming(g) => Naming(g)'
    BY <1>t, <2>1 DEF Naming
  <2>3. clean' = TRUE => channels' = channels \cup {c}
    BY <1>t, <1>f
  <2>4. \A d \in Channels : Coming(d) => Coming(d)' \/ d = c
    <3> SUFFICES ASSUME NEW d \in Channels, Coming(d), d # c
                 PROVE  Coming(d)'
      OBVIOUS
    <3>1. CASE d \in t.todo
      <4>1. PICK u \in tasks' : u.todo = t.todo \ {c}
        BY <1>t, <3>1, StoringFacts
      <4> QED
        BY <3>1, <4>1 DEF Coming
    <3>2. CASE d \notin t.todo
      BY <1>t, <2>1, <3>2 DEF Coming
    <3> QED
      BY <3>1, <3>2
  <2>5. Shown' \subseteq Channels
    BY <1>1, ShownFacts
  <2> QED
    BY <1>t, <1>f, <1>1, <1>2, <2>2, <2>3, <2>4, <2>5, AloneKept
<1>5. SteadyOK'
  BY <1>t, SteadyKept DEF SteadyOK
<1> QED
  BY <1>3, <1>4, <1>5

\* A check that nothing disturbed finds the row it has just stored.
LEMMA AnswerCheckKeeps ==
  ASSUME IInv, NEW t \in tasks, AnswerCheck(t)
  PROVE  TasksOK' /\ AloneOK' /\ SteadyOK'
<1> USE InvParts
<1>t. /\ UNCHANGED <<member, exists, guilds, channels, ready, readys, calls>>
      /\ UNCHANGED <<raced, gone, early, clean, alone, steady>>
      /\ t.kind = "check" /\ t.at = "again" /\ tasks' = tasks \ {t}
      /\ denied' = (denied \/ (~HasGuild(t.guild) /\ t.n \in steady))
  BY DEF AnswerCheck, End
<1>1. /\ \A w \in tasks : TaskOK(w)'
      /\ Shown' = Shown /\ \A g : Visible(g)' = Visible(g)
  BY <1>t, OthersKept
<1>2. TasksOK'
  BY <1>t, <1>1 DEF TasksOK
<1>3. t.todo = {} /\ (t.n \in steady => HasGuild(t.guild))
  BY <1>t DEF TaskOK
<1>4. AloneOK'
  <2>1. \A g \in Guilds : Naming(g) => Naming(g)'
    BY <1>t DEF Naming
  <2>2. \A c \in Shown' : Coming(c) => Coming(c)'
    BY <1>t, <1>3 DEF Coming
  <2> QED
    BY <1>t, <1>1, <2>1, <2>2, AloneKept
<1>5. SteadyOK'
  <2>1. denied = FALSE
    BY DEF SteadyOK
  <2>2. denied' = FALSE
    BY <1>t, <1>3, <2>1, Zenon
  <2> QED
    BY <1>t, <2>2 DEF SteadyOK
<1> QED
  BY <1>2, <1>4, <1>5

-----------------------------------------------------------------------------
(* The inductive invariant.                                                *)

LEMMA InvInit == Init => IInv
<1> SUFFICES ASSUME Init
             PROVE  IInv
  OBVIOUS
<1>1. TypeOK
  BY TypeInit
<1>2. TasksOK
  BY DEF Init, TasksOK
<1>3. AloneOK
  BY DEF Init, AloneOK
<1>4. SteadyOK
  BY DEF Init, SteadyOK
<1> QED
  BY <1>1, <1>2, <1>3, <1>4 DEF IInv

LEMMA InvNext == IInv /\ [Next]_vars => IInv'
<1> SUFFICES ASSUME IInv, [Next]_vars
             PROVE  IInv'
  OBVIOUS
<1>1. TypeOK'
  BY TypeNext DEF IInv
<1>2. ASSUME Next
      PROVE  TasksOK' /\ AloneOK' /\ SteadyOK'
  BY <1>2, JoinKeeps, LeaveKeeps, BeginCheckKeeps, MakeChannelKeeps, DeleteChannelKeeps,
     ResolveChannelKeeps, ReadyKeeps, FetchGuildKeeps, ReplaceGuildsKeeps,
     ReplaceChannelsKeeps, UpsertGuildKeeps, FetchChannelsKeeps, UpsertChannelKeeps,
     AnswerCheckKeeps DEF Next
<1>3. ASSUME UNCHANGED vars
      PROVE  TasksOK' /\ AloneOK' /\ SteadyOK'
  <2>t. /\ UNCHANGED <<member, exists, guilds, channels, ready, readys, calls, tasks>>
        /\ UNCHANGED <<raced, gone, early, clean, alone, steady, denied>>
    BY <1>3 DEF vars
  <2>1. /\ \A w \in tasks : TaskOK(w)'
        /\ Shown' = Shown /\ \A g : Visible(g)' = Visible(g)
    BY <2>t, OthersKept
  <2>2. TasksOK'
    BY <2>t, <2>1 DEF TasksOK
  <2>3. AloneOK'
    BY <2>t, <2>1, InvParts, DiscordKept
  <2>4. SteadyOK'
    BY <2>t DEF IInv, SteadyOK
  <2> QED
    BY <2>2, <2>3, <2>4
<1> QED
  BY <1>1, <1>2, <1>3 DEF IInv

LEMMA InvCorrect == Spec => []IInv
  BY InvInit, InvNext, PTL DEF Spec

-----------------------------------------------------------------------------
(* The theorems.                                                           *)

\* Every row, task and run has the type the code gives it, and the bounds hold.
THEOREM TypeCorrect == Spec => []TypeOK
<1>1. IInv => TypeOK
  BY DEF IInv
<1> QED
  BY <1>1, InvCorrect, PTL

\* When no goroutine of client.go's handlers or of a lookup is at work, the
\* tables agree with Discord but for what appeared or went in ways that the last
\* READY cannot account for.
THEOREM CatalogFollowsCorrect == Spec => []CatalogFollows
<1>1. IInv => CatalogFollows
  <2> SUFFICES ASSUME IInv, Quiet, clean = TRUE, alone = TRUE
               PROVE  /\ \A g \in Guilds :
                          /\ g \in member => HasGuildRow(g) \/ g \in raced
                          /\ HasGuildRow(g) => g \in member \/ g \in gone
                          /\ (guilds[g] = Blank /\ g \in member) => g \in early
                      /\ \A c \in Channels :
                          /\ c \in Visible(GuildOf[c]) => c \in channels \/ c \in raced
                          /\ c \in channels => c \in Visible(GuildOf[c]) \/ c \in gone
    BY DEF CatalogFollows
  <2>1. ready = {} /\ tasks = {}
    BY DEF Quiet
  <2>2. GuildsOK /\ ChannelsOK
    BY <2>1, InvParts DEF AloneOK
  <2>3. (\A g : ~Naming(g)) /\ (\A c : ~Coming(c))
    BY <2>1 DEF Naming, Coming
  <2>4. \A c : c \in Shown <=> c \in Channels /\ c \in Visible(GuildOf[c])
    BY DEF Shown
  <2> QED
    BY <2>2, <2>3, <2>4 DEF GuildsOK, ChannelsOK
<1> QED
  BY <1>1, InvCorrect, PTL

\* CheckBotGuild does not deny a guild the bot is in and that has channels,
\* unless something failed or the tables were being replaced.
THEOREM NeverDeniedCorrect == Spec => []NeverDenied
<1>1. IInv => NeverDenied
  BY DEF IInv, SteadyOK, NeverDenied
<1> QED
  BY <1>1, InvCorrect, PTL

\* Only onReady takes rows away.
LEMMA RowsTaken ==
  ASSUME TypeOK, [Next]_vars
  PROVE  \/ \E r \in ready : ReplaceGuilds(r) \/ ReplaceChannels(r)
         \/ /\ \A g \in Guilds : HasGuildRow(g) => HasGuildRow(g)'
            /\ channels \subseteq channels'
<1> USE DEF HasGuildRow
<1>1. ASSUME NEW g \in Guilds, Join(g) \/ Leave(g) \/ BeginCheck(g)
      PROVE  guilds' = guilds /\ channels' = channels
  BY <1>1 DEF Join, Leave, BeginCheck, tables
<1>2. ASSUME NEW c \in Channels, MakeChannel(c) \/ DeleteChannel(c) \/ ResolveChannel(c)
      PROVE  guilds' = guilds /\ channels' = channels
  BY <1>2 DEF MakeChannel, DeleteChannel, ResolveChannel, tables
<1>3. ASSUME Ready \/ \E r \in ready : \E g \in r.todo : FetchGuild(r, g)
      PROVE  guilds' = guilds /\ channels' = channels
  BY <1>3 DEF Ready, FetchGuild, tables
<1>4. ASSUME NEW t \in tasks, UpsertGuild(t)
      PROVE  /\ \A g \in Guilds : guilds[g] # Absent => guilds'[g] # Absent
             /\ channels' = channels
  BY <1>4 DEF UpsertGuild, TypeOK, Named, Absent
<1>5. ASSUME NEW t \in tasks, FetchChannels(t) \/ AnswerCheck(t)
      PROVE  guilds' = guilds /\ channels' = channels
  BY <1>5 DEF FetchChannels, AnswerCheck, tables
<1>6. ASSUME NEW t \in tasks, NEW c \in t.todo, UpsertChannel(t, c)
      PROVE  guilds' = guilds /\ channels \subseteq channels'
  BY <1>6 DEF UpsertChannel
<1>7. ASSUME UNCHANGED vars
      PROVE  guilds' = guilds /\ channels' = channels
  BY <1>7 DEF vars, tables
<1> QED
  BY <1>1, <1>2, <1>3, <1>4, <1>5, <1>6, <1>7 DEF Next

\* A reader never sees the row vanish of a guild or channel that is there, but
\* for the exceptions the property names.
THEOREM NeverVanishesCorrect == Spec => NeverVanishes
<1> DEFINE Stays ==
       /\ \A g \in member : HasGuildRow(g) => HasGuildRow(g)' \/ g \in raced \/ ~alone
       /\ \A c \in channels : c \in Visible(GuildOf[c]) =>
            c \in channels' \/ c \in raced \/ ~alone \/ ~clean
<1>1. ASSUME IInv, [Next]_vars
      PROVE  Stays
  <2>1. ASSUME NEW r \in ready, ReplaceGuilds(r), alone = TRUE, NEW g \in member,
               HasGuildRow(g)
        PROVE  HasGuildRow(g)' \/ g \in raced
    <3>1. RunOK(r) /\ r.at = "guilds" /\ g \in Guilds
      BY <1>1, <2>1, InvParts DEF AloneOK, ReplaceGuilds
    <3>2. g \in r.list \/ g \in raced
      BY <3>1 DEF RunOK
    <3>3. guilds' = guilds \/ guilds' \in Listed(r)
      BY <2>1 DEF ReplaceGuilds
    <3>4. CASE guilds' \in Listed(r)
      BY <3>1, <3>2, <3>4 DEF Listed, HasGuildRow
    <3> QED
      BY <2>1, <3>3, <3>4 DEF HasGuildRow
  <2>2. ASSUME NEW r \in ready, ReplaceChannels(r), alone = TRUE, clean = TRUE,
               NEW c \in channels, c \in Visible(GuildOf[c])
        PROVE  c \in channels' \/ c \in raced
    <3>1. RunOK(r) /\ r.at = "channels" /\ c \in Shown
      BY <1>1, <2>2, InvParts DEF AloneOK, ReplaceChannels, Shown
    <3>2. c \in r.synced \/ c \in raced
      BY <2>2, <3>1 DEF RunOK
    <3> QED
      BY <2>2, <3>2 DEF ReplaceChannels
  <2>3. TypeOK /\ member \subseteq Guilds
    BY <1>1, InvParts
  <2>4. \A r \in ready : ReplaceGuilds(r) => channels' = channels
    BY DEF ReplaceGuilds
  <2>5. \A r \in ready : ReplaceChannels(r) => guilds' = guilds
    BY DEF ReplaceChannels
  <2>6. \A g \in member : HasGuildRow(g) => HasGuildRow(g)' \/ g \in raced \/ alone # TRUE
    BY <1>1, <2>1, <2>3, <2>5, RowsTaken DEF HasGuildRow
  <2>7. \A c \in channels : c \in Visible(GuildOf[c]) =>
            c \in channels' \/ c \in raced \/ alone # TRUE \/ clean # TRUE
    BY <1>1, <2>2, <2>3, <2>4, RowsTaken
  <2>8. alone \in BOOLEAN /\ clean \in BOOLEAN
    BY <2>3 DEF TypeOK
  <2> QED
    BY <2>6, <2>7, <2>8, Zenon
<1>2. IInv /\ [Next]_vars => [Stays]_vars
  BY <1>1
<1> QED
  BY <1>2, InvCorrect, PTL DEF Spec, NeverVanishes
=============================================================================
