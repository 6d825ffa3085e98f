---------------------------- MODULE WebsocketHub ----------------------------
(***************************************************************************)
(* The WebSocket hub of internal/websocket: hub.go and client.go.          *)
(*                                                                         *)
(* One goroutine, Hub.Run, owns the set of registered clients.  It takes   *)
(* work from three channels: register and unregister (unbuffered, so a     *)
(* sender waits until Run's select receives) and broadcast (buffered;      *)
(* Hub.Broadcast drops the message when the buffer is full).  Each client  *)
(* has a buffered channel `send' from the hub to its writePump goroutine,  *)
(* and a readPump goroutine that identifies the user and, when the         *)
(* connection fails, unregisters the client.  A client whose send buffer   *)
(* is full when a message is distributed is evicted: its channel is closed *)
(* and it is forgotten.  Hub.Shutdown, on main's goroutine, closes every   *)
(* channel.  Closing a closed channel or sending on one panics, and        *)
(* nothing recovers a panic in these goroutines.                           *)
(*                                                                         *)
(* Granularity.  A step is a section under a mutex, a channel operation,   *)
(* or a call on the connection.  The loop that offers a message to every   *)
(* client runs under h.mu.RLock and is one step: the only steps that       *)
(* interleave with it are the writers' receives, each on its own channel,  *)
(* which commute with the offers to other clients.  Taking the username    *)
(* away is joined to the section under h.mu that precedes it, because no   *)
(* step reads both.                                                        *)
(***************************************************************************)
EXTENDS Integers, Sequences, FiniteSets

CONSTANTS
    Clients,              \* client objects; each serves one connection
    Names,                \* user names a client can identify itself with
    NoName,               \* no user name is recorded
    HubLoop,              \* the goroutine that runs Hub.Run
    SendBufferSize,       \* capacity of a client's send channel (256)
    BroadcastBufferSize,  \* capacity of the hub's broadcast channel (256)
    MaxEvents,            \* bound: calls of Broadcast from the rest of the relay
    MaxIdentifies         \* bound: identify messages from terminals

ASSUME HubAssumption ==
    /\ HubLoop \notin Clients
    /\ NoName \notin Names
    /\ SendBufferSize \in Nat \ {0}
    /\ BroadcastBufferSize \in Nat \ {0}
    /\ MaxEvents \in Nat
    /\ MaxIdentifies \in Nat

VARIABLES
    clients,       \* h.clients: the registered clients
    closedSend,    \* h.closedSend: clients the eviction path marked
    clientCount,   \* h.clientCount
    broadcast,     \* h.broadcast: the messages waiting for the hub
    usernames,     \* h.usernames; NoName stands for an absent or empty entry
    hubAt,         \* where Hub.Run is
    pending,       \* the clients the select case that is running must handle
    notifier,      \* notifier[g]: goroutine g's progress in broadcastTerminalUsers
    snapshot,      \* snapshot[g]: the user list goroutine g has read
    send,          \* send[c]: the messages buffered in c's channel
    sendClosed,    \* the clients whose send channel has been closed
    conn,          \* conn[c]: the connection, as this process sees it
    reader,        \* reader[c]: where c's ServeWS handler, then readPump, is
    writer,        \* writer[c]: where c's writePump is
    localName,     \* c.username, known only to c's readPump
    down,          \* Hub.Shutdown has run
    panicked,      \* some goroutine has panicked
    events,        \* number of events the relay has broadcast
    identifies,    \* number of identify messages read
    \* History variables.
    log,           \* the messages the hub has distributed, in order
    joined,        \* joined[c]: Len(log) when c was registered, -1 before
    delivered,     \* delivered[c]: the messages written to c's connection
    lastSnapshot   \* the user list read last by any goroutine

hubVars  == <<clients, closedSend, clientCount, hubAt, pending>>
userVars == <<usernames, notifier, snapshot, lastSnapshot>>
chanVars == <<send, sendClosed>>
pumpVars == <<conn, reader, writer, localName>>
envVars  == <<events, identifies, down>>
histVars == <<log, joined, delivered>>
vars == <<hubVars, userVars, chanVars, pumpVars, envVars, histVars,
          broadcast, panicked>>

Goroutines == Clients \cup {HubLoop}

\* What travels through the hub: events of the relay, told apart by a number,
\* and the terminal_online snapshots the hub makes itself.
Event    == [type : {"event"}, id : 1..MaxEvents]
Snapshot == [type : {"terminal_online"}, users : SUBSET Names]
Message  == Event \cup Snapshot

TypeOK ==
    /\ clients \subseteq Clients
    /\ closedSend \subseteq Clients
    /\ clientCount \in Int
    /\ broadcast \in Seq(Message) /\ Len(broadcast) <= BroadcastBufferSize
    /\ usernames \in [Clients -> Names \cup {NoName}]
    /\ hubAt \in {"select", "register", "unregister", "slow", "evict"}
    /\ pending \subseteq Clients
    /\ notifier \in [Goroutines -> {"idle", "read", "enqueue"}]
    /\ snapshot \in [Goroutines -> SUBSET Names]
    /\ send \in [Clients -> Seq(Message)]
    /\ \A c \in Clients : Len(send[c]) <= SendBufferSize
    /\ sendClosed \subseteq Clients
    /\ conn \in [Clients -> {"none", "open", "broken", "closed"}]
    /\ reader \in [Clients -> {"absent", "registering", "reading",
                               "leaving", "closing", "done"}]
    /\ writer \in [Clients -> {"absent", "writing", "done"}]
    /\ localName \in [Clients -> Names \cup {NoName}]
    /\ down \in BOOLEAN
    /\ panicked \in BOOLEAN
    /\ events \in 0..MaxEvents
    /\ identifies \in 0..MaxIdentifies
    /\ log \in Seq(Message)
    /\ joined \in [Clients -> Nat \cup {-1}]
    /\ delivered \in [Clients -> Seq(Message)]
    /\ lastSnapshot \subseteq Names

Init ==
    /\ clients = {}
    /\ closedSend = {}
    /\ clientCount = 0
    /\ broadcast = <<>>
    /\ usernames = [c \in Clients |-> NoName]
    /\ hubAt = "select"
    /\ pending = {}
    /\ notifier = [g \in Goroutines |-> "idle"]
    /\ snapshot = [g \in Goroutines |-> {}]
    /\ send = [c \in Clients |-> <<>>]
    /\ sendClosed = {}
    /\ conn = [c \in Clients |-> "none"]
    /\ reader = [c \in Clients |-> "absent"]
    /\ writer = [c \in Clients |-> "absent"]
    /\ localName = [c \in Clients |-> NoName]
    /\ down = FALSE
    /\ panicked = FALSE
    /\ events = 0
    /\ identifies = 0
    /\ log = <<>>
    /\ joined = [c \in Clients |-> -1]
    /\ delivered = [c \in Clients |-> <<>>]
    /\ lastSnapshot = {}

-----------------------------------------------------------------------------
(* Operations shared by the goroutines.                                    *)

\* GetTerminalUsers: the distinct non-empty names.
GetTerminalUsers == {usernames[c] : c \in Clients} \ {NoName}

BlindBroadcast(m) == broadcast' = Append(broadcast, m)

\* Hub.Broadcast: a select with a default, so it never blocks.
Broadcast(m) ==
    broadcast' = IF Len(broadcast) < BroadcastBufferSize
                 THEN Append(broadcast, m)
                 ELSE broadcast

\* close(c.send) for every c in S.
CloseSend(S) ==
    /\ sendClosed' = sendClosed \cup S
    /\ panicked' = (panicked \/ S \cap sendClosed # {})

SilentRemoveUsername(g, c) ==
    /\ usernames' = [usernames EXCEPT ![c] = NoName]
    /\ UNCHANGED notifier

\* RemoveUsername up to the call of broadcastTerminalUsers.
RemoveUsername(g, c) ==
    /\ usernames' = [usernames EXCEPT ![c] = NoName]
    /\ notifier' = [notifier EXCEPT
                        ![g] = IF usernames[c] # NoName THEN "read" ELSE @]

\* broadcastTerminalUsers reads the users in one critical section ...
ReadSnapshot(g) ==
    /\ notifier[g] = "read"
    /\ notifier' = [notifier EXCEPT ![g] = "enqueue"]
    /\ snapshot' = [snapshot EXCEPT ![g] = GetTerminalUsers]
    /\ lastSnapshot' = GetTerminalUsers
    /\ UNCHANGED <<hubVars, usernames, chanVars, pumpVars, envVars, histVars,
                   broadcast, panicked>>

\* ... and broadcasts the list it read later.
EnqueueSnapshot(g) ==
    /\ notifier[g] = "enqueue"
    /\ notifier' = [notifier EXCEPT ![g] = "idle"]
    /\ Broadcast([type |-> "terminal_online", users |-> snapshot[g]])
    /\ UNCHANGED <<hubVars, usernames, snapshot, lastSnapshot, chanVars,
                   pumpVars, envVars, histVars, panicked>>

-----------------------------------------------------------------------------
(* Hub.Run.                                                                *)

AtSelect == hubAt = "select" /\ notifier[HubLoop] = "idle"

\* The unbuffered channel hands the client over; ServeWS then starts the pumps.
SelectRegister(c) ==
    /\ AtSelect
    /\ reader[c] = "registering"
    /\ hubAt' = "register"
    /\ pending' = {c}
    /\ reader' = [reader EXCEPT ![c] = "reading"]
    /\ writer' = [writer EXCEPT ![c] = "writing"]
    /\ UNCHANGED <<clients, closedSend, clientCount, userVars, chanVars, conn,
                   localName, envVars, histVars, broadcast, panicked>>

RegisterClient(c) ==
    /\ hubAt = "register"
    /\ c \in pending
    /\ clients' = clients \cup {c}
    /\ clientCount' = clientCount + 1
    /\ joined' = [joined EXCEPT ![c] = Len(log)]
    /\ hubAt' = "select"
    /\ pending' = {}
    /\ UNCHANGED <<closedSend, userVars, chanVars, pumpVars, envVars, log,
                   delivered, broadcast, panicked>>

SelectUnregister(c) ==
    /\ AtSelect
    /\ reader[c] = "leaving"
    /\ notifier[c] = "idle"
    /\ hubAt' = "unregister"
    /\ pending' = {c}
    /\ reader' = [reader EXCEPT ![c] = "closing"]
    /\ UNCHANGED <<clients, closedSend, clientCount, userVars, chanVars, conn,
                   writer, localName, envVars, histVars, broadcast, panicked>>

KeepSendOpen(c) ==
    /\ clients' = clients \ {c}
    /\ UNCHANGED <<closedSend, sendClosed, panicked>>

CloseButKeep(c) ==
    /\ CloseSend({c} \ closedSend)
    /\ UNCHANGED <<clients, closedSend>>

\* The section of the unregister case under h.mu.
DropClient(c) ==
    IF c \in clients
    THEN /\ clients' = clients \ {c}
         /\ CloseSend({c} \ closedSend)
         /\ closedSend' = closedSend \ {c}
    ELSE UNCHANGED <<clients, closedSend, sendClosed, panicked>>

UnregisterClient(c) ==
    /\ hubAt = "unregister"
    /\ c \in pending
    /\ DropClient(c)
    /\ clientCount' = clientCount - 1
    /\ RemoveUsername(HubLoop, c)
    /\ hubAt' = "select"
    /\ pending' = {}
    /\ UNCHANGED <<snapshot, lastSnapshot, send, pumpVars, envVars, histVars,
                   broadcast>>

NobodySlow == {}

\* The clients whose channel refuses the message that is being distributed.
SlowClients == {c \in clients : Len(send[c]) >= SendBufferSize}

\* Distribute under h.mu.RLock; a send on a closed channel panics.
Distribute ==
    /\ AtSelect
    /\ broadcast # <<>>
    /\ broadcast' = Tail(broadcast)
    /\ log' = Append(log, Head(broadcast))
    /\ send' = [c \in Clients |->
                    IF c \in clients /\ Len(send[c]) < SendBufferSize
                    THEN Append(send[c], Head(broadcast))
                    ELSE send[c]]
    /\ panicked' = (panicked \/ clients \cap sendClosed # {})
    /\ hubAt' = IF SlowClients = {} THEN "select" ELSE "slow"
    /\ pending' = SlowClients
    /\ UNCHANGED <<clients, closedSend, clientCount, userVars, sendClosed,
                   pumpVars, envVars, joined, delivered>>

\* h.mu is released after the distribution and taken again to evict.
LockToEvict ==
    /\ hubAt = "slow"
    /\ hubAt' = "evict"
    /\ UNCHANGED <<clients, closedSend, clientCount, pending, userVars,
                   chanVars, pumpVars, envVars, histVars, broadcast, panicked>>

AlwaysEvictable(c) == TRUE

\* The membership test under the lock: Shutdown may have run since the
\* distribution and closed the channel.
StillRegistered(c) == c \in clients

Evict(c) ==
    /\ hubAt = "evict"
    /\ notifier[HubLoop] = "idle"
    /\ c \in pending
    /\ pending' = pending \ {c}
    /\ IF StillRegistered(c)
       THEN /\ closedSend' = closedSend \cup {c}
            /\ CloseSend({c})
            /\ clients' = clients \ {c}
            /\ clientCount' = clientCount - 1
            /\ RemoveUsername(HubLoop, c)
       ELSE UNCHANGED <<closedSend, sendClosed, panicked, clients, clientCount,
                        usernames, notifier>>
    /\ UNCHANGED <<hubAt, snapshot, lastSnapshot, send, pumpVars, envVars,
                   histVars, broadcast>>

EvictionDone ==
    /\ hubAt = "evict"
    /\ notifier[HubLoop] = "idle"
    /\ pending = {}
    /\ hubAt' = "select"
    /\ UNCHANGED <<clients, closedSend, clientCount, pending, userVars,
                   chanVars, pumpVars, envVars, histVars, broadcast, panicked>>

\* Hub.Shutdown, one section under h.mu, on main's goroutine.  The process
\* ends some time later; until then the other goroutines keep running.
Shutdown ==
    /\ ~down
    /\ hubAt # "evict"
    /\ down' = TRUE
    /\ CloseSend(clients)
    /\ clients' = {}
    /\ UNCHANGED <<closedSend, clientCount, hubAt, pending, userVars, send,
                   pumpVars, events, identifies, histVars, broadcast>>

-----------------------------------------------------------------------------
(* A client's handler and its two pumps.                                   *)

\* ServeWS: the upgrade succeeds and the handler waits in Hub.Register.
Upgrade(c) ==
    /\ reader[c] = "absent"
    /\ reader' = [reader EXCEPT ![c] = "registering"]
    /\ conn' = [conn EXCEPT ![c] = "open"]
    /\ UNCHANGED <<hubVars, userVars, chanVars, writer, localName, envVars,
                   histVars, broadcast, panicked>>

\* The peer leaves, the network fails, or no pong arrives within pongWait.
PeerLeaves(c) ==
    /\ conn[c] = "open"
    /\ conn' = [conn EXCEPT ![c] = "broken"]
    /\ UNCHANGED <<hubVars, userVars, chanVars, reader, writer, localName,
                   envVars, histVars, broadcast, panicked>>

\* readPump reads an identify message with a new name, which may have been
\* buffered before the connection was closed, and calls SetUsername.
Identify(c, n) ==
    /\ identifies < MaxIdentifies
    /\ reader[c] = "reading"
    /\ notifier[c] = "idle"
    /\ n # localName[c]
    /\ identifies' = identifies + 1
    /\ localName' = [localName EXCEPT ![c] = n]
    /\ usernames' = [usernames EXCEPT ![c] = n]
    /\ notifier' = [notifier EXCEPT ![c] = "read"]
    /\ UNCHANGED <<hubVars, snapshot, lastSnapshot, chanVars, conn, reader,
                   writer, events, down, histVars, broadcast, panicked>>

\* Like ReadFails, but the user name is left to the hub's unregister case.
LeaveKeepingName(c) ==
    /\ reader[c] = "reading"
    /\ notifier[c] = "idle"
    /\ conn[c] # "open"
    /\ reader' = [reader EXCEPT ![c] = "leaving"]
    /\ UNCHANGED <<hubVars, userVars, chanVars, conn, writer, localName,
                   envVars, histVars, broadcast, panicked>>

\* readPump leaves its loop; its deferred function takes the name away and
\* then waits in Hub.Unregister.
ReadFails(c) ==
    /\ reader[c] = "reading"
    /\ notifier[c] = "idle"
    /\ conn[c] # "open"
    /\ reader' = [reader EXCEPT ![c] = "leaving"]
    /\ RemoveUsername(c, c)
    /\ UNCHANGED <<hubVars, snapshot, lastSnapshot, chanVars, conn, writer,
                   localName, envVars, histVars, broadcast, panicked>>

ReaderCloses(c) ==
    /\ reader[c] = "closing"
    /\ reader' = [reader EXCEPT ![c] = "done"]
    /\ conn' = [conn EXCEPT ![c] = "closed"]
    /\ UNCHANGED <<hubVars, userVars, chanVars, writer, localName, envVars,
                   histVars, broadcast, panicked>>

WriterLeaks(c) ==
    /\ writer' = [writer EXCEPT ![c] = "done"]
    /\ UNCHANGED conn

\* writePump returns; its deferred function closes the connection.
WriterExits(c) ==
    /\ writer' = [writer EXCEPT ![c] = "done"]
    /\ conn' = [conn EXCEPT ![c] = "closed"]

\* writePump takes a message and writes it, which may fail, and must fail
\* once the connection is closed.
Write(c) ==
    /\ writer[c] = "writing"
    /\ send[c] # <<>>
    /\ send' = [send EXCEPT ![c] = Tail(@)]
    /\ \/ /\ conn[c] # "closed"
          /\ delivered' = [delivered EXCEPT ![c] = Append(@, Head(send[c]))]
          /\ UNCHANGED <<conn, writer>>
       \/ /\ WriterExits(c)
          /\ UNCHANGED delivered
    /\ UNCHANGED <<hubVars, userVars, sendClosed, reader, localName, envVars,
                   log, joined, broadcast, panicked>>

\* A closed channel yields its buffered messages first, then the close.
WriterSeesClose(c) ==
    /\ writer[c] = "writing"
    /\ send[c] = <<>>
    /\ c \in sendClosed
    /\ WriterExits(c)
    /\ UNCHANGED <<hubVars, userVars, chanVars, reader, localName, envVars,
                   histVars, broadcast, panicked>>

\* The ping that the ticker triggers cannot be written.
PingFails(c) ==
    /\ writer[c] = "writing"
    /\ WriterExits(c)
    /\ UNCHANGED <<hubVars, userVars, chanVars, reader, localName, envVars,
                   histVars, broadcast, panicked>>

-----------------------------------------------------------------------------
(* The rest of the relay and the specification.                            *)

\* Some handler of the relay broadcasts an event.
RelayEvent ==
    /\ events < MaxEvents
    /\ events' = events + 1
    /\ Broadcast([type |-> "event", id |-> events + 1])
    /\ UNCHANGED <<hubVars, userVars, chanVars, pumpVars, identifies, down,
                   histVars, panicked>>

\* Every connection is over, nothing is queued and the hub waits in select.
Quiet ==
    /\ AtSelect
    /\ broadcast = <<>>
    /\ \A c \in Clients : /\ reader[c] = "done"
                          /\ writer[c] = "done"
                          /\ notifier[c] = "idle"

Idle == Quiet /\ UNCHANGED vars

HubCase(c) ==
    RegisterClient(c) \/ UnregisterClient(c) \/ Evict(c)

HubStep ==
    \/ \E c \in Clients : HubCase(c)
    \/ LockToEvict
    \/ EvictionDone
    \/ ReadSnapshot(HubLoop)
    \/ EnqueueSnapshot(HubLoop)

ReaderStep(c) ==
    \/ ReadFails(c)
    \/ ReaderCloses(c)
    \/ ReadSnapshot(c)
    \/ EnqueueSnapshot(c)

WriterStep(c) == Write(c) \/ WriterSeesClose(c)

ClientStep(c) ==
    \/ Upgrade(c)
    \/ PeerLeaves(c)
    \/ \E n \in Names : Identify(c, n)
    \/ ReaderStep(c)
    \/ WriterStep(c)
    \/ PingFails(c)
    \/ SelectRegister(c)
    \/ SelectUnregister(c)

Next ==
    \/ HubStep
    \/ Distribute
    \/ Shutdown
    \/ RelayEvent
    \/ Idle
    \/ \E c \in Clients : ClientStep(c)

\* Goroutines keep running, a read or write on a dead connection returns
\* (deadlines of 60 and 10 seconds), and select chooses at random among its
\* ready cases, so a case that is ready again and again is chosen.  Nothing
\* makes a peer connect, identify or leave, or the relay stop.
Fairness ==
    /\ WF_vars(HubStep)
    /\ SF_vars(Distribute)
    /\ \A c \in Clients :
        /\ WF_vars(ReaderStep(c))
        /\ WF_vars(WriterStep(c))
        /\ SF_vars(SelectRegister(c))
        /\ SF_vars(SelectUnregister(c))

Spec == Init /\ [][Next]_vars
FairSpec == Spec /\ Fairness

-----------------------------------------------------------------------------
(* Properties.                                                             *)

\* The clients the select case that is running found slow.
BeingEvicted == IF hubAt \in {"slow", "evict"} THEN pending ELSE {}

\* No goroutine closes a send channel twice or sends on a closed one, however
\* unregistration, eviction and Shutdown interleave (a panic in Run, or in
\* Shutdown, ends the relay: nothing recovers it).
NoPanic == ~panicked

\* Where a client is between the goroutines.  A registered client has an open
\* channel and has not been unregistered; one the hub has seen and forgotten
\* has a closed channel; nothing of a client exists before the hub sees it.
\* NoPanic and LeavesNoTrace follow from this.
StageOf(c) ==
    /\ c \in clients =>
         /\ joined[c] >= 0
         /\ c \notin sendClosed
         /\ reader[c] \in {"closing", "done"} => c \in pending
    /\ (joined[c] >= 0 /\ c \notin clients) => c \in sendClosed
    /\ joined[c] = -1 =>
         /\ c \notin sendClosed
         /\ send[c] = <<>> /\ delivered[c] = <<>>
         /\ reader[c] \in {"absent", "registering"} \/ c \in pending
    /\ reader[c] \in {"absent", "registering"} =>
         joined[c] = -1 /\ c \notin pending
    /\ c \in pending =>
         /\ joined[c] = -1 <=> hubAt = "register"
         /\ reader[c] \in {"closing", "done"} => hubAt = "unregister"

Lifecycle ==
    /\ ~panicked
    /\ closedSend \subseteq sendClosed
    /\ hubAt = "select" => pending = {}
    /\ hubAt \in {"register", "unregister"} => \E c \in Clients : pending = {c}
    /\ \A c \in Clients : StageOf(c)

\* What the connection of c was given is the log from c's registration on,
\* without a gap, a repetition or a reordering, and its channel goes on where
\* the connection stopped.
InOrder(c) ==
    /\ joined[c] + Len(delivered[c]) + Len(send[c]) <= Len(log)
    /\ \A i \in 1..Len(delivered[c]) : delivered[c][i] = log[joined[c] + i]
    /\ writer[c] = "writing" =>
         \A i \in 1..Len(send[c]) :
            send[c][i] = log[joined[c] + Len(delivered[c]) + i]

\* A terminal that stays registered misses nothing: the hub evicts it rather
\* than skip a message (hub.go 70-84).
UpToDate(c) ==
    (c \in clients \ BeingEvicted /\ writer[c] = "writing") =>
        joined[c] + Len(delivered[c]) + Len(send[c]) = Len(log)

\* Each terminal's stream is a gap-free run of the published messages, and
\* registered terminals have all of it buffered or written.
GapFree == \A c \in Clients : joined[c] >= 0 => InOrder(c) /\ UpToDate(c)

\* When the hub has handled a client's unregistration, however the client
\* left (disconnect, eviction, Shutdown before or after), it is in no set of
\* the hub that feeds it, its writer has been told to stop and its user is no
\* longer online.
LeavesNoTrace ==
    \A c \in Clients : (reader[c] \in {"closing", "done"} /\ c \notin pending) =>
        /\ c \notin clients
        /\ c \in sendClosed
        /\ usernames[c] = NoName

\* A reader that has left its loop shows no user online, even while it waits
\* for the hub to take its unregistration: no later step brings the name back.
NoGhostUser ==
    \A c \in Clients :
        reader[c] \in {"leaving", "closing", "done"} => usernames[c] = NoName

\* Every change of the users online is followed by a new reading of them: when
\* nobody is about to read, the last reading is current.
LastSnapshotCurrent ==
    (\A g \in Goroutines : notifier[g] # "read") =>
        lastSnapshot = GetTerminalUsers

\* The hub implements the abstract event feed.
F == INSTANCE Feed
ImplementsFeed == F!FeedSpec

\* A connection that broke, or whose channel the hub closed, is cleaned up:
\* both pumps return and the hub forgets the client.  No interleaving leaves a
\* pump or a registration behind.
ConnectionsEnd ==
    \A c \in Clients :
        (conn[c] \in {"broken", "closed"} \/ c \in sendClosed) ~>
            /\ reader[c] = "done" /\ writer[c] = "done"
            /\ c \notin clients /\ c \in sendClosed

\* A terminal that is registered when the n-th message is distributed is given
\* that message, or its connection ends.
EventuallyDelivered ==
    \A c \in Clients : \A n \in 1..(MaxEvents + MaxIdentifies) :
        (c \in clients /\ joined[c] < n /\ Len(log) >= n) ~>
            (joined[c] + Len(delivered[c]) >= n \/ writer[c] = "done")

\* The "total" that Run logs and ClientCount returns is the number of registered
\* clients less one for each evicted client that has unregistered since: both
\* count it down (hub.go 61 and 83), and its mark in closedSend stays for ever,
\* because only a client that is still registered has it taken away (hub.go 58).
CountDrifts ==
    (AtSelect /\ ~down) =>
        clientCount = Cardinality(clients)
            - Cardinality({c \in closedSend : reader[c] \in {"closing", "done"}})
=============================================================================
