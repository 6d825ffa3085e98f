------------------------- MODULE WebsocketHubProofs -------------------------
(***************************************************************************)
(* Proofs about the hub for any number of clients, user names, buffer      *)
(* sizes and events.  The order is: the steps of Next one by one           *)
(* (NextCases), the types, the life cycle of a client (Lifecycle, the      *)
(* inductive core), and what follows from it.                              *)
(***************************************************************************)
EXTENDS WebsocketHub, SequenceTheorems, FiniteSetTheorems, TLAPS

\* A step of the hub is one of the actions below or changes nothing.  The
\* proofs that an invariant is kept go through this list.
LEMMA NextCases ==
    ASSUME [Next]_vars
    PROVE  \/ \E c \in Clients :
                \/ RegisterClient(c) \/ UnregisterClient(c) \/ Evict(c)
                \/ Upgrade(c) \/ PeerLeaves(c) \/ \E n \in Names : Identify(c, n)
                \/ ReadFails(c) \/ ReaderCloses(c)
                \/ Write(c) \/ WriterSeesClose(c) \/ PingFails(c)
                \/ SelectRegister(c) \/ SelectUnregister(c)
           \/ \E g \in Goroutines : ReadSnapshot(g) \/ EnqueueSnapshot(g)
           \/ LockToEvict \/ EvictionDone \/ Distribute \/ Shutdown
           \/ RelayEvent \/ UNCHANGED vars
  BY DEF Next, HubStep, HubCase, ClientStep, ReaderStep, WriterStep, Idle,
         Goroutines

USE DEF hubVars, userVars, chanVars, pumpVars, envVars, histVars

-----------------------------------------------------------------------------
(* Types.                                                                  *)

\* The users read from the names are names.
LEMMA UsersAreNames ==
    ASSUME TypeOK
    PROVE  GetTerminalUsers \subseteq Names
  BY DEF TypeOK, GetTerminalUsers

\* Hub.Broadcast of a message keeps the queue a bounded queue of messages.
LEMMA BroadcastTyped ==
    ASSUME TypeOK, NEW m \in Message, Broadcast(m)
    PROVE  broadcast' \in Seq(Message) /\ Len(broadcast') <= BroadcastBufferSize
  BY HubAssumption DEF TypeOK, Broadcast

\* RemoveUsername by any goroutine.
LEMMA RemoveUsernameTyped ==
    ASSUME TypeOK, NEW g \in Goroutines, NEW c \in Clients, RemoveUsername(g, c)
    PROVE  /\ usernames' \in [Clients -> Names \cup {NoName}]
           /\ notifier' \in [Goroutines -> {"idle", "read", "enqueue"}]
  BY DEF TypeOK, RemoveUsername

LEMMA TypeInit == Init => TypeOK
  <1> SUFFICES ASSUME Init PROVE TypeOK
    OBVIOUS
  <1>1. /\ broadcast \in Seq(Message) /\ Len(broadcast) = 0
        /\ log \in Seq(Message)
        /\ send \in [Clients -> Seq(Message)]
        /\ delivered \in [Clients -> Seq(Message)]
        /\ \A c \in Clients : Len(send[c]) = 0
    BY DEF Init
  <1>2. 0 \in 0..MaxEvents /\ 0 \in 0..MaxIdentifies
    BY HubAssumption
  <1>3. joined \in [Clients -> Nat \cup {-1}]
    BY DEF Init
  <1>4. /\ notifier \in [Goroutines -> {"idle", "read", "enqueue"}]
        /\ snapshot \in [Goroutines -> SUBSET Names]
        /\ usernames \in [Clients -> Names \cup {NoName}]
        /\ localName \in [Clients -> Names \cup {NoName}]
    BY DEF Init
  <1>5. /\ Len(broadcast) <= BroadcastBufferSize
        /\ \A c \in Clients : Len(send[c]) <= SendBufferSize
    BY <1>1, HubAssumption
  <1>6. down \in BOOLEAN /\ panicked \in BOOLEAN
    BY Zenon DEF Init
  <1>7. /\ reader \in [Clients -> {"absent", "registering", "reading",
                                  "leaving", "closing", "done"}]
        /\ writer \in [Clients -> {"absent", "writing", "done"}]
        /\ conn \in [Clients -> {"none", "open", "broken", "closed"}]
    BY DEF Init
  <1>8. /\ hubAt \in {"select", "register", "unregister", "slow", "evict"}
        /\ clientCount \in Int
        /\ events \in 0..MaxEvents /\ identifies \in 0..MaxIdentifies
    BY <1>2 DEF Init
  <1>9. /\ clients \subseteq Clients /\ closedSend \subseteq Clients
        /\ pending \subseteq Clients /\ sendClosed \subseteq Clients
        /\ lastSnapshot \subseteq Names
    BY DEF Init
  <1> QED
    BY <1>1, <1>3, <1>4, <1>5, <1>6, <1>7, <1>8, <1>9, Zenon DEF TypeOK

LEMMA TypeNext == TypeOK /\ [Next]_vars => TypeOK'
  <1> SUFFICES ASSUME TypeOK, [Next]_vars
               PROVE  TypeOK'
    OBVIOUS
  <1>1. ASSUME NEW c \in Clients, RegisterClient(c) PROVE TypeOK'
    BY <1>1 DEF TypeOK, RegisterClient
  <1>2. ASSUME NEW c \in Clients, UnregisterClient(c) PROVE TypeOK'
    <2>1. /\ usernames' \in [Clients -> Names \cup {NoName}]
          /\ notifier' \in [Goroutines -> {"idle", "read", "enqueue"}]
      BY <1>2, RemoveUsernameTyped DEF UnregisterClient, Goroutines
    <2>2. /\ clients' \subseteq Clients /\ closedSend' \subseteq Clients
          /\ sendClosed' \subseteq Clients
      BY <1>2 DEF TypeOK, UnregisterClient, DropClient, CloseSend
    <2>3. panicked' \in BOOLEAN
      BY <1>2, Zenon DEF TypeOK, UnregisterClient, DropClient, CloseSend
    <2> QED
      BY <1>2, <2>1, <2>2, <2>3 DEF TypeOK, UnregisterClient
  <1>3. ASSUME NEW c \in Clients, Evict(c) PROVE TypeOK'
    <2>1. /\ usernames' \in [Clients -> Names \cup {NoName}]
          /\ notifier' \in [Goroutines -> {"idle", "read", "enqueue"}]
      BY <1>3, RemoveUsernameTyped DEF Evict, Goroutines, TypeOK
    <2>2. /\ clients' \subseteq Clients /\ closedSend' \subseteq Clients
          /\ sendClosed' \subseteq Clients /\ clientCount' \in Int
      BY <1>3 DEF TypeOK, Evict, CloseSend
    <2>3. panicked' \in BOOLEAN
      BY <1>3, Zenon DEF TypeOK, Evict, CloseSend
    <2> QED
      BY <1>3, <2>1, <2>2, <2>3 DEF TypeOK, Evict
  <1>4. CASE LockToEvict
    BY <1>4 DEF TypeOK, LockToEvict
  <1>5. CASE EvictionDone
    BY <1>5 DEF TypeOK, EvictionDone
  <1>6. CASE Distribute
    <2>1. /\ Head(broadcast) \in Message
          /\ broadcast' \in Seq(Message)
          /\ Len(broadcast') <= BroadcastBufferSize
          /\ log' \in Seq(Message)
      BY <1>6, HubAssumption DEF TypeOK, Distribute
    <2>2. /\ send' \in [Clients -> Seq(Message)]
          /\ \A c \in Clients : Len(send'[c]) <= SendBufferSize
      BY <1>6, <2>1, HubAssumption DEF TypeOK, Distribute
    <2> QED
      BY <1>6, <2>1, <2>2 DEF TypeOK, Distribute, SlowClients
  <1>7. CASE Shutdown
    BY <1>7 DEF TypeOK, Shutdown, CloseSend
  <1>8. CASE RelayEvent
    <2>1. [type |-> "event", id |-> events + 1] \in Message
      BY <1>8, HubAssumption DEF RelayEvent, TypeOK, Message, Event
    <2>2. broadcast' \in Seq(Message) /\ Len(broadcast') <= BroadcastBufferSize
      BY <1>8, <2>1, BroadcastTyped DEF RelayEvent
    <2> QED
      BY <1>8, <2>2, HubAssumption DEF TypeOK, RelayEvent
  <1>9. CASE UNCHANGED vars
    BY <1>9 DEF TypeOK, vars
  <1>10. ASSUME NEW c \in Clients, Upgrade(c) PROVE TypeOK'
    BY <1>10 DEF TypeOK, Upgrade
  <1>11. ASSUME NEW c \in Clients, PeerLeaves(c) PROVE TypeOK'
    BY <1>11 DEF TypeOK, PeerLeaves
  <1>12. ASSUME NEW c \in Clients, NEW n \in Names, Identify(c, n) PROVE TypeOK'
    BY <1>12, HubAssumption DEF TypeOK, Identify, Goroutines
  <1>13. ASSUME NEW c \in Clients, ReadFails(c) PROVE TypeOK'
    BY <1>13 DEF TypeOK, ReadFails, RemoveUsername
  <1>14. ASSUME NEW c \in Clients, ReaderCloses(c) PROVE TypeOK'
    BY <1>14 DEF TypeOK, ReaderCloses
  <1>15. ASSUME NEW c \in Clients, Write(c) PROVE TypeOK'
    <2>1. /\ Head(send[c]) \in Message
          /\ Tail(send[c]) \in Seq(Message)
          /\ Len(Tail(send[c])) = Len(send[c]) - 1
      BY <1>15, HeadTailProperties DEF TypeOK, Write
    <2>2. /\ send' \in [Clients -> Seq(Message)]
          /\ \A d \in Clients : Len(send'[d]) <= SendBufferSize
      BY <1>15, <2>1, HubAssumption DEF TypeOK, Write
    <2>3. delivered' \in [Clients -> Seq(Message)]
      <3>1. Append(delivered[c], Head(send[c])) \in Seq(Message)
        BY <2>1 DEF TypeOK
      <3> QED
        BY <1>15, <3>1 DEF TypeOK, Write
    <2> QED
      BY <1>15, <2>2, <2>3 DEF TypeOK, Write, WriterExits
  <1>16. ASSUME NEW c \in Clients, WriterSeesClose(c) PROVE TypeOK'
    BY <1>16 DEF TypeOK, WriterSeesClose, WriterExits
  <1>17. ASSUME NEW c \in Clients, PingFails(c) PROVE TypeOK'
    BY <1>17 DEF TypeOK, PingFails, WriterExits
  <1>18. ASSUME NEW c \in Clients, SelectRegister(c) PROVE TypeOK'
    BY <1>18 DEF TypeOK, SelectRegister
  <1>19. ASSUME NEW c \in Clients, SelectUnregister(c) PROVE TypeOK'
    BY <1>19 DEF TypeOK, SelectUnregister
  <1>20. ASSUME NEW g \in Goroutines, ReadSnapshot(g) PROVE TypeOK'
    BY <1>20, UsersAreNames DEF TypeOK, ReadSnapshot
  <1>21. ASSUME NEW g \in Goroutines, EnqueueSnapshot(g) PROVE TypeOK'
    <2>1. [type |-> "terminal_online", users |-> snapshot[g]] \in Message
      BY DEF TypeOK, Message, Snapshot
    <2>2. broadcast' \in Seq(Message) /\ Len(broadcast') <= BroadcastBufferSize
      BY <1>21, <2>1, BroadcastTyped DEF EnqueueSnapshot
    <2> QED
      BY <1>21, <2>2 DEF TypeOK, EnqueueSnapshot
  <1> QED
    BY <1>1, <1>2, <1>3, <1>4, <1>5, <1>6, <1>7, <1>8, <1>9, <1>10, <1>11,
       <1>12, <1>13, <1>14, <1>15, <1>16, <1>17, <1>18, <1>19, <1>20, <1>21,
       NextCases

\* Every variable keeps its type: in particular no channel ever holds more than
\* its capacity (NewHub, NewClient).
THEOREM TypeCorrect == Spec => []TypeOK
  <1>1. Init => TypeOK
    BY TypeInit
  <1>2. TypeOK /\ [Next]_vars => TypeOK'
    BY TypeNext
  <1> QED
    BY <1>1, <1>2, PTL DEF Spec

-----------------------------------------------------------------------------
(* The life cycle of a client.                                             *)

LEMMA LifecycleInit == Init => Lifecycle
  BY DEF Init, Lifecycle, StageOf

\* Steps that only change what Lifecycle does not mention.
LEMMA LifecycleFrame ==
    ASSUME Lifecycle,
           UNCHANGED <<clients, closedSend, sendClosed, panicked, hubAt, pending,
                       reader, joined, send, delivered>>
    PROVE  Lifecycle'
  BY DEF Lifecycle, StageOf

LEMMA LifecycleNext == TypeOK /\ Lifecycle /\ [Next]_vars => Lifecycle'
  <1> SUFFICES ASSUME TypeOK, Lifecycle, [Next]_vars
               PROVE  Lifecycle'
    OBVIOUS
  <1>t. /\ clients \subseteq Clients /\ pending \subseteq Clients
        /\ hubAt \in {"select", "register", "unregister", "slow", "evict"}
        /\ reader \in [Clients -> {"absent", "registering", "reading",
                                  "leaving", "closing", "done"}]
        /\ joined \in [Clients -> Nat \cup {-1}]
        /\ send \in [Clients -> Seq(Message)]
        /\ delivered \in [Clients -> Seq(Message)]
        /\ log \in Seq(Message)
    BY DEF TypeOK
  <1>o. clients \cap sendClosed = {} /\ closedSend \subseteq sendClosed
    BY <1>t DEF Lifecycle, StageOf
  <1>1. ASSUME NEW c \in Clients, RegisterClient(c) PROVE Lifecycle'
    BY <1>t, <1>1 DEF Lifecycle, StageOf, RegisterClient
  <1>2. ASSUME NEW c \in Clients, UnregisterClient(c) PROVE Lifecycle'
    <2>1. ~panicked'
      BY <1>o, <1>2, Zenon DEF Lifecycle, UnregisterClient, DropClient, CloseSend
    <2>2. /\ closedSend' \subseteq sendClosed'
          /\ hubAt' = "select" => pending' = {}
          /\ hubAt' \in {"register", "unregister"} =>
                \E d \in Clients : pending' = {d}
      BY <1>t, <1>o, <1>2 DEF Lifecycle, UnregisterClient, DropClient, CloseSend
    <2>3. \A d \in Clients : StageOf(d)'
      BY <1>t, <1>o, <1>2 DEF Lifecycle, StageOf, UnregisterClient, DropClient, CloseSend
    <2> QED
      BY <2>1, <2>2, <2>3, Zenon DEF Lifecycle
  <1>3. ASSUME NEW c \in Clients, Evict(c) PROVE Lifecycle'
    <2>1. ~panicked'
      BY <1>o, <1>3, Zenon DEF Lifecycle, Evict, StillRegistered, CloseSend
    <2>2. /\ closedSend' \subseteq sendClosed'
          /\ hubAt' = "select" => pending' = {}
          /\ hubAt' \in {"register", "unregister"} =>
                \E d \in Clients : pending' = {d}
      BY <1>t, <1>o, <1>3 DEF Lifecycle, Evict, StillRegistered, CloseSend
    <2>3. \A d \in Clients : StageOf(d)'
      BY <1>t, <1>o, <1>3 DEF Lifecycle, StageOf, Evict, StillRegistered, CloseSend
    <2> QED
      BY <2>1, <2>2, <2>3, Zenon DEF Lifecycle
  <1>4. CASE LockToEvict
    BY <1>t, <1>4 DEF Lifecycle, StageOf, LockToEvict
  <1>5. CASE EvictionDone
    BY <1>t, <1>5 DEF Lifecycle, StageOf, EvictionDone
  <1>6. CASE Distribute
    <2>1. ~panicked'
      BY <1>o, <1>6, Zenon DEF Lifecycle, Distribute
    <2>2. /\ closedSend' \subseteq sendClosed'
          /\ hubAt' = "select" => pending' = {}
          /\ hubAt' \in {"register", "unregister"} =>
                \E d \in Clients : pending' = {d}
      BY <1>t, <1>o, <1>6 DEF Lifecycle, Distribute, SlowClients, AtSelect
    <2>3. \A d \in Clients : StageOf(d)'
      BY <1>t, <1>o, <1>6 DEF Lifecycle, StageOf, Distribute, SlowClients, AtSelect
    <2> QED
      BY <2>1, <2>2, <2>3, Zenon DEF Lifecycle
  <1>7. CASE Shutdown
    <2>1. ~panicked'
      BY <1>o, <1>7, Zenon DEF Lifecycle, Shutdown, CloseSend
    <2>2. /\ closedSend' \subseteq sendClosed'
          /\ hubAt' = "select" => pending' = {}
          /\ hubAt' \in {"register", "unregister"} =>
                \E d \in Clients : pending' = {d}
      BY <1>t, <1>o, <1>7 DEF Lifecycle, Shutdown, CloseSend
    <2>3. \A d \in Clients : StageOf(d)'
      BY <1>t, <1>o, <1>7 DEF Lifecycle, StageOf, Shutdown, CloseSend
    <2> QED
      BY <2>1, <2>2, <2>3, Zenon DEF Lifecycle
  <1>8. CASE RelayEvent
    BY <1>8, LifecycleFrame DEF RelayEvent
  <1>9. CASE UNCHANGED vars
    BY <1>9, LifecycleFrame DEF vars
  <1>10. ASSUME NEW c \in Clients, Upgrade(c) PROVE Lifecycle'
    BY <1>t, <1>10 DEF Lifecycle, StageOf, Upgrade
  <1>11. ASSUME NEW c \in Clients, PeerLeaves(c) PROVE Lifecycle'
    BY <1>11, LifecycleFrame DEF PeerLeaves
  <1>12. ASSUME NEW c \in Clients, NEW n \in Names, Identify(c, n)
         PROVE  Lifecycle'
    BY <1>12, LifecycleFrame DEF Identify
  <1>13. ASSUME NEW c \in Clients, ReadFails(c) PROVE Lifecycle'
    BY <1>t, <1>13 DEF Lifecycle, StageOf, ReadFails
  <1>14. ASSUME NEW c \in Clients, ReaderCloses(c) PROVE Lifecycle'
    BY <1>t, <1>14 DEF Lifecycle, StageOf, ReaderCloses
  <1>15. ASSUME NEW c \in Clients, Write(c) PROVE Lifecycle'
    BY <1>t, <1>15 DEF Lifecycle, StageOf, Write
  <1>16. ASSUME NEW c \in Clients, WriterSeesClose(c) PROVE Lifecycle'
    BY <1>16, LifecycleFrame DEF WriterSeesClose
  <1>17. ASSUME NEW c \in Clients, PingFails(c) PROVE Lifecycle'
    BY <1>17, LifecycleFrame DEF PingFails
  <1>18. ASSUME NEW c \in Clients, SelectRegister(c) PROVE Lifecycle'
    BY <1>t, <1>18 DEF Lifecycle, StageOf, SelectRegister, AtSelect
  <1>19. ASSUME NEW c \in Clients, SelectUnregister(c) PROVE Lifecycle'
    BY <1>t, <1>19 DEF Lifecycle, StageOf, SelectUnregister, AtSelect
  <1>20. ASSUME NEW g \in Goroutines, ReadSnapshot(g) PROVE Lifecycle'
    BY <1>20, LifecycleFrame DEF ReadSnapshot
  <1>21. ASSUME NEW g \in Goroutines, EnqueueSnapshot(g) PROVE Lifecycle'
    BY <1>21, LifecycleFrame DEF EnqueueSnapshot
  <1> QED
    BY <1>1, <1>2, <1>3, <1>4, <1>5, <1>6, <1>7, <1>8, <1>9, <1>10, <1>11,
       <1>12, <1>13, <1>14, <1>15, <1>16, <1>17, <1>18, <1>19, <1>20, <1>21,
       NextCases

\* Registered clients have open channels, forgotten ones closed channels, and a
\* client is handled by one select case at a time, in every interleaving of
\* Run's cases, Shutdown and the pumps.
THEOREM LifecycleCorrect == Spec => []Lifecycle
  <1>1. Init => TypeOK /\ Lifecycle
    BY TypeInit, LifecycleInit
  <1>2. TypeOK /\ Lifecycle /\ [Next]_vars => (TypeOK /\ Lifecycle)'
    BY TypeNext, LifecycleNext
  <1> QED
    BY <1>1, <1>2, PTL DEF Spec

\* No goroutine closes a send channel twice or sends on a closed one: the
\* membership tests of the unregister case and of the eviction loop, and
\* Shutdown's deletions under the same lock, are enough.
THEOREM NeverPanics == Spec => []NoPanic
  <1>1. Lifecycle => NoPanic
    BY DEF Lifecycle, NoPanic
  <1> QED
    BY <1>1, LifecycleCorrect, PTL

-----------------------------------------------------------------------------
(* The streams of the clients.                                             *)

LEMMA GapFreeInit == Init => GapFree
  BY DEF Init, GapFree

\* What a step keeps when it changes no stream, lets no client in and only
\* takes clients off the list of those being evicted after forgetting them.
LEMMA StreamsKept ==
    ASSUME GapFree,
           UNCHANGED <<log, joined, delivered, send>>,
           \A d \in Clients : joined[d] >= 0 /\ writer'[d] = "writing"
                                => writer[d] = "writing",
           clients' \subseteq clients,
           clients' \cap BeingEvicted \subseteq BeingEvicted'
    PROVE  GapFree'
  BY DEF GapFree, InOrder, UpToDate

LEMMA GapFreeNext == TypeOK /\ Lifecycle /\ GapFree /\ [Next]_vars => GapFree'
  <1> SUFFICES ASSUME TypeOK, Lifecycle, GapFree, [Next]_vars
               PROVE  GapFree'
    OBVIOUS
  <1>t. /\ clients \subseteq Clients /\ pending \subseteq Clients
        /\ writer \in [Clients -> {"absent", "writing", "done"}]
        /\ joined \in [Clients -> Nat \cup {-1}]
        /\ send \in [Clients -> Seq(Message)]
        /\ delivered \in [Clients -> Seq(Message)]
        /\ log \in Seq(Message) /\ broadcast \in Seq(Message)
    BY DEF TypeOK
  <1>1. ASSUME NEW c \in Clients, RegisterClient(c) PROVE GapFree'
    <2> SUFFICES ASSUME NEW d \in Clients, joined'[d] >= 0
                 PROVE  InOrder(d)' /\ UpToDate(d)'
      BY DEF GapFree
    <2>1. CASE d = c
      <3>1. joined[c] = -1
        BY <1>1 DEF RegisterClient, Lifecycle, StageOf
      <3>2. send[c] = <<>> /\ delivered[c] = <<>>
        BY <3>1 DEF Lifecycle, StageOf
      <3>3. joined'[c] = Len(log) /\ Len(log) \in Nat
        BY <1>t, <1>1 DEF RegisterClient
      <3>4. /\ log' = log /\ writer' = writer
            /\ send'[c] = <<>> /\ Len(send'[c]) = 0
            /\ delivered'[c] = <<>> /\ Len(delivered'[c]) = 0
        BY <1>1, <3>2 DEF RegisterClient
      <3>5. InOrder(c)'
        BY <3>3, <3>4 DEF InOrder
      <3>6. UpToDate(c)'
        BY <3>3, <3>4 DEF UpToDate
      <3> QED
        BY <2>1, <3>5, <3>6
    <2>2. CASE d # c
      BY <1>t, <1>1, <2>2 DEF RegisterClient, GapFree, InOrder, UpToDate,
         BeingEvicted
    <2> QED
      BY <2>1, <2>2
  <1>2. ASSUME NEW c \in Clients, UnregisterClient(c) PROVE GapFree'
    BY <1>2, StreamsKept
    DEF UnregisterClient, DropClient, BeingEvicted
  <1>3. ASSUME NEW c \in Clients, Evict(c) PROVE GapFree'
    BY <1>3, StreamsKept DEF Evict, StillRegistered, BeingEvicted
  <1>4. CASE LockToEvict
    BY <1>4, StreamsKept DEF LockToEvict, BeingEvicted
  <1>5. CASE EvictionDone
    BY <1>5, StreamsKept DEF EvictionDone, BeingEvicted
  <1>6. CASE Distribute
    <2> DEFINE m == Head(broadcast)
    <2>1. m \in Message
      BY <1>t, <1>6 DEF Distribute
    <2>2. /\ Len(log') = Len(log) + 1 /\ Len(log) \in Nat
          /\ \A i \in 1..Len(log) : log'[i] = log[i]
          /\ log'[Len(log) + 1] = m
      BY <1>t, <1>6, <2>1, AppendProperties DEF Distribute
    <2> SUFFICES ASSUME NEW d \in Clients, joined'[d] >= 0
                 PROVE  InOrder(d)' /\ UpToDate(d)'
      BY DEF GapFree
    <2>3. /\ joined'[d] = joined[d] /\ joined[d] \in Nat
          /\ delivered'[d] = delivered[d] /\ Len(delivered[d]) \in Nat
          /\ Len(send[d]) \in Nat /\ clients' = clients
          /\ writer' = writer
      BY <1>t, <1>6 DEF Distribute
    <2>4. InOrder(d) /\ UpToDate(d) /\ d \notin BeingEvicted
      BY <1>6, <2>3 DEF GapFree, Distribute, AtSelect, BeingEvicted
    <2>a. ASSUME NEW i \in 1..Len(delivered[d])
          PROVE  delivered[d][i] = log'[joined[d] + i]
      <3>1. delivered[d][i] = log[joined[d] + i]
        BY <2>4 DEF InOrder
      <3>2. joined[d] + Len(delivered[d]) + Len(send[d]) <= Len(log)
        BY <2>4 DEF InOrder
      <3>3. joined[d] + i \in 1..Len(log)
        BY <2>2, <2>3, <3>2
      <3> QED
        BY <2>2, <3>1, <3>3
    <2>5. CASE d \in clients /\ Len(send[d]) < SendBufferSize
      <3>1. /\ Len(send'[d]) = Len(send[d]) + 1
            /\ \A i \in 1..Len(send[d]) : send'[d][i] = send[d][i]
            /\ send'[d][Len(send[d]) + 1] = m
        BY <1>t, <1>6, <2>1, <2>5, AppendProperties DEF Distribute
      <3>2. \A i \in 1..Len(delivered[d]) : delivered[d][i] = log'[joined[d] + i]
        BY <2>a
      <3>3. ASSUME writer[d] = "writing", NEW i \in 1..(Len(send[d]) + 1)
            PROVE  send'[d][i] = log'[joined[d] + Len(delivered[d]) + i]
        <4>1. joined[d] + Len(delivered[d]) + Len(send[d]) = Len(log)
          BY <2>4, <2>5, <3>3 DEF UpToDate
        <4>2. CASE i = Len(send[d]) + 1
          <5>1. /\ joined[d] \in Int /\ Len(delivered[d]) \in Int
                /\ Len(send[d]) \in Int
            BY <2>3
          <5>2. joined[d] + Len(delivered[d]) + i = Len(log) + 1
            BY <4>1, <4>2, <5>1
          <5> QED
            BY <2>2, <3>1, <4>2, <5>2
        <4>3. CASE i \in 1..Len(send[d])
          <5>1. send[d][i] = log[joined[d] + Len(delivered[d]) + i]
            BY <2>4, <3>3, <4>3 DEF InOrder
          <5>2. joined[d] + Len(delivered[d]) + i \in 1..Len(log)
            BY <2>3, <4>1, <4>3, <2>2
          <5> QED
            BY <2>2, <3>1, <4>3, <5>1, <5>2
        <4> QED
          BY <2>3, <4>2, <4>3
      <3>4. joined[d] + Len(delivered[d]) + (Len(send[d]) + 1) <= Len(log) + 1
        BY <2>2, <2>3, <2>4 DEF InOrder
      <3>5. InOrder(d)'
        BY <2>2, <2>3, <3>1, <3>2, <3>3, <3>4 DEF InOrder
      <3>6. ASSUME writer[d] = "writing"
            PROVE  joined[d] + Len(delivered[d]) + (Len(send[d]) + 1) = Len(log) + 1
        <4>1. joined[d] + Len(delivered[d]) + Len(send[d]) = Len(log)
          BY <2>4, <2>5, <3>6 DEF UpToDate
        <4>2. /\ joined[d] \in Int /\ Len(delivered[d]) \in Int
              /\ Len(send[d]) \in Int
          BY <2>3
        <4> QED
          BY <4>1, <4>2
      <3> QED
        BY <2>2, <2>3, <3>1, <3>5, <3>6 DEF UpToDate
    <2>6. CASE ~(d \in clients /\ Len(send[d]) < SendBufferSize)
      <3>1. send'[d] = send[d]
        BY <1>6, <2>6 DEF Distribute
      <3>2. d \notin clients \/ d \in BeingEvicted'
        BY <1>6, <2>3, <2>6, HubAssumption
        DEF Distribute, SlowClients, BeingEvicted
      <3>3. joined[d] + Len(delivered[d]) + Len(send[d]) <= Len(log)
        BY <2>4 DEF InOrder
      <3>4. ASSUME writer[d] = "writing", NEW i \in 1..Len(send[d])
            PROVE  send[d][i] = log'[joined[d] + Len(delivered[d]) + i]
        <4>1. send[d][i] = log[joined[d] + Len(delivered[d]) + i]
          BY <2>4, <3>4 DEF InOrder
        <4>2. joined[d] + Len(delivered[d]) + i \in 1..Len(log)
          BY <2>2, <2>3, <3>3
        <4> QED
          BY <2>2, <4>1, <4>2
      <3>5. joined[d] + Len(delivered[d]) + Len(send[d]) <= Len(log')
        BY <2>2, <2>3, <3>3
      <3>6. InOrder(d)'
        BY <2>3, <2>a, <3>1, <3>4, <3>5 DEF InOrder
      <3> QED
        BY <2>3, <3>2, <3>6 DEF UpToDate
    <2> QED
      BY <2>5, <2>6
  <1>7. CASE Shutdown
    BY <1>7, StreamsKept DEF Shutdown, BeingEvicted
  <1>8. CASE RelayEvent
    BY <1>8, StreamsKept DEF RelayEvent, BeingEvicted
  <1>9. CASE UNCHANGED vars
    BY <1>9, StreamsKept DEF vars, BeingEvicted
  <1>10. ASSUME NEW c \in Clients, Upgrade(c) PROVE GapFree'
    BY <1>10, StreamsKept DEF Upgrade, BeingEvicted
  <1>11. ASSUME NEW c \in Clients, PeerLeaves(c) PROVE GapFree'
    BY <1>11, StreamsKept DEF PeerLeaves, BeingEvicted
  <1>12. ASSUME NEW c \in Clients, NEW n \in Names, Identify(c, n)
         PROVE  GapFree'
    BY <1>12, StreamsKept DEF Identify, BeingEvicted
  <1>13. ASSUME NEW c \in Clients, ReadFails(c) PROVE GapFree'
    BY <1>13, StreamsKept DEF ReadFails, BeingEvicted
  <1>14. ASSUME NEW c \in Clients, ReaderCloses(c) PROVE GapFree'
    BY <1>14, StreamsKept DEF ReaderCloses, BeingEvicted
  <1>15. ASSUME NEW c \in Clients, Write(c) PROVE GapFree'
    <2>1. /\ Head(send[c]) \in Message /\ Head(send[c]) = send[c][1]
          /\ Len(send[c]) \in Nat \ {0}
          /\ Len(Tail(send[c])) = Len(send[c]) - 1
          /\ \A i \in 1..Len(Tail(send[c])) : Tail(send[c])[i] = send[c][i + 1]
      BY <1>t, <1>15, HeadTailProperties DEF Write
    <2> SUFFICES ASSUME NEW d \in Clients, joined'[d] >= 0
                 PROVE  InOrder(d)' /\ UpToDate(d)'
      BY DEF GapFree
    <2>2. /\ joined' = joined /\ log' = log /\ clients' = clients
          /\ BeingEvicted' = BeingEvicted
          /\ joined[d] \in Nat /\ Len(delivered[d]) \in Nat
          /\ Len(delivered[c]) \in Nat /\ Len(log) \in Nat
      BY <1>t, <1>15 DEF Write, BeingEvicted
    <2>3. InOrder(d) /\ UpToDate(d)
      BY <2>2 DEF GapFree
    <2>4. CASE d # c
      BY <1>t, <1>15, <2>2, <2>3, <2>4 DEF Write, WriterExits, InOrder, UpToDate
    <2>5. CASE d = c /\ delivered' = delivered
      <3>1. send'[c] = Tail(send[c])
        BY <1>t, <1>15 DEF Write
      <3>2. CASE writer'[c] = "done"
        BY <2>1, <2>2, <2>3, <2>5, <3>1, <3>2 DEF InOrder, UpToDate
      <3>3. CASE writer'[c] # "done"
        <4>1. delivered'[c] = Append(delivered[c], Head(send[c]))
          BY <1>t, <1>15, <3>3 DEF Write, WriterExits
        <4>2. Len(delivered'[c]) = Len(delivered[c]) + 1
          BY <1>t, <2>1, <4>1, AppendProperties
        <4> QED
          BY <2>2, <2>5, <4>2
      <3> QED
        BY <3>2, <3>3
    <2>6. CASE d = c /\ delivered' # delivered
      <3>0. /\ joined[c] \in Nat /\ Len(delivered[c]) \in Nat
            /\ Len(send[c]) \in Nat /\ Len(Tail(send[c])) = Len(send[c]) - 1
        BY <2>1, <2>2, <2>6
      <3>1. /\ send'[c] = Tail(send[c])
            /\ delivered'[c] = Append(delivered[c], Head(send[c]))
            /\ writer' = writer /\ writer[c] = "writing"
        BY <1>t, <1>15, <2>6 DEF Write
      <3>2. /\ Len(delivered'[c]) = Len(delivered[c]) + 1
            /\ \A i \in 1..Len(delivered[c]) : delivered'[c][i] = delivered[c][i]
            /\ delivered'[c][Len(delivered[c]) + 1] = send[c][1]
        BY <1>t, <2>1, <3>1, AppendProperties
      <3>3. send[c][1] = log[joined[c] + Len(delivered[c]) + 1]
        BY <2>1, <2>3, <2>6, <3>1 DEF InOrder
      <3>4. ASSUME NEW i \in 1..Len(delivered'[c])
            PROVE  delivered'[c][i] = log[joined[c] + i]
        <4>1. CASE i = Len(delivered[c]) + 1
          <5>1. joined[c] + Len(delivered[c]) + 1 = joined[c] + i
            BY <3>0, <4>1
          <5> QED
            BY <3>2, <3>3, <4>1, <5>1
        <4>2. CASE i \in 1..Len(delivered[c])
          BY <2>3, <2>6, <3>2, <4>2 DEF InOrder
        <4> QED
          BY <2>2, <3>2, <4>1, <4>2
      <3>5. ASSUME NEW i \in 1..Len(send'[c])
            PROVE  send'[c][i] = log[joined[c] + (Len(delivered[c]) + 1) + i]
        <4>1. send'[c][i] = send[c][i + 1] /\ i + 1 \in 1..Len(send[c])
          BY <2>1, <3>1
        <4>2. send[c][i + 1] = log[joined[c] + Len(delivered[c]) + (i + 1)]
          BY <2>3, <2>6, <3>1, <4>1 DEF InOrder
        <4>3. joined[c] + Len(delivered[c]) + (i + 1)
                = joined[c] + (Len(delivered[c]) + 1) + i
          <5>1. i \in Int
            BY <3>0, <3>1
          <5> QED
            BY <3>0, <5>1
        <4> QED
          BY <4>1, <4>2, <4>3
      <3>6. joined[c] + Len(delivered'[c]) + Len(send'[c])
              = joined[c] + Len(delivered[c]) + Len(send[c])
        BY <3>0, <3>1, <3>2
      <3>7. joined[c] + Len(delivered'[c]) + Len(send'[c]) <= Len(log)
        BY <2>3, <2>6, <3>6 DEF InOrder
      <3>8. ASSUME NEW i \in 1..Len(send'[c])
            PROVE  send'[c][i] = log[joined[c] + Len(delivered'[c]) + i]
        BY <3>2, <3>5
      <3>9. InOrder(c)'
        BY <2>2, <3>4, <3>7, <3>8 DEF InOrder
      <3>10. UpToDate(c)'
        BY <2>2, <2>3, <2>6, <3>1, <3>6 DEF UpToDate
      <3> QED
        BY <2>6, <3>9, <3>10
    <2> QED
      BY <2>4, <2>5, <2>6
  <1>16. ASSUME NEW c \in Clients, WriterSeesClose(c) PROVE GapFree'
    BY <1>t, <1>16, StreamsKept DEF WriterSeesClose, WriterExits, BeingEvicted
  <1>17. ASSUME NEW c \in Clients, PingFails(c) PROVE GapFree'
    BY <1>t, <1>17, StreamsKept DEF PingFails, WriterExits, BeingEvicted
  <1>18. ASSUME NEW c \in Clients, SelectRegister(c) PROVE GapFree'
    <2>1. joined[c] = -1
      BY <1>18 DEF SelectRegister, Lifecycle, StageOf
    <2> QED
      BY <1>t, <1>18, <2>1, StreamsKept DEF SelectRegister, AtSelect, BeingEvicted
  <1>19. ASSUME NEW c \in Clients, SelectUnregister(c) PROVE GapFree'
    BY <1>19, StreamsKept DEF SelectUnregister, AtSelect, BeingEvicted
  <1>20. ASSUME NEW g \in Goroutines, ReadSnapshot(g) PROVE GapFree'
    BY <1>20, StreamsKept DEF ReadSnapshot, BeingEvicted
  <1>21. ASSUME NEW g \in Goroutines, EnqueueSnapshot(g) PROVE GapFree'
    BY <1>21, StreamsKept DEF EnqueueSnapshot, BeingEvicted
  <1> QED
    BY <1>1, <1>2, <1>3, <1>4, <1>5, <1>6, <1>7, <1>8, <1>9, <1>10, <1>11,
       <1>12, <1>13, <1>14, <1>15, <1>16, <1>17, <1>18, <1>19, <1>20, <1>21,
       NextCases

\* A terminal's stream is a gap-free run of the published messages, and a
\* terminal that stays registered has all of them written or buffered.
THEOREM GapFreeCorrect == Spec => []GapFree
  <1>1. Init => TypeOK /\ Lifecycle /\ GapFree
    BY TypeInit, LifecycleInit, GapFreeInit
  <1>2. TypeOK /\ Lifecycle /\ GapFree /\ [Next]_vars
            => (TypeOK /\ Lifecycle /\ GapFree)'
    BY TypeNext, LifecycleNext, GapFreeNext
  <1> QED
    BY <1>1, <1>2, PTL DEF Spec

-----------------------------------------------------------------------------
(* The users online.                                                       *)

LEMMA UsersInit == Init => NoGhostUser /\ LastSnapshotCurrent
  BY HubAssumption DEF Init, NoGhostUser, LastSnapshotCurrent, GetTerminalUsers,
     Goroutines

LEMMA UsersFrame ==
    ASSUME NoGhostUser, LastSnapshotCurrent, TypeOK,
           UNCHANGED <<usernames, notifier, lastSnapshot>>,
           \A d \in Clients : reader'[d] \in {"leaving", "closing", "done"} =>
                                 reader[d] \in {"leaving", "closing", "done"}
    PROVE  (NoGhostUser /\ LastSnapshotCurrent)'
  BY DEF NoGhostUser, LastSnapshotCurrent, GetTerminalUsers

\* After RemoveUsername either the names are what they were or a reading of
\* them is due.
LEMMA RemovalIsRead ==
    ASSUME NEW g \in Goroutines, NEW c \in Clients, TypeOK,
           LastSnapshotCurrent, RemoveUsername(g, c), notifier[g] = "idle",
           UNCHANGED lastSnapshot
    PROVE  LastSnapshotCurrent'
  <1>1. CASE usernames[c] = NoName
    <2>1. usernames' = usernames /\ notifier' = notifier
      BY <1>1 DEF RemoveUsername, TypeOK
    <2> QED
      BY <2>1 DEF LastSnapshotCurrent, GetTerminalUsers
  <1>2. CASE usernames[c] # NoName
    <2>1. notifier'[g] = "read"
      BY <1>2 DEF RemoveUsername, TypeOK
    <2> QED
      BY <2>1 DEF LastSnapshotCurrent
  <1> QED
    BY <1>1, <1>2

\* The hub has no notification of its own under way while it runs a case.
HubIsFree == hubAt \in {"register", "unregister", "slow"} => notifier[HubLoop] = "idle"

LEMMA UsersNext ==
    TypeOK /\ HubIsFree /\ NoGhostUser /\ LastSnapshotCurrent /\ [Next]_vars
        => (HubIsFree /\ NoGhostUser /\ LastSnapshotCurrent)'
  <1> SUFFICES ASSUME TypeOK, HubIsFree, NoGhostUser, LastSnapshotCurrent,
                      [Next]_vars
               PROVE  (HubIsFree /\ NoGhostUser /\ LastSnapshotCurrent)'
    OBVIOUS
  <1> DEFINE Good == HubIsFree /\ NoGhostUser /\ LastSnapshotCurrent
  <1>t. /\ usernames \in [Clients -> Names \cup {NoName}]
        /\ notifier \in [Goroutines -> {"idle", "read", "enqueue"}]
        /\ reader \in [Clients -> {"absent", "registering", "reading",
                                  "leaving", "closing", "done"}]
        /\ HubLoop \in Goroutines /\ Clients \subseteq Goroutines
        /\ HubLoop \notin Clients
    BY HubAssumption DEF TypeOK, Goroutines
  <1>1. ASSUME NEW c \in Clients, RegisterClient(c) PROVE Good'
    BY <1>1, UsersFrame DEF RegisterClient, HubIsFree
  <1>2. ASSUME NEW c \in Clients, UnregisterClient(c) PROVE Good'
    <2>1. LastSnapshotCurrent'
      BY <1>t, <1>2, RemovalIsRead DEF UnregisterClient, HubIsFree
    <2>2. NoGhostUser'
      BY <1>t, <1>2 DEF UnregisterClient, RemoveUsername, NoGhostUser
    <2> QED
      BY <1>2, <2>1, <2>2 DEF UnregisterClient, HubIsFree
  <1>3. ASSUME NEW c \in Clients, Evict(c) PROVE Good'
    <2>1. CASE StillRegistered(c)
      <3>1. LastSnapshotCurrent'
        BY <1>t, <1>3, <2>1, RemovalIsRead DEF Evict
      <3>2. NoGhostUser'
        BY <1>t, <1>3, <2>1 DEF Evict, RemoveUsername, NoGhostUser
      <3> QED
        BY <1>3, <3>1, <3>2 DEF Evict, HubIsFree
    <2>2. CASE ~StillRegistered(c)
      BY <1>3, <2>2, UsersFrame DEF Evict, HubIsFree
    <2> QED
      BY <2>1, <2>2
  <1>4. CASE LockToEvict
    BY <1>4, UsersFrame DEF LockToEvict, HubIsFree
  <1>5. CASE EvictionDone
    BY <1>5, UsersFrame DEF EvictionDone, HubIsFree
  <1>6. CASE Distribute
    BY <1>6, UsersFrame DEF Distribute, AtSelect, HubIsFree
  <1>7. CASE Shutdown
    BY <1>7, UsersFrame DEF Shutdown, HubIsFree
  <1>8. CASE RelayEvent
    BY <1>8, UsersFrame DEF RelayEvent, HubIsFree
  <1>9. CASE UNCHANGED vars
    BY <1>9, UsersFrame DEF vars, HubIsFree
  <1>10. ASSUME NEW c \in Clients, Upgrade(c) PROVE Good'
    BY <1>t, <1>10, UsersFrame DEF Upgrade, HubIsFree
  <1>11. ASSUME NEW c \in Clients, PeerLeaves(c) PROVE Good'
    BY <1>11, UsersFrame DEF PeerLeaves, HubIsFree
  <1>12. ASSUME NEW c \in Clients, NEW n \in Names, Identify(c, n) PROVE Good'
    <2>1. NoGhostUser'
      BY <1>t, <1>12 DEF Identify, NoGhostUser
    <2>2. notifier'[c] = "read" /\ notifier'[HubLoop] = notifier[HubLoop]
      BY <1>t, <1>12 DEF Identify
    <2>3. LastSnapshotCurrent'
      BY <1>t, <2>2 DEF LastSnapshotCurrent
    <2> QED
      BY <1>12, <2>1, <2>2, <2>3 DEF Identify, HubIsFree
  <1>13. ASSUME NEW c \in Clients, ReadFails(c) PROVE Good'
    <2>1. LastSnapshotCurrent'
      BY <1>t, <1>13, RemovalIsRead DEF ReadFails
    <2>2. NoGhostUser'
      BY <1>t, <1>13 DEF ReadFails, RemoveUsername, NoGhostUser
    <2>3. notifier'[HubLoop] = notifier[HubLoop] /\ hubAt' = hubAt
      BY <1>t, <1>13 DEF ReadFails, RemoveUsername
    <2> QED
      BY <2>1, <2>2, <2>3 DEF HubIsFree
  <1>14. ASSUME NEW c \in Clients, ReaderCloses(c) PROVE Good'
    BY <1>t, <1>14, UsersFrame DEF ReaderCloses, HubIsFree
  <1>15. ASSUME NEW c \in Clients, Write(c) PROVE Good'
    BY <1>15, UsersFrame DEF Write, HubIsFree
  <1>16. ASSUME NEW c \in Clients, WriterSeesClose(c) PROVE Good'
    BY <1>16, UsersFrame DEF WriterSeesClose, HubIsFree
  <1>17. ASSUME NEW c \in Clients, PingFails(c) PROVE Good'
    BY <1>17, UsersFrame DEF PingFails, HubIsFree
  <1>18. ASSUME NEW c \in Clients, SelectRegister(c) PROVE Good'
    BY <1>t, <1>18, UsersFrame DEF SelectRegister, AtSelect, HubIsFree
  <1>19. ASSUME NEW c \in Clients, SelectUnregister(c) PROVE Good'
    BY <1>t, <1>19, UsersFrame DEF SelectUnregister, AtSelect, HubIsFree
  <1>20. ASSUME NEW g \in Goroutines, ReadSnapshot(g) PROVE Good'
    <2>1. NoGhostUser'
      BY <1>20 DEF ReadSnapshot, NoGhostUser
    <2>2. LastSnapshotCurrent'
      BY <1>20 DEF ReadSnapshot, LastSnapshotCurrent, GetTerminalUsers
    <2>3. HubIsFree'
      BY <1>t, <1>20 DEF ReadSnapshot, HubIsFree
    <2> QED
      BY <2>1, <2>2, <2>3
  <1>21. ASSUME NEW g \in Goroutines, EnqueueSnapshot(g) PROVE Good'
    <2>1. NoGhostUser'
      BY <1>21 DEF EnqueueSnapshot, NoGhostUser
    <2>2. \A h \in Goroutines : notifier'[h] # "read" <=> notifier[h] # "read"
      BY <1>t, <1>21 DEF EnqueueSnapshot
    <2>3. LastSnapshotCurrent'
      BY <1>21, <2>2 DEF EnqueueSnapshot, LastSnapshotCurrent, GetTerminalUsers
    <2>4. HubIsFree'
      BY <1>t, <1>21 DEF EnqueueSnapshot, HubIsFree
    <2> QED
      BY <2>1, <2>3, <2>4
  <1> QED
    BY <1>1, <1>2, <1>3, <1>4, <1>5, <1>6, <1>7, <1>8, <1>9, <1>10, <1>11,
       <1>12, <1>13, <1>14, <1>15, <1>16, <1>17, <1>18, <1>19, <1>20, <1>21,
       NextCases

\* A reader that has left its loop shows no user online, and every change of
\* the users online is followed by a new reading of them.
THEOREM UsersCorrect == Spec => [](NoGhostUser /\ LastSnapshotCurrent)
  <1>1. Init => TypeOK /\ HubIsFree /\ NoGhostUser /\ LastSnapshotCurrent
    BY TypeInit, UsersInit DEF Init, HubIsFree
  <1>2. TypeOK /\ (HubIsFree /\ NoGhostUser /\ LastSnapshotCurrent) /\ [Next]_vars
            => (TypeOK /\ HubIsFree /\ NoGhostUser /\ LastSnapshotCurrent)'
    BY TypeNext, UsersNext
  <1> QED
    BY <1>1, <1>2, PTL DEF Spec

\* The list of users a goroutine read last, for broadcastTerminalUsers, is the
\* current one unless a goroutine is about to read it again.
THEOREM LastSnapshotCorrect == Spec => []LastSnapshotCurrent
  BY UsersCorrect, PTL

\* Whichever way a client left, once the hub has handled its unregistration
\* nothing of it is left in the hub and its writer has been told to stop.
THEOREM LeavesNoTraceCorrect == Spec => []LeavesNoTrace
  <1>1. TypeOK /\ Lifecycle /\ NoGhostUser => LeavesNoTrace
    <2> SUFFICES ASSUME TypeOK, Lifecycle, NoGhostUser, NEW c \in Clients,
                        reader[c] \in {"closing", "done"}, c \notin pending
                 PROVE  c \notin clients /\ c \in sendClosed /\ usernames[c] = NoName
      BY DEF LeavesNoTrace
    <2>1. StageOf(c)
      BY DEF Lifecycle
    <2>2. joined[c] # -1 /\ c \notin clients
      BY <2>1 DEF StageOf
    <2>3. joined[c] >= 0
      BY <2>2 DEF TypeOK
    <2> QED
      BY <2>1, <2>2, <2>3 DEF StageOf, NoGhostUser
  <1> QED
    BY <1>1, TypeCorrect, LifecycleCorrect, UsersCorrect, PTL

-----------------------------------------------------------------------------
(* The count of clients.                                                   *)

\* Evicted clients that have unregistered: those were counted down twice.
CountedTwice ==
    {c \in closedSend : /\ reader[c] \in {"closing", "done"}
                        /\ ~(hubAt = "unregister" /\ c \in pending)}

\* Until Shutdown a client is forgotten by an eviction or by its unregistration
\* only, and an eviction marks it.
Marked(c) ==
    (joined[c] >= 0 /\ c \notin clients) =>
        \/ c \in closedSend
        \/ reader[c] \in {"closing", "done"} /\ c \notin pending

Leaving ==
    /\ IsFiniteSet(clients) /\ IsFiniteSet(closedSend)
    /\ hubAt = "unregister" => \A c \in pending : reader[c] \in {"closing", "done"}

Counted ==
    /\ clientCount = Cardinality(clients) - Cardinality(CountedTwice)
    /\ \A c \in Clients : Marked(c)

\* CountDrifts alone is not inductive: it says nothing of a client that was evicted
\* and has not unregistered yet.
CountInv == Leaving /\ (down \/ Counted)

LEMMA CountInit == Init => CountInv
  <1> SUFFICES ASSUME Init PROVE CountInv
    OBVIOUS
  <1>1. /\ clients = {} /\ CountedTwice = {} /\ closedSend = {} /\ clientCount = 0
        /\ \A c \in Clients : joined[c] = -1
        /\ hubAt = "select"
    BY DEF Init, CountedTwice
  <1>2. Cardinality({}) = 0 /\ IsFiniteSet({})
    BY FS_EmptySet
  <1>3. Leaving
    BY <1>1, <1>2 DEF Leaving
  <1>4. Counted
    BY <1>1, <1>2 DEF Counted, Marked
  <1> QED
    BY <1>3, <1>4 DEF CountInv

\* Steps that leave alone everything the count depends on.
LEMMA CountFrame ==
    ASSUME UNCHANGED <<clients, closedSend, clientCount, joined, reader, hubAt, pending>>
    PROVE  /\ Leaving => Leaving'
           /\ Counted => Counted'
  BY DEF Leaving, Counted, CountedTwice, Marked

LEMMA CountRegister ==
    ASSUME TypeOK, Lifecycle, Leaving, NEW c \in Clients, RegisterClient(c)
    PROVE  Leaving' /\ (Counted => Counted')
  <1>t. /\ clients \subseteq Clients /\ joined \in [Clients -> Nat \cup {-1}]
        /\ clientCount \in Int /\ hubAt = "register" /\ hubAt' = "select"
        /\ clients' = clients \cup {c} /\ clientCount' = clientCount + 1
        /\ UNCHANGED <<closedSend, reader>> /\ pending' = {}
        /\ \A d \in Clients \ {c} : joined'[d] = joined[d]
        /\ pending = {c} /\ StageOf(c)
        /\ IsFiniteSet(clients) /\ IsFiniteSet(closedSend)
    BY DEF TypeOK, RegisterClient, Lifecycle, Leaving
  <1>1. c \notin clients
    BY <1>t DEF StageOf
  <1>2. /\ IsFiniteSet(clients') /\ Cardinality(clients') = Cardinality(clients) + 1
        /\ Cardinality(clients) \in Nat
    BY <1>t, <1>1, FS_AddElement, FS_CardinalityType
  <1>3. CountedTwice' = CountedTwice /\ CountedTwice \subseteq closedSend
    BY <1>t DEF CountedTwice
  <1>4. Cardinality(CountedTwice) \in Nat
    BY <1>t, <1>3, FS_Subset, FS_CardinalityType
  <1>5. ASSUME Counted
        PROVE  Counted'
    <2>1. \A d \in Clients : Marked(d)'
      BY <1>t, <1>5 DEF Counted, Marked
    <2>2. clientCount' = Cardinality(clients') - Cardinality(CountedTwice')
      BY <1>t, <1>2, <1>3, <1>4, <1>5 DEF Counted
    <2> QED
      BY <2>1, <2>2 DEF Counted
  <1>6. Leaving'
    BY <1>t, <1>2 DEF Leaving
  <1> QED
    BY <1>5, <1>6

\* The unregister case counts down a client that is no longer registered, too.
LEMMA CountUnregister ==
    ASSUME TypeOK, Lifecycle, Leaving, NEW c \in Clients, UnregisterClient(c)
    PROVE  Leaving' /\ (Counted => Counted')
  <1>t. /\ clients \subseteq Clients /\ joined \in [Clients -> Nat \cup {-1}]
        /\ clientCount \in Int /\ hubAt = "unregister" /\ hubAt' = "select"
        /\ clientCount' = clientCount - 1
        /\ UNCHANGED <<reader, joined>> /\ pending' = {}
        /\ pending = {c} /\ StageOf(c) /\ reader[c] \in {"closing", "done"}
        /\ closedSend \subseteq sendClosed
        /\ IsFiniteSet(clients) /\ IsFiniteSet(closedSend)
    BY DEF TypeOK, UnregisterClient, Lifecycle, Leaving
  <1>f. CountedTwice \subseteq closedSend /\ Cardinality(CountedTwice) \in Nat
        /\ Cardinality(clients) \in Nat /\ IsFiniteSet(CountedTwice)
    <2>1. CountedTwice \subseteq closedSend
      BY DEF CountedTwice
    <2> QED
      BY <1>t, <2>1, FS_Subset, FS_CardinalityType
  <1>1. joined[c] >= 0
    BY <1>t DEF StageOf
  <1>2. CASE c \in clients
    <2>1. c \notin closedSend
      BY <1>t, <1>2 DEF StageOf
    <2>2. clients' = clients \ {c} /\ closedSend' = closedSend
      BY <1>2, <2>1 DEF UnregisterClient, DropClient
    <2>3. IsFiniteSet(clients') /\ Cardinality(clients') = Cardinality(clients) - 1
      BY <1>t, <1>2, <2>2, FS_RemoveElement
    <2>4. CountedTwice' = CountedTwice
      BY <1>t, <2>1, <2>2 DEF CountedTwice
    <2>5. ASSUME Counted
          PROVE  Counted'
      <3>1. \A d \in Clients : Marked(d)'
        BY <1>t, <2>2, <2>5 DEF Counted, Marked
      <3>2. clientCount' = Cardinality(clients') - Cardinality(CountedTwice')
        BY <1>t, <1>f, <2>3, <2>4, <2>5 DEF Counted
      <3> QED
        BY <3>1, <3>2 DEF Counted
    <2>6. Leaving'
      BY <1>t, <2>2, <2>3 DEF Leaving
    <2> QED
      BY <2>5, <2>6
  <1>3. CASE c \notin clients
    <2>1. clients' = clients /\ closedSend' = closedSend
      BY <1>3 DEF UnregisterClient, DropClient
    <2>2. ASSUME Counted
          PROVE  Counted'
      <3>1. c \in closedSend
        BY <1>t, <1>1, <1>3, <2>2 DEF Counted, Marked
      <3>2. CountedTwice' = CountedTwice \cup {c} /\ c \notin CountedTwice
        BY <1>t, <2>1, <3>1 DEF CountedTwice
      <3>3. Cardinality(CountedTwice') = Cardinality(CountedTwice) + 1
        BY <1>f, <3>2, FS_AddElement
      <3>4. \A d \in Clients : Marked(d)'
        BY <1>t, <2>1, <2>2 DEF Counted, Marked
      <3>5. clientCount' = Cardinality(clients') - Cardinality(CountedTwice')
        BY <1>t, <1>f, <2>1, <2>2, <3>3 DEF Counted
      <3> QED
        BY <3>4, <3>5 DEF Counted
    <2>3. Leaving'
      BY <1>t, <2>1 DEF Leaving
    <2> QED
      BY <2>2, <2>3
  <1> QED
    BY <1>2, <1>3

\* The eviction counts down the client it forgets, and marks it.
LEMMA CountEvict ==
    ASSUME TypeOK, Lifecycle, Leaving, NEW c \in Clients, Evict(c)
    PROVE  Leaving' /\ (Counted => Counted')
  <1>t. /\ clients \subseteq Clients /\ joined \in [Clients -> Nat \cup {-1}]
        /\ clientCount \in Int /\ hubAt = "evict" /\ hubAt' = "evict"
        /\ UNCHANGED <<reader, joined>> /\ pending' = pending \ {c}
        /\ c \in pending /\ StageOf(c)
        /\ IsFiniteSet(clients) /\ IsFiniteSet(closedSend)
    BY DEF TypeOK, Evict, Lifecycle, Leaving
  <1>f. CountedTwice \subseteq closedSend /\ Cardinality(CountedTwice) \in Nat
        /\ Cardinality(clients) \in Nat
    <2>1. CountedTwice \subseteq closedSend
      BY DEF CountedTwice
    <2> QED
      BY <1>t, <2>1, FS_Subset, FS_CardinalityType
  <1>1. reader[c] \notin {"closing", "done"}
    BY <1>t DEF StageOf
  <1>2. CASE c \in clients
    <2>1. /\ clients' = clients \ {c} /\ closedSend' = closedSend \cup {c}
          /\ clientCount' = clientCount - 1
      BY <1>2 DEF Evict, StillRegistered
    <2>2. IsFiniteSet(clients') /\ Cardinality(clients') = Cardinality(clients) - 1
      BY <1>t, <1>2, <2>1, FS_RemoveElement
    <2>3. CountedTwice' = CountedTwice
      BY <1>t, <1>1, <2>1 DEF CountedTwice
    <2>4. ASSUME Counted
          PROVE  Counted'
      <3>1. \A d \in Clients : Marked(d)'
        BY <1>t, <2>1, <2>4 DEF Counted, Marked
      <3>2. clientCount' = Cardinality(clients') - Cardinality(CountedTwice')
        BY <1>t, <1>f, <2>1, <2>2, <2>3, <2>4 DEF Counted
      <3> QED
        BY <3>1, <3>2 DEF Counted
    <2>5. IsFiniteSet(closedSend')
      BY <1>t, <2>1, FS_AddElement
    <2>6. Leaving'
      BY <1>t, <2>2, <2>5 DEF Leaving
    <2> QED
      BY <2>4, <2>6
  <1>3. CASE c \notin clients
    <2>1. UNCHANGED <<clients, closedSend, clientCount>>
      BY <1>3 DEF Evict, StillRegistered
    <2>2. CountedTwice' = CountedTwice
      BY <1>t, <2>1 DEF CountedTwice
    <2>3. Leaving' /\ (Counted => Counted')
      BY <1>t, <2>1, <2>2 DEF Leaving, Counted, Marked
    <2> QED
      BY <2>3
  <1> QED
    BY <1>2, <1>3

\* The other steps forget no client and register none.
LEMMA CountOthers ==
    ASSUME TypeOK, Lifecycle, Leaving,
           UNCHANGED <<clients, closedSend, clientCount, joined>>,
           \A c \in Clients : (reader[c] \in {"closing", "done"} <=>
                               reader'[c] \in {"closing", "done"}),
           pending' = pending \/ (hubAt' \in {"register", "slow", "select"}
                                  /\ pending = {}
                                  /\ \A c \in pending' : c \in clients \/ ~(joined[c] >= 0)),
           hubAt = "unregister" <=> hubAt' = "unregister"
    PROVE  Leaving' /\ (Counted => Counted')
  <1>1. closedSend \subseteq Clients /\ pending \subseteq Clients
    BY DEF TypeOK
  <1>2. hubAt' = "unregister" => pending' = pending
    OBVIOUS
  <1>3. CountedTwice' = CountedTwice
    BY <1>1, <1>2 DEF CountedTwice
  <1>4. Leaving'
    BY <1>1, <1>2 DEF Leaving
  <1>5. ASSUME Counted, NEW c \in Clients
        PROVE  Marked(c)'
    BY <1>5 DEF Counted, Marked
  <1> QED
    BY <1>3, <1>4, <1>5 DEF Counted

LEMMA CountNext == TypeOK /\ Lifecycle /\ CountInv /\ [Next]_vars => CountInv'
  <1> SUFFICES ASSUME TypeOK, Lifecycle, Leaving, down \/ Counted, [Next]_vars
               PROVE  Leaving' /\ (down' \/ Counted')
    BY DEF CountInv
  <1> DEFINE Kept == Leaving' /\ (Counted => Counted')
  <1>t. /\ reader \in [Clients -> {"absent", "registering", "reading",
                                  "leaving", "closing", "done"}]
        /\ joined \in [Clients -> Nat \cup {-1}] /\ closedSend \subseteq Clients
        /\ hubAt \in {"select", "register", "unregister", "slow", "evict"}
    BY DEF TypeOK
  <1>1. ASSUME NEW c \in Clients, RegisterClient(c) PROVE Kept
    BY <1>1, CountRegister
  <1>2. ASSUME NEW c \in Clients, UnregisterClient(c) PROVE Kept
    BY <1>2, CountUnregister
  <1>3. ASSUME NEW c \in Clients, Evict(c) PROVE Kept
    BY <1>3, CountEvict
  <1>4. ASSUME LockToEvict PROVE Kept
    BY <1>4, CountOthers DEF LockToEvict
  <1>5. ASSUME EvictionDone PROVE Kept
    BY <1>5, CountOthers DEF EvictionDone
  <1>6. ASSUME Distribute PROVE Kept
    <2>1. pending = {} /\ \A c \in pending' : c \in clients
      BY <1>6 DEF Distribute, AtSelect, SlowClients, Lifecycle
    <2> QED
      BY <1>6, <2>1, CountOthers DEF Distribute, AtSelect
  <1>7. CASE Shutdown
    <2>1. down'
      BY <1>7, Zenon DEF Shutdown
    <2>2. Leaving'
      BY <1>7, FS_EmptySet DEF Shutdown, Leaving
    <2> QED
      BY <2>1, <2>2, Zenon
  <1>8. ASSUME RelayEvent PROVE Kept
    BY <1>8, CountFrame DEF RelayEvent
  <1>9. ASSUME UNCHANGED vars PROVE Kept
    BY <1>9, CountFrame DEF vars
  <1>10. ASSUME NEW c \in Clients, Upgrade(c) PROVE Kept
    BY <1>t, <1>10, CountOthers DEF Upgrade
  <1>11. ASSUME NEW c \in Clients, PeerLeaves(c) PROVE Kept
    BY <1>11, CountFrame DEF PeerLeaves
  <1>12. ASSUME NEW c \in Clients, NEW n \in Names, Identify(c, n) PROVE Kept
    BY <1>12, CountFrame DEF Identify
  <1>13. ASSUME NEW c \in Clients, ReadFails(c) PROVE Kept
    BY <1>t, <1>13, CountOthers DEF ReadFails
  <1>14. ASSUME NEW c \in Clients, ReaderCloses(c) PROVE Kept
    BY <1>t, <1>14, CountOthers DEF ReaderCloses
  <1>15. ASSUME NEW c \in Clients, Write(c) PROVE Kept
    BY <1>15, CountFrame DEF Write
  <1>16. ASSUME NEW c \in Clients, WriterSeesClose(c) PROVE Kept
    BY <1>16, CountFrame DEF WriterSeesClose
  <1>17. ASSUME NEW c \in Clients, PingFails(c) PROVE Kept
    BY <1>17, CountFrame DEF PingFails
  <1>18. ASSUME NEW c \in Clients, SelectRegister(c) PROVE Kept
    <2>1. pending = {} /\ joined[c] = -1
      BY <1>18 DEF SelectRegister, AtSelect, Lifecycle, StageOf
    <2> QED
      BY <1>t, <1>18, <2>1, CountOthers DEF SelectRegister, AtSelect
  <1>19. ASSUME NEW c \in Clients, SelectUnregister(c) PROVE Kept
    <2>1. /\ pending = {} /\ pending' = {c} /\ hubAt = "select" /\ hubAt' = "unregister"
          /\ reader[c] = "leaving" /\ reader'[c] = "closing"
          /\ \A d \in Clients \ {c} : reader'[d] = reader[d]
          /\ UNCHANGED <<clients, closedSend, clientCount, joined>>
      BY <1>t, <1>19 DEF SelectUnregister, AtSelect, Lifecycle
    <2>2. CountedTwice' = CountedTwice
      BY <1>t, <2>1 DEF CountedTwice
    <2>3. Leaving'
      BY <2>1 DEF Leaving
    <2>4. ASSUME Counted, NEW d \in Clients
          PROVE  Marked(d)'
      BY <2>1, <2>4 DEF Counted, Marked
    <2> QED
      BY <2>1, <2>2, <2>3, <2>4 DEF Counted
  <1>20. ASSUME NEW g \in Goroutines, ReadSnapshot(g) PROVE Kept
    BY <1>20, CountFrame DEF ReadSnapshot
  <1>21. ASSUME NEW g \in Goroutines, EnqueueSnapshot(g) PROVE Kept
    BY <1>21, CountFrame DEF EnqueueSnapshot
  <1>22. Shutdown \/ down' = down
    BY NextCases, Zenon
    DEF RegisterClient, UnregisterClient, Evict, Upgrade, PeerLeaves, Identify,
        ReadFails, ReaderCloses, Write, WriterSeesClose, PingFails, SelectRegister,
        SelectUnregister, ReadSnapshot, EnqueueSnapshot, LockToEvict, EvictionDone,
        Distribute, RelayEvent, vars
  <1> HIDE DEF Kept
  <1>23. Shutdown \/ Kept
    BY <1>1, <1>2, <1>3, <1>4, <1>5, <1>6, <1>8, <1>9, <1>10, <1>11,
       <1>12, <1>13, <1>14, <1>15, <1>16, <1>17, <1>18, <1>19, <1>20, <1>21,
       NextCases
  <1>24. CASE ~Shutdown
    BY <1>22, <1>23, <1>24, Zenon DEF Kept
  <1> QED
    BY <1>7, <1>24

\* How far the "total" of Run and ClientCount is off, for any number of clients: by
\* one for each evicted client that has unregistered since (hub.go 61 and 83).
THEOREM CountDriftsCorrect == Spec => []CountDrifts
  <1>1. Init => TypeOK /\ Lifecycle /\ CountInv
    BY TypeInit, LifecycleInit, CountInit
  <1>2. TypeOK /\ Lifecycle /\ CountInv /\ [Next]_vars => (TypeOK /\ Lifecycle /\ CountInv)'
    BY TypeNext, LifecycleNext, CountNext
  <1>3. CountInv => CountDrifts
    <2> SUFFICES ASSUME CountInv, AtSelect, ~down PROVE
             clientCount = Cardinality(clients)
                 - Cardinality({c \in closedSend : reader[c] \in {"closing", "done"}})
      BY DEF CountDrifts
    <2>1. Counted
      BY Zenon DEF CountInv
    <2>2. CountedTwice = {c \in closedSend : reader[c] \in {"closing", "done"}}
      BY DEF CountedTwice, AtSelect
    <2> QED
      BY <2>1, <2>2 DEF Counted
  <1> QED
    BY <1>1, <1>2, <1>3, PTL DEF Spec

-----------------------------------------------------------------------------
(* The hub implements the abstract feed.                                   *)

\* Every step of the hub is a step of the feed or changes none of its variables.
LEMMA FeedStep ==
    TypeOK /\ Lifecycle /\ GapFree /\ [Next]_vars => [F!FeedNext]_(F!feedVars)
  <1> SUFFICES ASSUME TypeOK, Lifecycle, GapFree, [Next]_vars
               PROVE  F!FeedNext \/ UNCHANGED <<log, joined, delivered>>
    BY DEF F!feedVars
  <1>1. ASSUME NEW c \in Clients, RegisterClient(c) PROVE F!Join(c)
    BY <1>1 DEF RegisterClient, F!Join, Lifecycle, StageOf
  <1>2. CASE Distribute
    <2>1. Head(broadcast) \in Message
      BY <1>2 DEF Distribute, TypeOK
    <2> QED
      BY <1>2, <2>1 DEF Distribute, F!FeedNext, F!Publish
  <1>3. ASSUME NEW c \in Clients, Write(c), delivered' # delivered
        PROVE  F!Deliver(c)
    <2>1. /\ delivered' = [delivered EXCEPT ![c] = Append(@, Head(send[c]))]
          /\ writer[c] = "writing" /\ send[c] # <<>>
          /\ UNCHANGED <<log, joined>>
      BY <1>3 DEF Write
    <2>2. joined[c] \in Nat
      BY <2>1 DEF TypeOK, Lifecycle, StageOf
    <2>3. /\ send[c] \in Seq(Message) /\ Head(send[c]) = send[c][1]
          /\ Len(send[c]) \in Nat /\ Len(send[c]) >= 1
          /\ Len(delivered[c]) \in Nat /\ Len(log) \in Nat
      BY <2>1 DEF TypeOK
    <2>4. /\ send[c][1] = log[joined[c] + Len(delivered[c]) + 1]
          /\ joined[c] + Len(delivered[c]) + Len(send[c]) <= Len(log)
      BY <2>1, <2>2, <2>3 DEF GapFree, InOrder
    <2>5. joined[c] >= 0 /\ joined[c] + Len(delivered[c]) + 1 <= Len(log)
      BY <2>2, <2>3, <2>4
    <2> QED
      BY <2>1, <2>3, <2>4, <2>5 DEF F!Deliver, F!NextFor
  <1>4. \/ \E c \in Clients : RegisterClient(c) \/ Write(c)
        \/ Distribute
        \/ UNCHANGED <<log, joined, delivered>>
    BY NextCases
    DEF UnregisterClient, Evict, Upgrade, PeerLeaves, Identify, ReadFails,
        ReaderCloses, WriterSeesClose, PingFails, SelectRegister,
        SelectUnregister, ReadSnapshot, EnqueueSnapshot, LockToEvict,
        EvictionDone, Shutdown, RelayEvent, vars
  <1>5. ASSUME NEW c \in Clients, Write(c), delivered' = delivered
        PROVE  UNCHANGED <<log, joined, delivered>>
    BY <1>5 DEF Write
  <1> QED
    BY <1>1, <1>2, <1>3, <1>4, <1>5 DEF F!FeedNext

\* Each terminal sees the published messages in order and without a gap from
\* the moment it joined: the hub implements Feed.
THEOREM FeedImplemented == Spec => ImplementsFeed
  <1>1. Init => F!FeedInit
    BY DEF Init, F!FeedInit
  <1>2. TypeOK /\ Lifecycle /\ GapFree /\ [Next]_vars => [F!FeedNext]_(F!feedVars)
    BY FeedStep
  <1> QED
    BY <1>1, <1>2, TypeCorrect, LifecycleCorrect, GapFreeCorrect, PTL
    DEF Spec, ImplementsFeed, F!FeedSpec
=============================================================================
