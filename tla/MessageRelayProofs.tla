------------------------- MODULE MessageRelayProofs -------------------------
(***************************************************************************)
(* Theorems about MessageRelay, for any messages and bounds, whatever      *)
(* order their handlers run in and whatever fails; and about History, the  *)
(* terminal that reads the table in pages meanwhile.                       *)
(***************************************************************************)
EXTENDS History, FiniteSetTheorems, TLAPS

Stages == {"announce", "store"}
Own == Posts \cup Files

\* The handlers there can be: of version c of m, of m's deletion, of a link of m.
Event(m, c, a) ==
    [op |-> IF c = 1 THEN "create" ELSE "update", id |-> m, content |-> c, at |-> a]
Deletion(m, a) == [op |-> "delete", id |-> m, content |-> Absent, at |-> a]
Link(m, a) == [op |-> "update", id |-> m, content |-> Blank, at |-> a]

\* A handler is about something that has happened at Discord, and only people's
\* messages have handlers for their texts.
IsHandler(h, a) ==
    \/ h.id \in Humans /\ \E c \in 1..version[h.id] : h = Event(h.id, c, a)
    \/ h.id \in deleted /\ h = Deletion(h.id, a)
    \/ h.id \in Messages /\ h = Link(h.id, a)

HandlersReal == \A h \in handlers : \E a \in Stages : IsHandler(h, a)

\* An event has one handler, and what is deleted was there.
HandledOnce(m) ==
    /\ \A c \in 1..MaxVersion :
           ~(Event(m, c, "announce") \in handlers /\ Event(m, c, "store") \in handlers)
    /\ ~(Deletion(m, "announce") \in handlers /\ Deletion(m, "store") \in handlers)
    /\ m \in deleted => version[m] > 0

\* Where a request is says whether its message is at Discord.
RequestReal(m) ==
    m \in Own =>
        /\ request[m] = "idle" => version[m] = 0
        /\ request[m] \in {"sent", "recorded", "done"} => version[m] = 1
        /\ request[m] = "failed" => version[m] = 0 \/ m \in hit
        /\ request[m] = "recorded" => m \in Posts

\* A creation that was not announced has someone who will announce it.
CreationTold(m) ==
    /\ created[m] <= 1
    /\ m \notin Humans \cup Posts => created[m] = 0
    /\ m \in Humans =>
        /\ version[m] = 0 \/ Event(m, 1, "announce") \in handlers => created[m] = 0
        /\ m \notin hit /\ version[m] > 0 =>
               created[m] = 1 \/ Event(m, 1, "announce") \in handlers
    /\ m \in Posts =>
        /\ request[m] \in {"idle", "sent", "recorded"} => created[m] = 0
        /\ request[m] = "done" => created[m] = 1 \/ m \in hit

\* Version c of m is still to be dealt with by a handler at one of the stages W, or
\* by the request that posts m, at one of the places R.
Pending(m, c, W, R) ==
    \/ \E a \in W : Event(m, c, a) \in handlers
    \/ m \in Own /\ request[m] \in R

\* The deletion of m has been dealt with.
Gone(m, W) == m \in deleted /\ \A a \in W : Deletion(m, a) \notin handlers

\* The versions up to k have been dealt with, no others, and no deletion before
\* the last of them.
Reached(m, k, W, R) ==
    /\ k \in 0..version[m]
    /\ \A c \in 1..version[m] : Pending(m, c, W, R) <=> c > k
    /\ Gone(m, W) => k = version[m]

\* As long as nothing overtook anything, the stream has told the last version
\* that was announced, and the table has the last that was stored: so the
\* versions were dealt with in their order, and once all are Discord's is there.
StreamOrdered(m) ==
    (m \in Humans \cup Posts /\ m \notin hit /\ "stream" \notin crossed[m]) =>
        \E k \in Nat :
            /\ Reached(m, k, {"announce"}, {"sent", "recorded"})
            /\ told[m] \in {Blank, IF Gone(m, {"announce"}) THEN Absent ELSE k}

TableOrdered(m) ==
    /\ (m \in Humans \cup Own /\ m \notin hit /\ "table" \notin crossed[m]) =>
        \E k \in Nat :
            /\ Reached(m, k, Stages, {"sent"})
            /\ stored[m] = IF Gone(m, Stages) THEN Absent ELSE k
    /\ m \in Others => stored[m] = Absent

\* None of the three properties is inductive: what is stored or told when nothing
\* is under way follows from what was when something still was.
MessageInv(m) == /\ HandledOnce(m) /\ RequestReal(m) /\ CreationTold(m)
                 /\ StreamOrdered(m) /\ TableOrdered(m)

IInv == RelayTypeOK /\ HandlersReal /\ \A m \in Messages : MessageInv(m)

-----------------------------------------------------------------------------
(* Handlers are told apart by message, version and stage.                  *)

LEMMA KindsDisjoint ==
    /\ Messages = Humans \cup Own \cup Others
    /\ \A m \in Humans : m \notin Own /\ m \notin Others /\ m \notin Posts
    /\ \A m \in Own : m \notin Humans /\ m \notin Others
    /\ \A m \in Others : m \notin Humans /\ m \notin Own /\ m \notin Posts
    /\ Posts \subseteq Own /\ MaxVersion \in Nat \ {0}
    /\ MaxTime \in Nat /\ MaxMishaps \in Nat /\ MaxChanges \in Nat
<1>1. Messages = Humans \cup Own \cup Others /\ Posts \subseteq Own
  BY DEF Messages, Own
<1>2. /\ \A m \in Humans : m \notin Own /\ m \notin Others /\ m \notin Posts
      /\ \A m \in Own : m \notin Humans /\ m \notin Others
      /\ \A m \in Others : m \notin Humans /\ m \notin Own /\ m \notin Posts
  BY RelayAssumption DEF Own
<1> QED
  BY <1>1, <1>2, RelayAssumption

LEMMA EventFields ==
  ASSUME NEW m, NEW c, NEW a
  PROVE  /\ Event(m, c, a).id = m /\ Event(m, c, a).content = c
         /\ Event(m, c, a).at = a /\ Event(m, c, a).op # "delete"
         /\ Event(m, c, a).op = "create" <=> c = 1
         /\ Event(m, c, a).op = "update" <=> c # 1
         /\ [Event(m, c, a) EXCEPT !.at = "store"] = Event(m, c, "store")
  BY DEF Event

LEMMA DeletionFields ==
  ASSUME NEW m, NEW a
  PROVE  /\ Deletion(m, a).id = m /\ Deletion(m, a).content = 0
         /\ Deletion(m, a).at = a /\ Deletion(m, a).op = "delete"
         /\ [Deletion(m, a) EXCEPT !.at = "store"] = Deletion(m, "store")
         /\ Link(m, a).id = m /\ Link(m, a).content = -1
         /\ Link(m, a).at = a /\ Link(m, a).op = "update"
         /\ [Link(m, a) EXCEPT !.at = "store"] = Link(m, "store")
  BY DEF Deletion, Link, Absent, Blank

LEMMA EventsDiffer ==
  ASSUME NEW m, NEW n, NEW a, NEW b, NEW c \in Nat, NEW d \in Nat
  PROVE  Event(m, c, a) = Event(n, d, b) => m = n /\ c = d /\ a = b
  BY EventFields

LEMMA KindsDiffer ==
  ASSUME NEW m, NEW n, NEW a, NEW b, NEW c \in Nat
  PROVE  /\ Event(m, c, a) # Deletion(n, b)
         /\ Event(m, c, a) # Link(n, b)
  BY EventFields, DeletionFields

LEMMA DeletionsDiffer ==
  ASSUME NEW m, NEW n, NEW a, NEW b
  PROVE  /\ Deletion(m, a) = Deletion(n, b) => m = n /\ a = b
         /\ Deletion(m, a) # Link(n, b)
  BY EventFields, DeletionFields

LEMMA HandlerTyped ==
  ASSUME NEW m \in Messages, NEW a \in Stages, MaxVersion \in Nat \ {0}
  PROVE  /\ \A c \in 1..MaxVersion : Event(m, c, a) \in Handler
         /\ Deletion(m, a) \in Handler /\ Link(m, a) \in Handler
  BY DEF Handler, Contents, Absent, Blank, Stages, Event, Deletion, Link

-----------------------------------------------------------------------------
(* What happens to one message does not concern the others.                *)

\* Nothing of m changes.
Untouched(m) ==
    /\ version'[m] = version[m] /\ (m \in deleted' <=> m \in deleted)
    /\ m \in Own => request'[m] = request[m]
    /\ \A a \in Stages :
        /\ \A c \in 1..MaxVersion :
               Event(m, c, a) \in handlers' <=> Event(m, c, a) \in handlers
        /\ Deletion(m, a) \in handlers' <=> Deletion(m, a) \in handlers

\* Nothing of what the invariant says of m changes.
Unconcerned(m) ==
    /\ Untouched(m)
    /\ stored'[m] = stored[m] /\ told'[m] = told[m] /\ created'[m] = created[m]
    /\ crossed'[m] = crossed[m] /\ (m \in hit' <=> m \in hit)

LEMMA ReachedKept ==
  ASSUME NEW m, NEW k, NEW W \in SUBSET Stages, NEW R, Untouched(m),
         version[m] \in 0..MaxVersion, MaxVersion \in Nat
  PROVE  /\ Reached(m, k, W, R)' <=> Reached(m, k, W, R)
         /\ Gone(m, W)' <=> Gone(m, W)
<1>1. \A c \in 1..version[m] : c \in 1..MaxVersion
  OBVIOUS
<1>2. Gone(m, W)' <=> Gone(m, W)
  BY DEF Untouched, Gone
<1>3. ASSUME NEW c \in 1..version[m]
      PROVE  Pending(m, c, W, R)' <=> Pending(m, c, W, R)
  BY <1>1 DEF Untouched, Pending
<1>4. version'[m] = version[m]
  BY DEF Untouched
<1> QED
  BY <1>2, <1>3, <1>4 DEF Reached

LEMMA UnconcernedKept ==
  ASSUME NEW m \in Messages, MessageInv(m), Unconcerned(m),
         version[m] \in 0..MaxVersion, MaxVersion \in Nat \ {0}
  PROVE  MessageInv(m)'
<1>t. /\ Untouched(m) /\ version'[m] = version[m]
      /\ stored'[m] = stored[m] /\ told'[m] = told[m] /\ created'[m] = created[m]
      /\ crossed'[m] = crossed[m] /\ (m \in hit' <=> m \in hit)
      /\ m \in deleted' <=> m \in deleted
      /\ m \in Own => request'[m] = request[m]
      /\ Posts \subseteq Own
  BY DEF Unconcerned, Untouched, Own
<1>1. HandledOnce(m)'
  BY <1>t DEF MessageInv, HandledOnce, Untouched, Stages
<1>2. RequestReal(m)'
  BY <1>t DEF MessageInv, RequestReal
<1>3. CreationTold(m)'
  <2>1. Event(m, 1, "announce") \in handlers' <=> Event(m, 1, "announce") \in handlers
    BY <1>t DEF Untouched, Stages
  <2> QED
    BY <1>t, <2>1 DEF MessageInv, CreationTold
<1>4. StreamOrdered(m)'
  <2>1. {"announce"} \in SUBSET Stages
    BY DEF Stages
  <2> QED
    BY <1>t, <2>1, ReachedKept DEF MessageInv, StreamOrdered
<1>5. TableOrdered(m)'
  <2>1. Stages \in SUBSET Stages
    OBVIOUS
  <2> QED
    BY <1>t, <2>1, ReachedKept DEF MessageInv, TableOrdered
<1> QED
  BY <1>1, <1>2, <1>3, <1>4, <1>5 DEF MessageInv

-----------------------------------------------------------------------------
(* What the actions are made of.                                           *)

\* A step that gives at most one new handler, of m, leaves the handlers of other
\* messages as they are.
LEMMA NewHandlerElsewhere ==
  ASSUME NEW m \in Messages, NEW n \in Messages \ {m}, NEW h,
         h.id = m, handlers' \in {handlers, handlers \cup {h}},
         version'[n] = version[n], n \in deleted' <=> n \in deleted,
         n \in Own => request'[n] = request[n]
  PROVE  Untouched(n)
<1>1. \A a : (\A c : Event(n, c, a) # h) /\ Deletion(n, a) # h
  BY EventFields, DeletionFields
<1> QED
  BY <1>1 DEF Untouched

\* Crossing only ever adds, only at h's message, and adds whenever something
\* earlier still waits.
LEMMA CrossingFacts ==
  ASSUME NEW h, NEW place, NEW W, NEW R, h.id \in Messages,
         crossed \in [Messages -> SUBSET {"stream", "table"}],
         Crossing(h, place, W, R)
  PROVE  /\ \A n \in Messages \ {h.id} : crossed'[n] = crossed[n]
         /\ crossed' \in [Messages -> SUBSET ({"stream", "table"} \cup {place})]
         /\ \A p : p # place => (p \in crossed'[h.id] <=> p \in crossed[h.id])
         /\ place \notin crossed'[h.id] =>
                /\ place \notin crossed[h.id]
                /\ \A g \in handlers : ~(Earlier(g, h) /\ g.at \in W)
                /\ h.id \in Own => request[h.id] \notin R
<1> DEFINE overtakes == \/ \E g \in handlers : Earlier(g, h) /\ g.at \in W
                        \/ h.id \in Own /\ request[h.id] \in R
           one == IF overtakes THEN crossed[h.id] \cup {place} ELSE crossed[h.id]
<1>1. crossed' = [crossed EXCEPT ![h.id] = one]
  BY DEF Crossing, Own
<1>2. one \in SUBSET ({"stream", "table"} \cup {place})
  OBVIOUS
<1>3. \A p : p # place => (p \in one <=> p \in crossed[h.id])
  OBVIOUS
<1>4. place \notin one => place \notin crossed[h.id] /\ ~overtakes
  OBVIOUS
<1> HIDE DEF one
<1>5. crossed'[h.id] = one
  BY <1>1
<1> QED
  BY <1>1, <1>2, <1>3, <1>4, <1>5

\* What was there before the texts and before the deletion of a message.
LEMMA EarlierEvents ==
  ASSUME NEW m, NEW a, NEW b
  PROVE  /\ \A c \in Nat, d \in Nat : d < c => Earlier(Event(m, d, b), Event(m, c, a))
         /\ \A d \in Nat : Earlier(Event(m, d, b), Deletion(m, a))
<1>1. \A d \in Nat : d # Blank
  BY DEF Blank
<1> QED
  BY <1>1, EventFields, DeletionFields DEF Earlier

\* A mishap of m, or none, concerns no other message.
LEMMA MishapElsewhere ==
  ASSUME NEW m, NEW n, n # m, NoMishap \/ Mishap(m)
  PROVE  n \in hit' <=> n \in hit
  BY DEF NoMishap, Mishap

LEMMA MishapTyped ==
  ASSUME RelayTypeOK, NEW m \in Messages, NoMishap \/ Mishap(m)
  PROVE  /\ mishaps' \in 0..MaxMishaps /\ hit' \subseteq Messages /\ hit \subseteq hit'
         /\ Mishap(m) => m \in hit'
         /\ NoMishap => hit' = hit
<1> USE KindsDisjoint
<1> QED
  BY DEF RelayTypeOK, NoMishap, Mishap

\* It is enough to look at the message a step is about.
LEMMA InvFromOne ==
  ASSUME IInv, NEW m \in Messages, RelayTypeOK', HandlersReal', MessageInv(m)',
         \A n \in Messages \ {m} : Unconcerned(n)
  PROVE  IInv'
<1> USE KindsDisjoint
<1>1. ASSUME NEW n \in Messages \ {m}
      PROVE  MessageInv(n)'
  BY <1>1, UnconcernedKept DEF IInv, RelayTypeOK
<1> QED
  BY <1>1 DEF IInv

\* Events that have handlers have happened.
LEMMA OnlyReal ==
  ASSUME HandlersReal, NEW m, NEW a
  PROVE  /\ \A c \in Nat : Event(m, c, a) \in handlers => c \in 1..version[m] /\ m \in Humans
         /\ Deletion(m, a) \in handlers => m \in deleted
<1>1. ASSUME NEW c \in Nat, Event(m, c, a) \in handlers
      PROVE  c \in 1..version[m] /\ m \in Humans
  <2>1. PICK b \in Stages : IsHandler(Event(m, c, a), b)
    BY <1>1 DEF HandlersReal
  <2>2. Event(m, c, a).id = m /\ Event(m, c, a).content = c
        /\ Event(m, c, a).op # "delete"
    BY EventFields
  <2>3. Event(m, c, a) # Deletion(m, b) /\ Event(m, c, a) # Link(m, b)
    BY KindsDiffer
  <2>4. PICK d \in 1..version[m] : Event(m, c, a) = Event(m, d, b)
    BY <2>1, <2>2, <2>3 DEF IsHandler
  <2>5. Event(m, d, b).content = d
    BY EventFields
  <2> QED
    BY <2>1, <2>2, <2>3, <2>4, <2>5 DEF IsHandler
<1>2. ASSUME Deletion(m, a) \in handlers
      PROVE  m \in deleted
  <2>1. PICK b \in Stages : IsHandler(Deletion(m, a), b)
    BY <1>2 DEF HandlersReal
  <2>2. Deletion(m, a).id = m /\ Deletion(m, a).op = "delete"
    BY DeletionFields
  <2>3. \A c : Deletion(m, a) # Event(m, c, b)
    BY <2>2, EventFields
  <2>4. Deletion(m, a) # Link(m, b)
    BY DeletionsDiffer
  <2> QED
    BY <2>1, <2>2, <2>3, <2>4 DEF IsHandler
<1> QED
  BY <1>1, <1>2

LEMMA HandlersStayReal ==
  ASSUME RelayTypeOK, RelayTypeOK', HandlersReal, deleted \subseteq deleted',
         \A n \in Humans : version[n] <= version'[n],
         \A h \in handlers' \ handlers : \E a \in Stages : IsHandler(h, a)'
  PROVE  HandlersReal'
<1>1. ASSUME NEW h \in handlers, NEW a \in Stages, IsHandler(h, a)
      PROVE  IsHandler(h, a)'
  <2>1. ASSUME h.id \in Humans
        PROVE  /\ version[h.id] \in Int /\ version'[h.id] \in Int
               /\ version[h.id] <= version'[h.id]
    BY <2>1, KindsDisjoint DEF RelayTypeOK
  <2> QED
    BY <1>1, <2>1 DEF IsHandler
<1> QED
  BY <1>1 DEF HandlersReal

-----------------------------------------------------------------------------
(* What happens at Discord.                                                *)

LEMMA SayKeeps ==
  ASSUME IInv, NEW m \in Messages, Say(m)
  PROVE  IInv'
<1> DEFINE h == Event(m, 1, "announce")
<1> USE KindsDisjoint
<1>t. /\ RelayTypeOK /\ HandlersReal /\ MessageInv(m) /\ version[m] = 0
      /\ m \in Humans \cup Others /\ MaxVersion >= 1
  BY DEF IInv, Say
<1>d. m \notin deleted
  BY <1>t DEF MessageInv, HandledOnce
<1>h. /\ h.id = m /\ h \in Handler
      /\ h = [op |-> "create", id |-> m, content |-> 1, at |-> "announce"]
  BY <1>t, EventFields, HandlerTyped DEF Event, Stages
<1> HIDE DEF h
<1>1. /\ version' = [version EXCEPT ![m] = 1] /\ stamp' = [stamp EXCEPT ![m] = now]
      /\ UNCHANGED <<deleted, stored, told, request, now, changes, created, crossed>>
      /\ m \in Humans => \/ handlers' = handlers \cup {h} /\ NoMishap
                         \/ handlers' = handlers /\ Mishap(m)
      /\ m \in Others => handlers' = handlers /\ NoMishap
  BY <1>h DEF Say, Echo, StartHandler, Heard
<1>2. /\ handlers' \in {handlers, handlers \cup {h}}
      /\ NoMishap \/ Mishap(m)
      /\ m \in Humans /\ m \notin hit' => h \in handlers'
  BY <1>t, <1>1, MishapTyped
<1>3. RelayTypeOK'
  <2>1. version' \in [Messages -> 0..MaxVersion] /\ stamp' \in [Messages -> 0..MaxTime]
    BY <1>t, <1>1 DEF RelayTypeOK
  <2>2. mishaps' \in 0..MaxMishaps /\ hit' \subseteq Messages
    BY <1>t, <1>2, MishapTyped
  <2>3. handlers' \subseteq Handler
    BY <1>t, <1>h, <1>2 DEF RelayTypeOK
  <2> QED
    BY <1>t, <1>1, <2>1, <2>2, <2>3 DEF RelayTypeOK
<1>v. version'[m] = 1 /\ \A n \in Messages \ {m} : version'[n] = version[n]
  BY <1>t, <1>1 DEF RelayTypeOK
<1>4. HandlersReal'
  <2>1. m \in Humans => IsHandler(h, "announce")'
    BY <1>h, <1>v DEF IsHandler, h
  <2>2. \A n \in Humans : version[n] <= version'[n]
    BY <1>t, <1>v DEF RelayTypeOK
  <2> QED
    BY <1>t, <1>1, <1>3, <2>1, <2>2, HandlersStayReal DEF Stages
<1>5. ASSUME NEW n \in Messages \ {m}
      PROVE  Unconcerned(n)
  <2>1. /\ version'[n] = version[n] /\ deleted' = deleted /\ request' = request
        /\ handlers' \in {handlers, handlers \cup {h}} /\ h.id = m
    BY <1>1, <1>2, <1>h, <1>v
  <2>2. Untouched(n)
    BY <2>1, NewHandlerElsewhere
  <2>3. n \in hit' <=> n \in hit
    BY <1>2, MishapElsewhere
  <2> QED
    BY <1>1, <2>2, <2>3 DEF Unconcerned
<1>6. MessageInv(m)'
  <2>0. /\ \A c \in Nat, a \in Stages : Event(m, c, a) \notin handlers
        /\ \A a \in Stages : Deletion(m, a) \notin handlers
    <3>1. ASSUME NEW c \in Nat, NEW a \in Stages, Event(m, c, a) \in handlers
          PROVE  FALSE
      <4>1. c \in 1..version[m]
        BY <1>t, <3>1, OnlyReal
      <4> QED
        BY <1>t, <4>1
    <3>2. ASSUME NEW a \in Stages, Deletion(m, a) \in handlers
          PROVE  FALSE
      BY <1>t, <1>d, <3>2, OnlyReal
    <3> QED
      BY <3>1, <3>2
  <2>1. /\ \A c \in Nat, a \in Stages : Event(m, c, a) \in handlers' => c = 1 /\ a = "announce"
        /\ \A a \in Stages : Deletion(m, a) \notin handlers'
    BY <1>2, <2>0, EventsDiffer, KindsDiffer DEF h
  <2>2. HandledOnce(m)'
    BY <1>d, <1>1, <2>1 DEF HandledOnce, Stages
  <2>3. RequestReal(m)' /\ (m \in Humans \/ m \notin Humans \cup Own)
    BY <1>t DEF RequestReal
  <2>4. CreationTold(m)'
    BY <1>t, <1>1, <1>2, <1>v DEF CreationTold, MessageInv, h
  <2>5. ASSUME m \in Humans, m \notin hit', NEW W \in SUBSET Stages, NEW R,
               "announce" \in W
        PROVE  Reached(m, 0, W, R)' /\ ~Gone(m, W)'
    <3>1. \A c \in 1..1 : Pending(m, c, W, R)'
      BY <1>2, <2>5 DEF Pending, h
    <3>2. ~Gone(m, W)'
      BY <1>d, <1>1 DEF Gone
    <3> QED
      BY <1>v, <3>1, <3>2 DEF Reached
  <2>6. hit \subseteq hit'
    BY <1>t, <1>2, MishapTyped
  <2>7. StreamOrdered(m)'
    <3>1. (m \in Humans \cup Posts /\ m \notin hit /\ "stream" \notin crossed[m])
            => told[m] \in {Blank, 0}
      BY <1>t, <1>d DEF MessageInv, StreamOrdered, Reached, Gone, Absent
    <3>2. {"announce"} \in SUBSET Stages /\ 0 \in Nat
      BY DEF Stages
    <3> QED
      BY <1>t, <1>1, <2>5, <2>6, <3>1, <3>2 DEF StreamOrdered
  <2>8. TableOrdered(m)'
    <3>1. (m \in Humans \cup Own /\ m \notin hit /\ "table" \notin crossed[m])
            => stored[m] = 0
      BY <1>t, <1>d DEF MessageInv, TableOrdered, Reached, Gone, Absent
    <3>2. Stages \in SUBSET Stages /\ 0 \in Nat /\ "announce" \in Stages
      BY DEF Stages
    <3>3. m \in Others => stored'[m] = Absent
      BY <1>t, <1>1 DEF MessageInv, TableOrdered
    <3> QED
      BY <1>t, <1>1, <2>5, <2>6, <3>1, <3>2, <3>3 DEF TableOrdered
  <2> QED
    BY <2>2, <2>3, <2>4, <2>7, <2>8 DEF MessageInv
<1> QED
  BY <1>3, <1>4, <1>5, <1>6, InvFromOne

\* What an edit, a link and a deletion have in common.
LEMMA GatewayStep ==
  ASSUME IInv, NEW m \in Messages, NEW h \in Handler, h.id = m, StartHandler(h),
         version' \in [Messages -> 0..MaxVersion], deleted' \subseteq Messages,
         \A n \in Messages \ {m} : version'[n] = version[n]
                                   /\ (n \in deleted' <=> n \in deleted),
         changes' \in 0..MaxChanges,
         UNCHANGED <<stored, stamp, told, request, now, created, crossed>>
  PROVE  /\ RelayTypeOK'
         /\ \A n \in Messages \ {m} : Unconcerned(n)
         /\ handlers' \in {handlers, handlers \cup {h}}
         /\ m \notin hit' => h \in handlers' /\ m \notin hit
<1>t. RelayTypeOK
  BY DEF IInv
<1>1. /\ handlers' \in {handlers, handlers \cup {h}}
      /\ NoMishap \/ Mishap(m)
      /\ h \in handlers' \/ Mishap(m)
  BY DEF StartHandler
<1>2. /\ mishaps' \in 0..MaxMishaps /\ hit' \subseteq Messages /\ hit \subseteq hit'
      /\ Mishap(m) => m \in hit'
  BY <1>t, <1>1, MishapTyped
<1>3. handlers' \subseteq Handler
  BY <1>t, <1>1 DEF RelayTypeOK
<1>4. RelayTypeOK'
  BY <1>t, <1>2, <1>3 DEF RelayTypeOK
<1>5. ASSUME NEW n \in Messages \ {m}
      PROVE  Unconcerned(n)
  <2>1. Untouched(n)
    BY <1>1, NewHandlerElsewhere
  <2>2. n \in hit' <=> n \in hit
    BY <1>1, MishapElsewhere
  <2> QED
    BY <2>1, <2>2 DEF Unconcerned
<1> QED
  BY <1>1, <1>2, <1>4, <1>5

\* For a message that something befell little is left to say.
LEMMA HitIsEnough ==
  ASSUME NEW m, HandledOnce(m)', RequestReal(m)', m \in hit',
         created'[m] = created[m], CreationTold(m), Posts \subseteq Own,
         m \in Humans => /\ version[m] = 0 => version'[m] = 0 \/ created[m] = 0
                         /\ version'[m] = 0 => version[m] = 0
                         /\ Event(m, 1, "announce") \in handlers' =>
                                Event(m, 1, "announce") \in handlers \/ created[m] = 0,
         m \in Posts => \/ request'[m] = request[m]
                        \/ request'[m] \notin {"idle", "sent", "recorded"}
                        \/ request[m] \in {"idle", "sent", "recorded"},
         m \in Others => stored'[m] = Absent
  PROVE  MessageInv(m)'
<1>1. CreationTold(m)'
  BY DEF CreationTold
<1>2. StreamOrdered(m)' /\ TableOrdered(m)'
  BY DEF StreamOrdered, TableOrdered
<1> QED
  BY <1>1, <1>2 DEF MessageInv

LEMMA EditKeeps ==
  ASSUME IInv, NEW m \in Messages, Edit(m)
  PROVE  IInv'
<1> DEFINE v == version[m]
<1> USE KindsDisjoint
<1>t. /\ RelayTypeOK /\ HandlersReal /\ MessageInv(m)
      /\ m \in Humans /\ m \notin deleted /\ v \in 1..(MaxVersion - 1)
  BY DEF IInv, Edit
<1>w. PICK w \in 1..MaxVersion : w = v + 1
  BY <1>t
<1> DEFINE h == Event(m, w, "announce")
<1>h. h.id = m /\ h \in Handler /\ StartHandler(h)
  <2>1. h = [op |-> "update", id |-> m, content |-> w, at |-> "announce"]
    BY <1>t, <1>w DEF Event
  <2> QED
    BY <1>t, <1>w, <2>1, EventFields, HandlerTyped DEF Edit, Stages
<1>1. /\ version' = [version EXCEPT ![m] = w] /\ changes' \in 0..MaxChanges
      /\ UNCHANGED <<deleted, stored, stamp, told, request, now, created, crossed>>
  BY <1>t, <1>w DEF Edit, Change, RelayTypeOK
<1>2. /\ version' \in [Messages -> 0..MaxVersion] /\ deleted' \subseteq Messages
      /\ \A n \in Messages \ {m} : version'[n] = version[n]
                                   /\ (n \in deleted' <=> n \in deleted)
      /\ version'[m] = w
  BY <1>t, <1>w, <1>1 DEF RelayTypeOK
<1> HIDE DEF h
<1>3. /\ RelayTypeOK'
      /\ \A n \in Messages \ {m} : Unconcerned(n)
      /\ handlers' \in {handlers, handlers \cup {h}}
      /\ m \notin hit' => h \in handlers' /\ m \notin hit
  BY <1>h, <1>1, <1>2, GatewayStep
<1>4. HandlersReal'
  <2>1. IsHandler(h, "announce")'
    BY <1>t, <1>w, <1>h, <1>2 DEF IsHandler, h
  <2>2. \A n \in Humans : version[n] <= version'[n]
    BY <1>t, <1>w, <1>2 DEF RelayTypeOK
  <2>3. \A g \in handlers' \ handlers : \E a \in Stages : IsHandler(g, a)'
    BY <1>3, <2>1 DEF Stages
  <2> QED
    BY <1>t, <1>1, <1>3, <2>2, <2>3, HandlersStayReal
<1>5. /\ \A c \in 1..v, a \in Stages :
             Event(m, c, a) \in handlers' <=> Event(m, c, a) \in handlers
      /\ \A a \in Stages : Deletion(m, a) \in handlers' <=> Deletion(m, a) \in handlers
      /\ \A c \in Nat : Event(m, c, "store") \in handlers' <=>
                        Event(m, c, "store") \in handlers
  <2>1. w \in Nat /\ w > v
    BY <1>t, <1>w
  <2>2. \A c \in 1..v, a \in Stages : Event(m, c, a) # h
    BY <1>t, <2>1, EventsDiffer DEF h
  <2>3. \A a \in Stages : Deletion(m, a) # h
    BY <2>1, KindsDiffer DEF h
  <2>4. \A c \in Nat : Event(m, c, "store") # h
    BY <2>1, EventsDiffer DEF h
  <2> QED
    BY <1>3, <2>2, <2>3, <2>4
<1>6. MessageInv(m)'
  <2>1. HandledOnce(m)'
    <3>1. ASSUME Event(m, w, "store") \in handlers
          PROVE  FALSE
      <4>1. w \in Nat
        BY <1>w
      <4>2. w \in 1..version[m]
        BY <1>t, <3>1, <4>1, OnlyReal
      <4> QED
        BY <1>t, <1>w, <4>2
    <3>2. \A c \in 1..MaxVersion : c # w =>
            (Event(m, c, "announce") \in handlers' <=> Event(m, c, "announce") \in handlers)
      BY <1>t, <1>w, <1>3, EventsDiffer DEF h
    <3> QED
      BY <1>t, <1>w, <1>1, <1>5, <3>1, <3>2 DEF HandledOnce, MessageInv, Stages
  <2>2. RequestReal(m)'
    BY <1>t DEF RequestReal
  <2>3. CreationTold(m)'
    <3>1. Event(m, 1, "announce") \in handlers' <=> Event(m, 1, "announce") \in handlers
      BY <1>t, <1>w, <1>5 DEF Stages
    <3> QED
      BY <1>t, <1>w, <1>1, <1>2, <1>3, <3>1 DEF CreationTold, MessageInv
  <2>4. ASSUME m \notin hit', NEW W \in SUBSET Stages, NEW R, "announce" \in W,
               NEW k \in Nat, Reached(m, k, W, R)
        PROVE  Reached(m, k, W, R)' /\ ~Gone(m, W) /\ ~Gone(m, W)'
    <3>1. \A c \in 1..v : Pending(m, c, W, R)' <=> Pending(m, c, W, R)
      BY <1>t, <1>w, <1>5 DEF Pending
    <3>2. Pending(m, w, W, R)'
      BY <1>3, <2>4 DEF Pending, h
    <3>3. ~Gone(m, W) /\ ~Gone(m, W)'
      BY <1>t, <1>w, <1>1 DEF Gone
    <3>4. k \in 0..v /\ \A c \in 1..v : Pending(m, c, W, R) <=> c > k
      BY <2>4 DEF Reached
    <3>5. ASSUME NEW c \in 1..(w)
          PROVE  Pending(m, c, W, R)' <=> c > k
      <4>1. CASE c \in 1..v
        BY <3>1, <3>4, <4>1
      <4>2. CASE c = w
        BY <1>t, <1>w, <3>2, <3>4, <4>2
      <4> QED
        BY <1>t, <1>w, <4>1, <4>2
    <3> QED
      BY <1>t, <1>w, <1>2, <3>3, <3>4, <3>5 DEF Reached
  <2>5. StreamOrdered(m)'
    <3>1. {"announce"} \in SUBSET Stages
      BY DEF Stages
    <3> QED
      BY <1>t, <1>w, <1>1, <1>3, <2>4, <3>1 DEF StreamOrdered, MessageInv
  <2>6. TableOrdered(m)'
    <3>1. Stages \in SUBSET Stages /\ "announce" \in Stages
      BY DEF Stages
    <3> QED
      BY <1>t, <1>w, <1>1, <1>3, <2>4, <3>1 DEF TableOrdered, MessageInv
  <2> QED
    BY <2>1, <2>2, <2>3, <2>5, <2>6 DEF MessageInv
<1> QED
  BY <1>3, <1>4, <1>6, InvFromOne

LEMMA UnfurlKeeps ==
  ASSUME IInv, NEW m \in Messages, Unfurl(m)
  PROVE  IInv'
<1> DEFINE h == Link(m, "announce")
<1> USE KindsDisjoint
<1>t. RelayTypeOK /\ HandlersReal /\ MessageInv(m)
  BY DEF IInv
<1>h. h.id = m /\ h \in Handler /\ StartHandler(h)
  <2>1. h = [op |-> "update", id |-> m, content |-> Blank, at |-> "announce"]
    BY DEF Link
  <2> QED
    BY <1>t, <2>1, DeletionFields, HandlerTyped DEF Unfurl, Stages
<1> HIDE DEF h
<1>1. /\ changes' \in 0..MaxChanges
      /\ UNCHANGED <<version, deleted, stored, stamp, told, request, now, created, crossed>>
  BY <1>t DEF Unfurl, Change, RelayTypeOK, discordVars
<1>2. version' \in [Messages -> 0..MaxVersion] /\ deleted' \subseteq Messages
  BY <1>t, <1>1 DEF RelayTypeOK
<1>3. /\ RelayTypeOK'
      /\ \A n \in Messages \ {m} : Unconcerned(n)
      /\ handlers' \in {handlers, handlers \cup {h}}
      /\ m \notin hit' => h \in handlers' /\ m \notin hit
  BY <1>h, <1>1, <1>2, GatewayStep
<1>4. HandlersReal'
  <2>1. IsHandler(h, "announce")'
    BY <1>h DEF IsHandler, h
  <2>2. \A n \in Humans : version[n] <= version'[n]
    BY <1>t, <1>1 DEF RelayTypeOK
  <2>3. \A g \in handlers' \ handlers : \E a \in Stages : IsHandler(g, a)'
    BY <1>3, <2>1 DEF Stages
  <2> QED
    BY <1>t, <1>1, <1>3, <2>2, <2>3, HandlersStayReal
<1>5. Untouched(m)
  <2>1. \A a : \A c \in Nat : Event(m, c, a) # h
    BY KindsDiffer DEF h
  <2>2. \A a : Deletion(m, a) # h
    BY DeletionsDiffer DEF h
  <2> QED
    BY <1>1, <1>3, <2>1, <2>2 DEF Untouched
<1>6. MessageInv(m)'
  <2>1. CASE m \notin hit'
    <3>1. Unconcerned(m)
      BY <1>1, <1>3, <1>5, <2>1 DEF Unconcerned
    <3> QED
      BY <1>t, <3>1, UnconcernedKept DEF RelayTypeOK
  <2>2. CASE m \in hit'
    <3>1. HandledOnce(m)'
      BY <1>t, <1>1, <1>5 DEF MessageInv, HandledOnce, Untouched, Stages
    <3>2. RequestReal(m)'
      BY <1>t, <1>1, <2>2 DEF MessageInv, RequestReal
    <3>3. Event(m, 1, "announce") \in handlers' <=> Event(m, 1, "announce") \in handlers
      BY <1>5 DEF Untouched, Stages
    <3>4. m \in Others => stored'[m] = Absent
      BY <1>t, <1>1 DEF MessageInv, TableOrdered
    <3>5. CreationTold(m)
      BY <1>t DEF MessageInv
    <3>6. m \in Humans /\ version[m] = 0 => created[m] = 0
      BY <3>5 DEF CreationTold
    <3> QED
      BY <1>1, <2>2, <3>1, <3>2, <3>3, <3>4, <3>5, <3>6, HitIsEnough
  <2> QED
    BY <2>1, <2>2
<1> QED
  BY <1>3, <1>4, <1>6, InvFromOne

LEMMA DeleteKeeps ==
  ASSUME IInv, NEW m \in Messages, Delete(m)
  PROVE  IInv'
<1> DEFINE h == Deletion(m, "announce")
<1> USE KindsDisjoint
<1>t. RelayTypeOK /\ HandlersReal /\ MessageInv(m) /\ version[m] > 0 /\ m \notin deleted
  BY DEF IInv, Delete
<1>h. h.id = m /\ h \in Handler /\ StartHandler(h)
  <2>1. h = [op |-> "delete", id |-> m, content |-> Absent, at |-> "announce"]
    BY DEF Deletion
  <2> QED
    BY <1>t, <2>1, DeletionFields, HandlerTyped DEF Delete, Stages
<1> HIDE DEF h
<1>1. /\ deleted' = deleted \cup {m} /\ changes' \in 0..MaxChanges
      /\ UNCHANGED <<version, stored, stamp, told, request, now, created, crossed>>
  BY <1>t DEF Delete, Change, RelayTypeOK
<1>2. /\ version' \in [Messages -> 0..MaxVersion] /\ deleted' \subseteq Messages
      /\ \A n \in Messages \ {m} : version'[n] = version[n]
                                   /\ (n \in deleted' <=> n \in deleted)
  BY <1>t, <1>1 DEF RelayTypeOK
<1>3. /\ RelayTypeOK'
      /\ \A n \in Messages \ {m} : Unconcerned(n)
      /\ handlers' \in {handlers, handlers \cup {h}}
      /\ m \notin hit' => h \in handlers' /\ m \notin hit
  BY <1>h, <1>1, <1>2, GatewayStep
<1>4. HandlersReal'
  <2>1. IsHandler(h, "announce")'
    BY <1>h, <1>1 DEF IsHandler, h
  <2>2. \A n \in Humans : version[n] <= version'[n]
    BY <1>t, <1>1 DEF RelayTypeOK
  <2>3. \A g \in handlers' \ handlers : \E a \in Stages : IsHandler(g, a)'
    BY <1>3, <2>1 DEF Stages
  <2> QED
    BY <1>t, <1>1, <1>3, <2>2, <2>3, HandlersStayReal
<1>5. /\ \A c \in Nat, a \in Stages :
             Event(m, c, a) \in handlers' <=> Event(m, c, a) \in handlers
      /\ Deletion(m, "store") \notin handlers'
  <2>1. \A a : \A c \in Nat : Event(m, c, a) # h
    BY KindsDiffer DEF h
  <2>2. Deletion(m, "store") # h
    BY DeletionsDiffer DEF h
  <2>3. Deletion(m, "store") \notin handlers
    BY <1>t, OnlyReal
  <2> QED
    BY <1>3, <2>1, <2>2, <2>3
<1>6. MessageInv(m)'
  <2>1. HandledOnce(m)'
    BY <1>t, <1>1, <1>5 DEF HandledOnce, MessageInv, Stages
  <2>2. RequestReal(m)'
    <3>1. m \in hit => m \in hit'
      BY <1>3
    <3> QED
      BY <1>t, <1>1, <3>1 DEF RequestReal, MessageInv
  <2>3. CreationTold(m)'
    <3>1. Event(m, 1, "announce") \in handlers' <=> Event(m, 1, "announce") \in handlers
      BY <1>5 DEF Stages
    <3>2. m \in hit => m \in hit'
      BY <1>3
    <3> QED
      BY <1>t, <1>1, <3>1, <3>2 DEF CreationTold, MessageInv
  <2>4. ASSUME m \notin hit', NEW W \in SUBSET Stages, NEW R, "announce" \in W,
               NEW k \in Nat, Reached(m, k, W, R)
        PROVE  Reached(m, k, W, R)' /\ ~Gone(m, W) /\ ~Gone(m, W)'
    <3>1. \A c \in 1..version[m] : Pending(m, c, W, R)' <=> Pending(m, c, W, R)
      BY <1>t, <1>1, <1>5 DEF Pending
    <3>2. ~Gone(m, W) /\ ~Gone(m, W)'
      BY <1>t, <1>3, <2>4 DEF Gone, h
    <3> QED
      BY <1>1, <2>4, <3>1, <3>2 DEF Reached
  <2>5. StreamOrdered(m)'
    <3>1. {"announce"} \in SUBSET Stages
      BY DEF Stages
    <3> QED
      BY <1>t, <1>1, <1>3, <2>4, <3>1 DEF StreamOrdered, MessageInv
  <2>6. TableOrdered(m)'
    <3>1. Stages \in SUBSET Stages /\ "announce" \in Stages
      BY DEF Stages
    <3> QED
      BY <1>t, <1>1, <1>3, <2>4, <3>1 DEF TableOrdered, MessageInv
  <2> QED
    BY <2>1, <2>2, <2>3, <2>5, <2>6 DEF MessageInv
<1> QED
  BY <1>3, <1>4, <1>6, InvFromOne

-----------------------------------------------------------------------------
(* The gateway handlers.                                                   *)

\* Which handlers there are.
LEMMA HandlerKinds ==
  ASSUME HandlersReal, NEW h \in handlers, deleted \subseteq Messages
  PROVE  /\ h.id \in Messages
         /\ \/ h.id \in Humans /\ \E c \in 1..version[h.id] : h = Event(h.id, c, h.at)
            \/ h.id \in deleted /\ h = Deletion(h.id, h.at)
            \/ h = Link(h.id, h.at)
<1>1. PICK a \in Stages : IsHandler(h, a)
  BY DEF HandlersReal
<1>2. CASE h.id \in Humans /\ \E c \in 1..version[h.id] : h = Event(h.id, c, a)
  <2>1. PICK c \in 1..version[h.id] : h = Event(h.id, c, a)
    BY <1>2
  <2>2. h.at = a
    BY <2>1, EventFields
  <2> QED
    BY <1>2, <2>1, <2>2, KindsDisjoint
<1>3. CASE h.id \in deleted /\ h = Deletion(h.id, a)
  <2>1. h.at = a
    BY <1>3, DeletionFields
  <2> QED
    BY <1>3, <2>1
<1>4. CASE h.id \in Messages /\ h = Link(h.id, a)
  <2>1. h.at = a
    BY <1>4, DeletionFields
  <2> QED
    BY <1>4, <2>1
<1> QED
  BY <1>1, <1>2, <1>3, <1>4 DEF IsHandler

\* Moving or removing a handler of m leaves those of other messages as they are.
LEMMA OldHandlerElsewhere ==
  ASSUME NEW m, NEW n, n # m, NEW h, NEW g, h.id = m, g.id = m,
         handlers' \in {(handlers \ {h}) \cup {g}, handlers \ {h}},
         UNCHANGED <<version, deleted, request>>
  PROVE  Untouched(n)
<1>1. /\ \A a : \A c : Event(n, c, a) # h /\ Event(n, c, a) # g
      /\ \A a : Deletion(n, a) # h /\ Deletion(n, a) # g
  BY EventFields, DeletionFields
<1> QED
  BY <1>1 DEF Untouched

LEMMA AnnounceEffects ==
  ASSUME IInv, NEW h \in handlers, Announce(h), NEW m, m = h.id,
         NEW g, g = [h EXCEPT !.at = "store"]
  PROVE  /\ m \in Messages /\ h.at = "announce"
         /\ UNCHANGED <<version, deleted, stored, stamp, request, now, changes>>
         /\ handlers' = (handlers \ {h}) \cup {g}
         /\ \/ /\ told'[m] = h.content /\ (m \in hit' <=> m \in hit)
               /\ created'[m] = IF h.op = "create" THEN created[m] + 1 ELSE created[m]
            \/ told'[m] = told[m] /\ created'[m] = created[m] /\ m \in hit'
         /\ m \in hit => m \in hit'
         /\ "table" \in crossed'[m] <=> "table" \in crossed[m]
         /\ "stream" \notin crossed'[m] =>
                /\ "stream" \notin crossed[m]
                /\ \A e \in handlers : ~(Earlier(e, h) /\ e.at = "announce")
                /\ m \in Own => request[m] \notin {"sent", "recorded"}
         /\ RelayTypeOK' /\ HandlersReal'
         /\ \A n \in Messages \ {m} : Unconcerned(n)
<1> USE KindsDisjoint
<1>t. RelayTypeOK /\ HandlersReal
  BY DEF IInv
<1>k. /\ m \in Messages /\ h.at = "announce"
      /\ \/ m \in Humans /\ \E c \in 1..version[m] : h = Event(m, c, "announce")
         \/ m \in deleted /\ h = Deletion(m, "announce")
         \/ h = Link(m, "announce")
  <2>1. h.at = "announce" /\ deleted \subseteq Messages
    BY <1>t DEF Announce, RelayTypeOK
  <2> QED
    BY <1>t, <2>1, HandlerKinds
<1>g. /\ g \in Handler /\ g.id = m /\ IsHandler(g, "store") /\ h.content \in Contents
      /\ h.op = "create" => m \in Humans
  <2>1. ASSUME m \in Humans, NEW c \in 1..version[m], h = Event(m, c, "announce")
        PROVE  /\ g \in Handler /\ g.id = m /\ IsHandler(g, "store")
               /\ h.content \in Contents
    <3>1. c \in 1..MaxVersion
      BY <1>t, <2>1 DEF RelayTypeOK
    <3>2. g = Event(m, c, "store") /\ h.content = c
      BY <2>1, EventFields
    <3>3. g \in Handler /\ g.id = m
      BY <1>k, <3>1, <3>2, EventFields, HandlerTyped DEF Stages
    <3> QED
      BY <2>1, <3>1, <3>2, <3>3 DEF IsHandler, Contents
  <2>2. ASSUME m \in deleted, h = Deletion(m, "announce")
        PROVE  /\ g \in Handler /\ g.id = m /\ IsHandler(g, "store")
               /\ h.content \in Contents /\ h.op # "create"
    <3>1. g = Deletion(m, "store") /\ h.content = Absent /\ h.op = "delete"
      BY <2>2, DeletionFields DEF Absent
    <3>2. g \in Handler /\ g.id = m
      BY <1>k, <3>1, DeletionFields, HandlerTyped DEF Stages
    <3> QED
      BY <2>2, <3>1, <3>2 DEF IsHandler, Contents
  <2>3. ASSUME h = Link(m, "announce")
        PROVE  /\ g \in Handler /\ g.id = m /\ IsHandler(g, "store")
               /\ h.content \in Contents /\ h.op # "create"
    <3>1. g = Link(m, "store") /\ h.content = Blank /\ h.op = "update"
      BY <2>3, DeletionFields DEF Blank
    <3>2. g \in Handler /\ g.id = m
      BY <1>k, <3>1, DeletionFields, HandlerTyped DEF Stages
    <3> QED
      BY <1>k, <2>3, <3>1, <3>2 DEF IsHandler, Contents
  <2> QED
    BY <1>k, <2>1, <2>2, <2>3
<1>1. /\ UNCHANGED <<version, deleted, stored, stamp, request, now, changes>>
      /\ handlers' = (handlers \ {h}) \cup {g}
  BY DEF Announce, discordVars
<1>2. \/ /\ told' = [told EXCEPT ![m] = h.content]
         /\ created' = [created EXCEPT ![m] =
                            IF h.op = "create" THEN created[m] + 1 ELSE created[m]]
         /\ NoMishap
      \/ told' = told /\ created' = created /\ Mishap(m)
  <2>1. created[m] + 0 = created[m]
    BY <1>t, <1>k DEF RelayTypeOK
  <2> QED
    BY <2>1 DEF Announce, Tell, Said
<1>3. /\ mishaps' \in 0..MaxMishaps /\ hit' \subseteq Messages /\ hit \subseteq hit'
      /\ Mishap(m) => m \in hit'
      /\ NoMishap => hit' = hit
      /\ \A n \in Messages \ {m} : n \in hit' <=> n \in hit
  <2>1. NoMishap \/ Mishap(m)
    BY <1>2
  <2> QED
    BY <1>t, <1>k, <2>1, MishapTyped, MishapElsewhere
<1>4. /\ \A n \in Messages \ {m} : crossed'[n] = crossed[n]
      /\ crossed' \in [Messages -> SUBSET {"stream", "table"}]
      /\ "table" \in crossed'[m] <=> "table" \in crossed[m]
      /\ "stream" \notin crossed'[m] =>
             /\ "stream" \notin crossed[m]
             /\ \A e \in handlers : ~(Earlier(e, h) /\ e.at = "announce")
             /\ m \in Own => request[m] \notin {"sent", "recorded"}
  <2>1. Crossing(h, "stream", {"announce"}, {"sent", "recorded"})
    BY DEF Announce
  <2>2. crossed \in [Messages -> SUBSET {"stream", "table"}] /\ h.id \in Messages
    BY <1>t, <1>k DEF RelayTypeOK
  <2>3. {"stream", "table"} \cup {"stream"} = {"stream", "table"}
    OBVIOUS
  <2> QED
    BY <2>1, <2>2, <2>3, CrossingFacts
<1>5. /\ told' \in [Messages -> Contents] /\ created' \in [Messages -> Nat]
      /\ \A n \in Messages \ {m} : told'[n] = told[n] /\ created'[n] = created[n]
      /\ \/ /\ told'[m] = h.content /\ NoMishap
            /\ created'[m] = IF h.op = "create" THEN created[m] + 1 ELSE created[m]
         \/ told'[m] = told[m] /\ created'[m] = created[m] /\ Mishap(m)
  <2>1. /\ told \in [Messages -> Contents] /\ created \in [Messages -> Nat]
        /\ h.content \in Contents
    BY <1>t, <1>g DEF RelayTypeOK
  <2> QED
    BY <1>k, <1>2, <2>1
<1>6. RelayTypeOK'
  <2>1. handlers' \subseteq Handler
    BY <1>t, <1>g, <1>1 DEF RelayTypeOK
  <2> QED
    BY <1>t, <1>1, <1>3, <1>4, <1>5, <2>1 DEF RelayTypeOK
<1>7. HandlersReal'
  <2>1. IsHandler(g, "store")'
    BY <1>g, <1>1 DEF IsHandler
  <2>2. \A e \in handlers' \ handlers : \E a \in Stages : IsHandler(e, a)'
    BY <1>1, <2>1 DEF Stages
  <2>3. \A n \in Humans : version[n] <= version'[n]
    BY <1>t, <1>1 DEF RelayTypeOK
  <2> QED
    BY <1>t, <1>1, <1>6, <2>2, <2>3, HandlersStayReal
<1>8. ASSUME NEW n \in Messages \ {m}
      PROVE  Unconcerned(n)
  <2>1. Untouched(n)
    BY <1>1, <1>g, OldHandlerElsewhere
  <2> QED
    BY <1>1, <1>3, <1>4, <1>5, <2>1 DEF Unconcerned
<1> QED
  BY <1>k, <1>1, <1>3, <1>4, <1>5, <1>6, <1>7, <1>8

\* The announcement of version c: everything smaller was announced, unless it
\* overtakes something.
LEMMA AnnounceEventKeeps ==
  ASSUME IInv, NEW m \in Humans, NEW c \in 1..version[m],
         Event(m, c, "announce") \in handlers, Announce(Event(m, c, "announce"))
  PROVE  IInv'
<1> DEFINE h == Event(m, c, "announce")
           g == Event(m, c, "store")
<1> USE KindsDisjoint
<1>f. /\ h.id = m /\ h.content = c /\ g = [h EXCEPT !.at = "store"]
      /\ h.op = "create" <=> c = 1
  BY EventFields
<1>t. /\ RelayTypeOK /\ HandlersReal /\ MessageInv(m) /\ m \in Messages
      /\ version[m] \in 0..MaxVersion /\ c \in 1..MaxVersion
  BY DEF IInv, RelayTypeOK
<1>e. /\ UNCHANGED <<version, deleted, stored, request>>
      /\ handlers' = (handlers \ {h}) \cup {g}
      /\ \/ /\ told'[m] = c /\ (m \in hit' <=> m \in hit)
            /\ created'[m] = IF c = 1 THEN created[m] + 1 ELSE created[m]
         \/ told'[m] = told[m] /\ created'[m] = created[m] /\ m \in hit'
      /\ m \in hit => m \in hit'
      /\ "table" \in crossed'[m] <=> "table" \in crossed[m]
      /\ "stream" \notin crossed'[m] =>
             /\ "stream" \notin crossed[m]
             /\ \A e \in handlers : ~(Earlier(e, h) /\ e.at = "announce")
      /\ RelayTypeOK' /\ HandlersReal'
      /\ \A n \in Messages \ {m} : Unconcerned(n)
  BY <1>f, AnnounceEffects
<1>1. /\ \A d \in Nat, a \in Stages : d # c =>
             (Event(m, d, a) \in handlers' <=> Event(m, d, a) \in handlers)
      /\ Event(m, c, "announce") \notin handlers' /\ Event(m, c, "store") \in handlers'
      /\ Event(m, c, "announce") \in handlers
      /\ \A a \in Stages : Deletion(m, a) \in handlers' <=> Deletion(m, a) \in handlers
  <2>1. \A d \in Nat, a \in Stages : d # c => Event(m, d, a) # h /\ Event(m, d, a) # g
    BY <1>t, EventsDiffer
  <2>2. \A a \in Stages : Deletion(m, a) # h /\ Deletion(m, a) # g
    BY <1>t, KindsDiffer
  <2>3. h # g
    BY <1>t, EventsDiffer
  <2> QED
    BY <1>e, <2>1, <2>2, <2>3
<1> HIDE DEF h, g
<1>2. HandledOnce(m)'
  <2>1. \A d \in 1..MaxVersion :
            ~(Event(m, d, "announce") \in handlers' /\ Event(m, d, "store") \in handlers')
    BY <1>t, <1>1 DEF HandledOnce, MessageInv, Stages
  <2> QED
    BY <1>t, <1>e, <1>1, <2>1 DEF HandledOnce, MessageInv, Stages
<1>3. RequestReal(m)'
  BY <1>t DEF RequestReal
<1>4. CreationTold(m)'
  <2>1. CreationTold(m) /\ version[m] > 0 /\ version'[m] = version[m]
    BY <1>t, <1>e DEF MessageInv
  <2>2. CASE c = 1
    <3>1. created[m] = 0 /\ Event(m, 1, "announce") \notin handlers'
      BY <1>1, <2>1, <2>2 DEF CreationTold
    <3> QED
      BY <1>t, <1>e, <2>1, <2>2, <3>1 DEF CreationTold
  <2>3. CASE c # 1
    <3>1. Event(m, 1, "announce") \in handlers' <=> Event(m, 1, "announce") \in handlers
      BY <1>1, <2>3 DEF Stages
    <3>2. created'[m] = created[m]
      BY <1>e, <2>3
    <3> QED
      BY <1>t, <1>e, <2>1, <3>1, <3>2 DEF CreationTold
  <2> QED
    BY <2>2, <2>3
<1>5. StreamOrdered(m)'
  <2> SUFFICES ASSUME m \notin hit', "stream" \notin crossed'[m]
               PROVE  \E k \in Nat :
                        /\ Reached(m, k, {"announce"}, {"sent", "recorded"})'
                        /\ told'[m] \in {Blank, IF Gone(m, {"announce"})' THEN Absent ELSE k}
    BY DEF StreamOrdered
  <2>1. PICK k \in Nat : Reached(m, k, {"announce"}, {"sent", "recorded"})
    BY <1>t, <1>e DEF StreamOrdered, MessageInv
  <2>2. /\ k \in 0..version[m]
        /\ \A d \in 1..version[m] : Event(m, d, "announce") \in handlers <=> d > k
        /\ Gone(m, {"announce"}) => k = version[m]
    BY <1>t, <2>1 DEF Reached, Pending
  <2>3. \A d \in 1..version[m] : d < c => Event(m, d, "announce") \notin handlers
    <3>1. ASSUME NEW d \in 1..version[m], d < c, Event(m, d, "announce") \in handlers
          PROVE  FALSE
      <4>1. Earlier(Event(m, d, "announce"), h)
        BY <1>t, <3>1, EarlierEvents DEF h
      <4>2. Event(m, d, "announce").at = "announce"
        BY EventFields
      <4> QED
        BY <1>e, <3>1, <4>1, <4>2
    <3> QED
      BY <3>1
  <2>4. c = k + 1
    <3>1. c > k
      BY <1>1, <2>2
    <3>2. ~(k + 1 < c)
      BY <1>t, <2>2, <2>3
    <3> QED
      BY <1>t, <2>2, <3>1, <3>2
  <2>5. ~Gone(m, {"announce"})' /\ ~Gone(m, {"announce"})
    <3>1. ~Gone(m, {"announce"})
      BY <1>t, <2>2, <2>4
    <3> QED
      BY <1>e, <1>1, <3>1 DEF Gone, Stages
  <2>6. \A d \in 1..version[m] :
            Pending(m, d, {"announce"}, {"sent", "recorded"})' <=> d > c
    <3>1. ASSUME NEW d \in 1..version[m]
          PROVE  Event(m, d, "announce") \in handlers' <=> d > c
      <4>1. CASE d = c
        BY <1>t, <1>1, <4>1
      <4>2. CASE d # c
        <5>1. Event(m, d, "announce") \in handlers' <=> d > k
          BY <1>t, <1>1, <2>2, <4>2 DEF Stages
        <5> QED
          BY <1>t, <2>2, <2>4, <4>2, <5>1
      <4> QED
        BY <4>1, <4>2
    <3> QED
      BY <3>1 DEF Pending
  <2>7. Reached(m, c, {"announce"}, {"sent", "recorded"})'
    BY <1>t, <1>e, <2>5, <2>6 DEF Reached
  <2> QED
    BY <1>t, <1>e, <2>5, <2>7
<1>6. TableOrdered(m)'
  <2>1. \A R : \A d \in 1..version[m] : Pending(m, d, Stages, R)' <=> Pending(m, d, Stages, R)
    <3>1. \A d \in 1..version[m] : (\E a \in Stages : Event(m, d, a) \in handlers')
                                      <=> (\E a \in Stages : Event(m, d, a) \in handlers)
      BY <1>t, <1>1 DEF Stages
    <3> QED
      BY <1>e, <3>1 DEF Pending
  <2>2. Gone(m, Stages)' <=> Gone(m, Stages)
    BY <1>e, <1>1 DEF Gone
  <2>3. \A k \in Nat : Reached(m, k, Stages, {"sent"})' <=> Reached(m, k, Stages, {"sent"})
    BY <1>e, <2>1, <2>2 DEF Reached
  <2> QED
    BY <1>t, <1>e, <2>2, <2>3 DEF TableOrdered, MessageInv
<1>7. MessageInv(m)'
  BY <1>2, <1>3, <1>4, <1>5, <1>6 DEF MessageInv
<1> QED
  BY <1>t, <1>e, <1>7, InvFromOne

\* The announcement of a deletion: all versions were announced, unless it overtakes
\* something.
LEMMA AnnounceDeletionKeeps ==
  ASSUME IInv, NEW m \in deleted,
         Deletion(m, "announce") \in handlers, Announce(Deletion(m, "announce"))
  PROVE  IInv'
<1> DEFINE h == Deletion(m, "announce")
           g == Deletion(m, "store")
<1> USE KindsDisjoint
<1>f. /\ h.id = m /\ h.content = Absent /\ g = [h EXCEPT !.at = "store"]
      /\ h.op # "create"
  BY DeletionFields DEF Absent
<1>t. /\ RelayTypeOK /\ HandlersReal /\ MessageInv(m) /\ m \in Messages
      /\ version[m] \in 0..MaxVersion
  BY DEF IInv, RelayTypeOK
<1>e. /\ UNCHANGED <<version, deleted, stored, request>>
      /\ handlers' = (handlers \ {h}) \cup {g}
      /\ \/ told'[m] = Absent /\ (m \in hit' <=> m \in hit)
         \/ m \in hit'
      /\ created'[m] = created[m]
      /\ m \in hit => m \in hit'
      /\ "table" \in crossed'[m] <=> "table" \in crossed[m]
      /\ "stream" \notin crossed'[m] =>
             /\ "stream" \notin crossed[m]
             /\ \A e \in handlers : ~(Earlier(e, h) /\ e.at = "announce")
             /\ m \in Own => request[m] \notin {"sent", "recorded"}
      /\ RelayTypeOK' /\ HandlersReal'
      /\ \A n \in Messages \ {m} : Unconcerned(n)
  BY <1>f, AnnounceEffects
<1>1. /\ \A d \in Nat, a \in Stages :
             Event(m, d, a) \in handlers' <=> Event(m, d, a) \in handlers
      /\ Deletion(m, "announce") \notin handlers' /\ Deletion(m, "store") \in handlers'
      /\ Deletion(m, "announce") \in handlers
  <2>1. \A d \in Nat, a \in Stages : Event(m, d, a) # h /\ Event(m, d, a) # g
    BY KindsDiffer
  <2>2. h # g
    BY DeletionsDiffer
  <2> QED
    BY <1>e, <2>1, <2>2
<1> HIDE DEF h, g
<1>2. HandledOnce(m)'
  BY <1>t, <1>e, <1>1 DEF HandledOnce, MessageInv, Stages
<1>3. RequestReal(m)'
  BY <1>t, <1>e DEF RequestReal, MessageInv
<1>4. CreationTold(m)'
  <2>1. Event(m, 1, "announce") \in handlers' <=> Event(m, 1, "announce") \in handlers
    BY <1>1 DEF Stages
  <2> QED
    BY <1>t, <1>e, <2>1 DEF CreationTold, MessageInv
<1>5. StreamOrdered(m)'
  <2> SUFFICES ASSUME m \in Humans \cup Posts, m \notin hit', "stream" \notin crossed'[m]
               PROVE  \E k \in Nat :
                        /\ Reached(m, k, {"announce"}, {"sent", "recorded"})'
                        /\ told'[m] \in {Blank, IF Gone(m, {"announce"})' THEN Absent ELSE k}
    BY DEF StreamOrdered
  <2>1. PICK k \in Nat : Reached(m, k, {"announce"}, {"sent", "recorded"})
    BY <1>t, <1>e DEF StreamOrdered, MessageInv
  <2>2. /\ k \in 0..version[m]
        /\ \A d \in 1..version[m] :
                Pending(m, d, {"announce"}, {"sent", "recorded"}) <=> d > k
    BY <2>1 DEF Reached
  <2>3. \A d \in 1..version[m] : ~Pending(m, d, {"announce"}, {"sent", "recorded"})
    <3>1. ASSUME NEW d \in 1..version[m], Event(m, d, "announce") \in handlers
          PROVE  FALSE
      <4>1. Earlier(Event(m, d, "announce"), h)
        BY <1>t, <3>1, EarlierEvents DEF h
      <4>2. Event(m, d, "announce").at = "announce"
        BY EventFields
      <4> QED
        BY <1>e, <3>1, <4>1, <4>2
    <3> QED
      BY <1>e, <3>1 DEF Pending
  <2>4. k = version[m]
    BY <1>t, <2>2, <2>3
  <2>5. Gone(m, {"announce"})'
    BY <1>e, <1>1 DEF Gone
  <2>6. \A d \in 1..version[m] : ~Pending(m, d, {"announce"}, {"sent", "recorded"})'
    BY <1>e, <1>1, <2>3 DEF Pending, Stages
  <2>7. Reached(m, k, {"announce"}, {"sent", "recorded"})'
    BY <1>t, <1>e, <2>4, <2>5, <2>6 DEF Reached
  <2> QED
    BY <1>e, <2>5, <2>7
<1>6. TableOrdered(m)'
  <2>1. \A R : \A d \in 1..version[m] : Pending(m, d, Stages, R)' <=> Pending(m, d, Stages, R)
    BY <1>t, <1>e, <1>1 DEF Pending
  <2>2. Gone(m, Stages)' <=> Gone(m, Stages)
    BY <1>e, <1>1 DEF Gone, Stages
  <2>3. \A k \in Nat : Reached(m, k, Stages, {"sent"})' <=> Reached(m, k, Stages, {"sent"})
    BY <1>e, <2>1, <2>2 DEF Reached
  <2> QED
    BY <1>t, <1>e, <2>2, <2>3 DEF TableOrdered, MessageInv
<1>7. MessageInv(m)'
  BY <1>2, <1>3, <1>4, <1>5, <1>6 DEF MessageInv
<1> QED
  BY <1>t, <1>e, <1>7, InvFromOne

\* The announcement of a link has no content.
LEMMA AnnounceLinkKeeps ==
  ASSUME IInv, NEW m \in Messages,
         Link(m, "announce") \in handlers, Announce(Link(m, "announce"))
  PROVE  IInv'
<1> DEFINE h == Link(m, "announce")
           g == Link(m, "store")
<1> USE KindsDisjoint
<1>f. /\ h.id = m /\ h.content = Blank /\ g = [h EXCEPT !.at = "store"]
      /\ h.op # "create"
  BY DeletionFields DEF Blank
<1>t. /\ RelayTypeOK /\ HandlersReal /\ MessageInv(m)
      /\ version[m] \in 0..MaxVersion
  BY DEF IInv, RelayTypeOK
<1>e. /\ UNCHANGED <<version, deleted, stored, request>>
      /\ handlers' = (handlers \ {h}) \cup {g}
      /\ \/ told'[m] = Blank /\ (m \in hit' <=> m \in hit)
         \/ m \in hit'
      /\ created'[m] = created[m]
      /\ m \in hit => m \in hit'
      /\ "table" \in crossed'[m] <=> "table" \in crossed[m]
      /\ "stream" \notin crossed'[m] => "stream" \notin crossed[m]
      /\ RelayTypeOK' /\ HandlersReal'
      /\ \A n \in Messages \ {m} : Unconcerned(n)
  BY <1>f, AnnounceEffects
<1>1. Untouched(m)
  <2>1. \A d \in Nat, a \in Stages : Event(m, d, a) # h /\ Event(m, d, a) # g
    BY KindsDiffer
  <2>2. \A a \in Stages : Deletion(m, a) # h /\ Deletion(m, a) # g
    BY DeletionsDiffer
  <2> QED
    BY <1>e, <2>1, <2>2 DEF Untouched
<1> HIDE DEF h, g
<1>2. HandledOnce(m)'
  BY <1>t, <1>e, <1>1 DEF HandledOnce, MessageInv, Stages, Untouched
<1>3. RequestReal(m)'
  BY <1>t, <1>e DEF RequestReal, MessageInv
<1>4. CreationTold(m)'
  <2>1. Event(m, 1, "announce") \in handlers' <=> Event(m, 1, "announce") \in handlers
    BY <1>1 DEF Stages, Untouched
  <2> QED
    BY <1>t, <1>e, <2>1 DEF CreationTold, MessageInv
<1>5. StreamOrdered(m)'
  <2>1. {"announce"} \in SUBSET Stages
    BY DEF Stages
  <2> QED
    BY <1>t, <1>e, <1>1, <2>1, ReachedKept DEF StreamOrdered, MessageInv
<1>6. TableOrdered(m)'
  <2>1. Stages \in SUBSET Stages
    OBVIOUS
  <2> QED
    BY <1>t, <1>e, <1>1, <2>1, ReachedKept DEF TableOrdered, MessageInv
<1>7. MessageInv(m)'
  BY <1>2, <1>3, <1>4, <1>5, <1>6 DEF MessageInv
<1> QED
  BY <1>t, <1>e, <1>7, InvFromOne

LEMMA AnnounceKeeps ==
  ASSUME IInv, NEW h \in handlers, Announce(h)
  PROVE  IInv'
<1>1. /\ HandlersReal /\ deleted \subseteq Messages /\ h.at = "announce"
  BY DEF IInv, RelayTypeOK, Announce
<1>2. /\ h.id \in Messages
      /\ \/ h.id \in Humans /\ \E c \in 1..version[h.id] : h = Event(h.id, c, "announce")
         \/ h.id \in deleted /\ h = Deletion(h.id, "announce")
         \/ h = Link(h.id, "announce")
  BY <1>1, HandlerKinds
<1> QED
  BY <1>2, AnnounceEventKeeps, AnnounceDeletionKeeps, AnnounceLinkKeeps

LEMMA StoreEffects ==
  ASSUME IInv, NEW h \in handlers, Store(h), NEW m, m = h.id
  PROVE  /\ m \in Messages /\ h.at = "store"
         /\ UNCHANGED <<version, deleted, stamp, told, request, now, changes, created>>
         /\ handlers' = handlers \ {h}
         /\ \/ /\ m \in hit' <=> m \in hit
               /\ stored'[m] =
                    IF h.op = "update" /\ (stored[m] = Absent \/ h.content = Blank)
                    THEN stored[m] ELSE h.content
            \/ stored'[m] = stored[m] /\ m \in hit'
         /\ m \in hit => m \in hit'
         /\ "stream" \in crossed'[m] <=> "stream" \in crossed[m]
         /\ "table" \notin crossed'[m] =>
                /\ "table" \notin crossed[m]
                /\ \A e \in handlers : ~(Earlier(e, h) /\ e.at \in Stages)
                /\ m \in Own => request[m] # "sent"
         /\ RelayTypeOK' /\ HandlersReal'
         /\ \A n \in Messages \ {m} : Unconcerned(n)
<1> USE KindsDisjoint
<1> DEFINE new == IF h.op = "update" /\ (stored[m] = Absent \/ h.content = Blank)
                  THEN stored[m] ELSE h.content
<1>t. RelayTypeOK /\ HandlersReal
  BY DEF IInv
<1>k. m \in Messages /\ h.at = "store" /\ h \in Handler
  BY <1>t, HandlerKinds DEF Store, RelayTypeOK
<1>1. /\ UNCHANGED <<version, deleted, stamp, told, request, now, changes, created>>
      /\ handlers' = handlers \ {h}
  BY DEF Store, discordVars
<1>2. \/ stored' = [stored EXCEPT ![m] = new] /\ NoMishap
      \/ stored' = stored /\ Mishap(m)
  BY DEF Store, Applied
<1>3. /\ mishaps' \in 0..MaxMishaps /\ hit' \subseteq Messages /\ hit \subseteq hit'
      /\ Mishap(m) => m \in hit'
      /\ NoMishap => hit' = hit
      /\ \A n \in Messages \ {m} : n \in hit' <=> n \in hit
  <2>1. NoMishap \/ Mishap(m)
    BY <1>2
  <2> QED
    BY <1>t, <1>k, <2>1, MishapTyped, MishapElsewhere
<1>4. /\ \A n \in Messages \ {m} : crossed'[n] = crossed[n]
      /\ crossed' \in [Messages -> SUBSET {"stream", "table"}]
      /\ "stream" \in crossed'[m] <=> "stream" \in crossed[m]
      /\ "table" \notin crossed'[m] =>
             /\ "table" \notin crossed[m]
             /\ \A e \in handlers : ~(Earlier(e, h) /\ e.at \in Stages)
             /\ m \in Own => request[m] # "sent"
  <2>1. Crossing(h, "table", Stages, {"sent"})
    BY DEF Store, Stages
  <2>2. crossed \in [Messages -> SUBSET {"stream", "table"}] /\ h.id \in Messages
    BY <1>t, <1>k DEF RelayTypeOK
  <2>3. {"stream", "table"} \cup {"table"} = {"stream", "table"}
    OBVIOUS
  <2> QED
    BY <2>1, <2>2, <2>3, CrossingFacts
<1>5. /\ stored' \in [Messages -> Contents]
      /\ \A n \in Messages \ {m} : stored'[n] = stored[n]
      /\ \/ stored'[m] = new /\ NoMishap
         \/ stored'[m] = stored[m] /\ Mishap(m)
  <2>1. stored \in [Messages -> Contents] /\ h.content \in Contents
    BY <1>t, <1>k DEF RelayTypeOK, Handler
  <2>2. new \in Contents
    BY <1>k, <2>1
  <2> HIDE DEF new
  <2> QED
    BY <1>k, <1>2, <2>1, <2>2
<1>6. RelayTypeOK'
  <2>1. handlers' \subseteq Handler
    BY <1>t, <1>1 DEF RelayTypeOK
  <2> QED
    BY <1>t, <1>1, <1>3, <1>4, <1>5, <2>1 DEF RelayTypeOK
<1>7. HandlersReal'
  <2>1. \A n \in Humans : version[n] <= version'[n]
    BY <1>t, <1>1 DEF RelayTypeOK
  <2>2. handlers' \ handlers = {}
    BY <1>1
  <2> QED
    BY <1>t, <1>1, <1>6, <2>1, <2>2, HandlersStayReal
<1>8. ASSUME NEW n \in Messages \ {m}
      PROVE  Unconcerned(n)
  <2>1. Untouched(n)
    BY <1>1, OldHandlerElsewhere
  <2> QED
    BY <1>1, <1>3, <1>4, <1>5, <2>1 DEF Unconcerned
<1> QED
  BY <1>k, <1>1, <1>3, <1>4, <1>5, <1>6, <1>7, <1>8

\* A version is stored: all smaller ones were, unless it overtakes something, so
\* there is a row for an update to change.
LEMMA StoreEventKeeps ==
  ASSUME IInv, NEW m \in Humans, NEW c \in 1..version[m],
         Event(m, c, "store") \in handlers, Store(Event(m, c, "store"))
  PROVE  IInv'
<1> DEFINE h == Event(m, c, "store")
<1> USE KindsDisjoint
<1>f. /\ h.id = m /\ h.content = c
      /\ h.op = "update" <=> c # 1
      /\ c # Blank /\ c # Absent
  BY EventFields DEF Blank, Absent
<1>t. /\ RelayTypeOK /\ HandlersReal /\ MessageInv(m) /\ m \in Messages
      /\ version[m] \in 0..MaxVersion /\ c \in 1..MaxVersion
  BY DEF IInv, RelayTypeOK
<1>e. /\ UNCHANGED <<version, deleted, told, request, created>>
      /\ handlers' = handlers \ {h}
      /\ \/ /\ m \in hit' <=> m \in hit
            /\ stored'[m] = IF c # 1 /\ stored[m] = Absent THEN stored[m] ELSE c
         \/ m \in hit'
      /\ m \in hit => m \in hit'
      /\ "stream" \in crossed'[m] <=> "stream" \in crossed[m]
      /\ "table" \notin crossed'[m] =>
             /\ "table" \notin crossed[m]
             /\ \A e \in handlers : ~(Earlier(e, h) /\ e.at \in Stages)
      /\ RelayTypeOK' /\ HandlersReal'
      /\ \A n \in Messages \ {m} : Unconcerned(n)
  BY <1>f, StoreEffects
<1>1. /\ \A d \in Nat, a \in Stages : d # c =>
             (Event(m, d, a) \in handlers' <=> Event(m, d, a) \in handlers)
      /\ \A d \in Nat :
             Event(m, d, "announce") \in handlers' <=> Event(m, d, "announce") \in handlers
      /\ Event(m, c, "store") \notin handlers' /\ Event(m, c, "store") \in handlers
      /\ \A a \in Stages : Deletion(m, a) \in handlers' <=> Deletion(m, a) \in handlers
  <2>1. \A d \in Nat, a \in Stages : d # c => Event(m, d, a) # h
    BY <1>t, EventsDiffer
  <2>2. \A a \in Stages : Deletion(m, a) # h
    BY <1>t, KindsDiffer
  <2>3. \A d \in Nat : Event(m, d, "announce") # h
    BY <1>t, EventsDiffer
  <2> QED
    BY <1>e, <2>1, <2>2, <2>3
<1>n. Event(m, c, "announce") \notin handlers
  BY <1>t, <1>1 DEF MessageInv, HandledOnce
<1> HIDE DEF h
<1>2. HandledOnce(m)'
  <2>1. \A d \in 1..MaxVersion :
            ~(Event(m, d, "announce") \in handlers' /\ Event(m, d, "store") \in handlers')
    BY <1>t, <1>e DEF HandledOnce, MessageInv
  <2> QED
    BY <1>t, <1>e, <1>1, <2>1 DEF HandledOnce, MessageInv, Stages
<1>3. RequestReal(m)'
  BY <1>t DEF RequestReal
<1>4. CreationTold(m)'
  <2>1. Event(m, 1, "announce") \in handlers' <=> Event(m, 1, "announce") \in handlers
    BY <1>1
  <2> QED
    BY <1>t, <1>e, <2>1 DEF CreationTold, MessageInv
<1>5. StreamOrdered(m)'
  <2>1. \A R : \A d \in 1..version[m] :
            Pending(m, d, {"announce"}, R)' <=> Pending(m, d, {"announce"}, R)
    BY <1>t, <1>e, <1>1 DEF Pending
  <2>2. Gone(m, {"announce"})' <=> Gone(m, {"announce"})
    BY <1>e, <1>1 DEF Gone, Stages
  <2>3. \A k \in Nat : Reached(m, k, {"announce"}, {"sent", "recorded"})'
                        <=> Reached(m, k, {"announce"}, {"sent", "recorded"})
    BY <1>e, <2>1, <2>2 DEF Reached
  <2> QED
    BY <1>t, <1>e, <2>2, <2>3 DEF StreamOrdered, MessageInv
<1>6. TableOrdered(m)'
  <2> SUFFICES ASSUME m \notin hit', "table" \notin crossed'[m]
               PROVE  \E k \in Nat :
                        /\ Reached(m, k, Stages, {"sent"})'
                        /\ stored'[m] = IF Gone(m, Stages)' THEN Absent ELSE k
    BY DEF TableOrdered
  <2>1. PICK k \in Nat : /\ Reached(m, k, Stages, {"sent"})
                         /\ stored[m] = IF Gone(m, Stages) THEN Absent ELSE k
    BY <1>t, <1>e DEF TableOrdered, MessageInv
  <2>2. /\ k \in 0..version[m]
        /\ \A d \in 1..version[m] :
                (\E a \in Stages : Event(m, d, a) \in handlers) <=> d > k
        /\ Gone(m, Stages) => k = version[m]
    BY <1>t, <2>1 DEF Reached, Pending
  <2>3. \A d \in 1..version[m] : d < c => ~\E a \in Stages : Event(m, d, a) \in handlers
    <3>1. ASSUME NEW d \in 1..version[m], d < c, NEW a \in Stages,
                 Event(m, d, a) \in handlers
          PROVE  FALSE
      <4>1. Earlier(Event(m, d, a), h)
        BY <1>t, <3>1, EarlierEvents DEF h
      <4>2. Event(m, d, a).at = a
        BY EventFields
      <4> QED
        BY <1>e, <3>1, <4>1, <4>2
    <3> QED
      BY <3>1
  <2>4. c = k + 1
    <3>1. c > k
      BY <1>1, <2>2 DEF Stages
    <3>2. ~(k + 1 < c)
      BY <1>t, <2>2, <2>3
    <3> QED
      BY <1>t, <2>2, <3>1, <3>2
  <2>5. ~Gone(m, Stages)
    BY <1>t, <2>2, <2>4
  <2>6. ~Gone(m, Stages)'
    BY <1>e, <1>1, <2>5 DEF Gone
  <2>7. \A d \in 1..version[m] : Pending(m, d, Stages, {"sent"})' <=> d > c
    <3>1. ASSUME NEW d \in 1..version[m]
          PROVE  (\E a \in Stages : Event(m, d, a) \in handlers') <=> d > c
      <4>1. CASE d = c
        <5>1. \A a \in Stages : Event(m, d, a) \notin handlers'
          BY <1>t, <1>1, <1>n, <4>1 DEF Stages
        <5> QED
          BY <1>t, <4>1, <5>1
      <4>2. CASE d # c
        <5>1. (\E a \in Stages : Event(m, d, a) \in handlers') <=> d > k
          BY <1>t, <1>1, <2>2, <4>2
        <5> QED
          BY <1>t, <2>2, <2>4, <4>2, <5>1
      <4> QED
        BY <4>1, <4>2
    <3> QED
      BY <3>1 DEF Pending
  <2>8. Reached(m, c, Stages, {"sent"})'
    BY <1>t, <1>e, <2>6, <2>7 DEF Reached
  <2>9. stored'[m] = c
    BY <1>t, <1>e, <2>1, <2>2, <2>4, <2>5 DEF Absent
  <2> QED
    BY <1>t, <2>6, <2>8, <2>9
<1>7. MessageInv(m)'
  BY <1>2, <1>3, <1>4, <1>5, <1>6 DEF MessageInv
<1> QED
  BY <1>t, <1>e, <1>7, InvFromOne

\* A row is removed: all versions were stored, unless that overtakes something.
LEMMA StoreDeletionKeeps ==
  ASSUME IInv, NEW m \in deleted,
         Deletion(m, "store") \in handlers, Store(Deletion(m, "store"))
  PROVE  IInv'
<1> DEFINE h == Deletion(m, "store")
<1> USE KindsDisjoint
<1>f. h.id = m /\ h.content = Absent /\ h.op # "update"
  BY DeletionFields DEF Absent
<1>t. /\ RelayTypeOK /\ HandlersReal /\ MessageInv(m) /\ m \in Messages
      /\ version[m] \in 0..MaxVersion
  BY DEF IInv, RelayTypeOK
<1>e. /\ UNCHANGED <<version, deleted, told, request, created>>
      /\ handlers' = handlers \ {h}
      /\ \/ stored'[m] = Absent /\ (m \in hit' <=> m \in hit)
         \/ stored'[m] = stored[m] /\ m \in hit'
      /\ m \in hit => m \in hit'
      /\ "stream" \in crossed'[m] <=> "stream" \in crossed[m]
      /\ "table" \notin crossed'[m] =>
             /\ "table" \notin crossed[m]
             /\ \A e \in handlers : ~(Earlier(e, h) /\ e.at \in Stages)
             /\ m \in Own => request[m] # "sent"
      /\ RelayTypeOK' /\ HandlersReal'
      /\ \A n \in Messages \ {m} : Unconcerned(n)
  BY <1>f, StoreEffects
<1>1. /\ \A d \in Nat, a \in Stages :
             Event(m, d, a) \in handlers' <=> Event(m, d, a) \in handlers
      /\ Deletion(m, "store") \notin handlers' /\ Deletion(m, "store") \in handlers
      /\ Deletion(m, "announce") \in handlers' <=> Deletion(m, "announce") \in handlers
  <2>1. \A d \in Nat, a \in Stages : Event(m, d, a) # h
    BY KindsDiffer
  <2>2. h # Deletion(m, "announce")
    BY DeletionsDiffer
  <2> QED
    BY <1>e, <2>1, <2>2
<1>n. Deletion(m, "announce") \notin handlers
  BY <1>t, <1>1 DEF MessageInv, HandledOnce
<1> HIDE DEF h
<1>2. HandledOnce(m)'
  BY <1>t, <1>e, <1>1 DEF HandledOnce, MessageInv, Stages
<1>3. RequestReal(m)'
  BY <1>t, <1>e DEF RequestReal, MessageInv
<1>4. CreationTold(m)'
  <2>1. Event(m, 1, "announce") \in handlers' <=> Event(m, 1, "announce") \in handlers
    BY <1>1 DEF Stages
  <2> QED
    BY <1>t, <1>e, <2>1 DEF CreationTold, MessageInv
<1>5. StreamOrdered(m)'
  <2>1. \A R : \A d \in 1..version[m] :
            Pending(m, d, {"announce"}, R)' <=> Pending(m, d, {"announce"}, R)
    BY <1>t, <1>e, <1>1 DEF Pending, Stages
  <2>2. Gone(m, {"announce"})' <=> Gone(m, {"announce"})
    BY <1>e, <1>1 DEF Gone
  <2>3. \A k \in Nat : Reached(m, k, {"announce"}, {"sent", "recorded"})'
                        <=> Reached(m, k, {"announce"}, {"sent", "recorded"})
    BY <1>e, <2>1, <2>2 DEF Reached
  <2> QED
    BY <1>t, <1>e, <2>2, <2>3 DEF StreamOrdered, MessageInv
<1>6. TableOrdered(m)'
  <2>0. m \in Others => stored'[m] = Absent
    BY <1>t, <1>e DEF TableOrdered, MessageInv
  <2> SUFFICES ASSUME m \in Humans \cup Own, m \notin hit', "table" \notin crossed'[m]
               PROVE  \E k \in Nat :
                        /\ Reached(m, k, Stages, {"sent"})'
                        /\ stored'[m] = IF Gone(m, Stages)' THEN Absent ELSE k
    BY <2>0 DEF TableOrdered
  <2>1. PICK k \in Nat : Reached(m, k, Stages, {"sent"})
    BY <1>t, <1>e DEF TableOrdered, MessageInv
  <2>2. /\ k \in 0..version[m]
        /\ \A d \in 1..version[m] : Pending(m, d, Stages, {"sent"}) <=> d > k
    BY <2>1 DEF Reached
  <2>3. \A d \in 1..version[m] : ~Pending(m, d, Stages, {"sent"})
    <3>1. ASSUME NEW d \in 1..version[m], NEW a \in Stages, Event(m, d, a) \in handlers
          PROVE  FALSE
      <4>1. Earlier(Event(m, d, a), h)
        BY <1>t, <3>1, EarlierEvents DEF h
      <4>2. Event(m, d, a).at = a
        BY EventFields
      <4> QED
        BY <1>e, <3>1, <4>1, <4>2
    <3> QED
      BY <1>e, <3>1 DEF Pending
  <2>4. k = version[m]
    BY <1>t, <2>2, <2>3
  <2>5. Gone(m, Stages)'
    BY <1>e, <1>1, <1>n DEF Gone, Stages
  <2>6. \A d \in 1..version[m] : ~Pending(m, d, Stages, {"sent"})'
    BY <1>e, <1>1, <2>3 DEF Pending
  <2>7. Reached(m, k, Stages, {"sent"})'
    BY <1>t, <1>e, <2>4, <2>5, <2>6 DEF Reached
  <2> QED
    BY <1>e, <2>5, <2>7
<1>7. MessageInv(m)'
  BY <1>2, <1>3, <1>4, <1>5, <1>6 DEF MessageInv
<1> QED
  BY <1>t, <1>e, <1>7, InvFromOne

\* An event without content changes no row.
LEMMA StoreLinkKeeps ==
  ASSUME IInv, NEW m \in Messages,
         Link(m, "store") \in handlers, Store(Link(m, "store"))
  PROVE  IInv'
<1> DEFINE h == Link(m, "store")
<1> USE KindsDisjoint
<1>f. h.id = m /\ h.content = Blank /\ h.op = "update"
  BY DeletionFields DEF Blank
<1>t. /\ RelayTypeOK /\ HandlersReal /\ MessageInv(m)
      /\ version[m] \in 0..MaxVersion
  BY DEF IInv, RelayTypeOK
<1>e. /\ UNCHANGED <<version, deleted, told, request, created>>
      /\ handlers' = handlers \ {h}
      /\ stored'[m] = stored[m]
      /\ m \in hit => m \in hit'
      /\ "stream" \in crossed'[m] <=> "stream" \in crossed[m]
      /\ "table" \notin crossed'[m] => "table" \notin crossed[m]
      /\ RelayTypeOK' /\ HandlersReal'
      /\ \A n \in Messages \ {m} : Unconcerned(n)
  BY <1>f, StoreEffects
<1>1. Untouched(m)
  <2>1. \A d \in Nat, a \in Stages : Event(m, d, a) # h
    BY KindsDiffer
  <2>2. \A a \in Stages : Deletion(m, a) # h
    BY DeletionsDiffer
  <2> QED
    BY <1>e, <2>1, <2>2 DEF Untouched
<1> HIDE DEF h
<1>2. HandledOnce(m)'
  BY <1>t, <1>e, <1>1 DEF HandledOnce, MessageInv, Stages, Untouched
<1>3. RequestReal(m)'
  BY <1>t, <1>e DEF RequestReal, MessageInv
<1>4. CreationTold(m)'
  <2>1. Event(m, 1, "announce") \in handlers' <=> Event(m, 1, "announce") \in handlers
    BY <1>1 DEF Stages, Untouched
  <2> QED
    BY <1>t, <1>e, <2>1 DEF CreationTold, MessageInv
<1>5. StreamOrdered(m)'
  <2>1. {"announce"} \in SUBSET Stages
    BY DEF Stages
  <2> QED
    BY <1>t, <1>e, <1>1, <2>1, ReachedKept DEF StreamOrdered, MessageInv
<1>6. TableOrdered(m)'
  <2>1. Stages \in SUBSET Stages
    OBVIOUS
  <2> QED
    BY <1>t, <1>e, <1>1, <2>1, ReachedKept DEF TableOrdered, MessageInv
<1>7. MessageInv(m)'
  BY <1>2, <1>3, <1>4, <1>5, <1>6 DEF MessageInv
<1> QED
  BY <1>t, <1>e, <1>7, InvFromOne

LEMMA StoreKeeps ==
  ASSUME IInv, NEW h \in handlers, Store(h)
  PROVE  IInv'
<1>1. /\ HandlersReal /\ deleted \subseteq Messages /\ h.at = "store"
  BY DEF IInv, RelayTypeOK, Store
<1>2. /\ h.id \in Messages
      /\ \/ h.id \in Humans /\ \E c \in 1..version[h.id] : h = Event(h.id, c, "store")
         \/ h.id \in deleted /\ h = Deletion(h.id, "store")
         \/ h = Link(h.id, "store")
  BY <1>1, HandlerKinds
<1> QED
  BY <1>2, StoreEventKeeps, StoreDeletionKeeps, StoreLinkKeeps

-----------------------------------------------------------------------------
(* PostMessage and PostFile.                                               *)

\* The request is all there is to wait for, of a message the relay posts.
LEMMA OwnPending ==
  ASSUME HandlersReal, NEW m \in Own, NEW W, NEW R
  PROVE  /\ \A c \in Nat : Pending(m, c, W, R) <=> request[m] \in R
         /\ \A c \in Nat, a \in Stages : Event(m, c, a) \notin handlers
<1>1. m \notin Humans
  BY KindsDisjoint
<1>2. \A c \in Nat : \A a : Event(m, c, a) \notin handlers
  BY <1>1, OnlyReal
<1> QED
  BY <1>2 DEF Pending

\* A request changes nothing of other messages.
LEMMA RequestElsewhere ==
  ASSUME RelayTypeOK, NEW m \in Own, NEW n \in Messages \ {m}, NEW r,
         request' = [request EXCEPT ![m] = r],
         version'[n] = version[n], UNCHANGED <<deleted, handlers, crossed>>,
         stored'[n] = stored[n], told'[n] = told[n], created'[n] = created[n],
         n \in hit' <=> n \in hit
  PROVE  Unconcerned(n)
<1>1. n \in Own => request'[n] = request[n]
  BY DEF RelayTypeOK, Own
<1> QED
  BY <1>1 DEF Unconcerned, Untouched

LEMMA RefuseKeeps ==
  ASSUME IInv, NEW m \in Own, Refuse(m)
  PROVE  IInv'
<1> USE KindsDisjoint
<1>t. /\ RelayTypeOK /\ HandlersReal /\ MessageInv(m) /\ m \in Messages
      /\ request[m] = "idle" /\ version[m] = 0
      /\ UNCHANGED <<version, deleted, stored, stamp, told, handlers, now, changes,
                     mishaps, created, crossed, hit>>
  BY DEF IInv, Refuse, discordVars, ghostVars, MessageInv, RequestReal
<1>1. request' = [request EXCEPT ![m] = "failed"] /\ request'[m] = "failed"
  BY <1>t DEF Refuse, RelayTypeOK, Own
<1>2. RelayTypeOK'
  BY <1>t, <1>1 DEF RelayTypeOK, Own
<1>3. HandlersReal'
  BY <1>t DEF HandlersReal, IsHandler
<1>4. \A n \in Messages \ {m} : Unconcerned(n)
  BY <1>t, <1>1, RequestElsewhere
<1>5. HandledOnce(m)' /\ RequestReal(m)' /\ CreationTold(m)'
  BY <1>t, <1>1 DEF MessageInv, HandledOnce, RequestReal, CreationTold
<1>6. ASSUME NEW k \in Nat, NEW W, NEW R \in SUBSET {"sent", "recorded"},
             Reached(m, k, W, R)
      PROVE  Reached(m, k, W, R)' /\ (Gone(m, W)' <=> Gone(m, W))
  BY <1>t, <1>1, <1>6 DEF Reached, Pending, Gone
<1>7. StreamOrdered(m)' /\ TableOrdered(m)'
  BY <1>t, <1>6 DEF MessageInv, StreamOrdered, TableOrdered
<1> QED
  BY <1>t, <1>2, <1>3, <1>4, <1>5, <1>7, InvFromOne DEF MessageInv

LEMMA SendKeeps ==
  ASSUME IInv, NEW m \in Own, Send(m)
  PROVE  IInv'
<1> USE KindsDisjoint
<1>t. /\ RelayTypeOK /\ HandlersReal /\ MessageInv(m) /\ m \in Messages
      /\ request[m] = "idle" /\ version[m] = 0 /\ m \notin deleted
      /\ UNCHANGED <<deleted, stored, stamp, told, handlers, now, changes, created,
                     crossed>>
      /\ m \notin Humans
  BY DEF IInv, Send, MessageInv, RequestReal, HandledOnce, Echo, Heard
<1>1. /\ version' = [version EXCEPT ![m] = 1] /\ version'[m] = 1
      /\ \A n \in Messages \ {m} : version'[n] = version[n]
      /\ version' \in [Messages -> 0..MaxVersion]
  BY <1>t DEF Send, RelayTypeOK
<1>2. \/ /\ request' = [request EXCEPT ![m] = "sent"] /\ request'[m] = "sent"
         /\ NoMishap
      \/ /\ request' = [request EXCEPT ![m] = "failed"] /\ request'[m] = "failed"
         /\ Mishap(m)
  BY <1>t DEF Send, Echo, Heard, RelayTypeOK, Own
<1>3. /\ mishaps' \in 0..MaxMishaps /\ hit' \subseteq Messages /\ hit \subseteq hit'
      /\ Mishap(m) => m \in hit'
      /\ NoMishap => hit' = hit
  BY <1>t, <1>2, MishapTyped
<1>4. RelayTypeOK'
  <2>1. request' \in [Posts \cup Files ->
                        {"idle", "sent", "recorded", "done", "failed"}]
    BY <1>t, <1>2 DEF RelayTypeOK
  <2> QED
    BY <1>t, <1>1, <1>3, <2>1 DEF RelayTypeOK
<1>5. HandlersReal'
  <2>1. \A n \in Humans : version[n] <= version'[n]
    BY <1>t, <1>1 DEF RelayTypeOK
  <2>2. handlers' \ handlers = {}
    BY <1>t
  <2> QED
    BY <1>t, <1>4, <2>1, <2>2, HandlersStayReal
<1>6. ASSUME NEW n \in Messages \ {m}
      PROVE  Unconcerned(n)
  <2>1. n \in hit' <=> n \in hit
    BY <1>2, MishapElsewhere
  <2>2. PICK r : request' = [request EXCEPT ![m] = r]
    BY <1>2
  <2> QED
    BY <1>t, <1>1, <2>1, <2>2, RequestElsewhere
<1>7. HandledOnce(m)' /\ RequestReal(m)' /\ CreationTold(m)'
  BY <1>t, <1>1, <1>2, <1>3 DEF MessageInv, HandledOnce, RequestReal, CreationTold
<1>8. ASSUME m \notin hit', NEW W, NEW R, "sent" \in R
      PROVE  Reached(m, 0, W, R)' /\ ~Gone(m, W)'
  <2>1. request'[m] = "sent"
    BY <1>2, <1>3, <1>8
  <2>2. \A c \in 1..1 : Pending(m, c, W, R)'
    BY <1>8, <2>1 DEF Pending
  <2>3. ~Gone(m, W)'
    BY <1>t DEF Gone
  <2> QED
    BY <1>1, <2>2, <2>3 DEF Reached
<1>9. StreamOrdered(m)'
  <2>1. (m \in Humans \cup Posts /\ m \notin hit /\ "stream" \notin crossed[m])
          => told[m] \in {Blank, 0}
    BY <1>t DEF MessageInv, StreamOrdered, Reached, Gone, Absent
  <2>2. 0 \in Nat
    OBVIOUS
  <2> QED
    BY <1>t, <1>3, <1>8, <2>1, <2>2 DEF StreamOrdered
<1>10. TableOrdered(m)'
  <2>1. (m \notin hit /\ "table" \notin crossed[m]) => stored[m] = 0
    BY <1>t DEF MessageInv, TableOrdered, Reached, Gone, Absent
  <2>2. 0 \in Nat
    OBVIOUS
  <2> QED
    BY <1>t, <1>3, <1>8, <2>1, <2>2 DEF TableOrdered
<1> QED
  BY <1>t, <1>4, <1>5, <1>6, <1>7, <1>9, <1>10, InvFromOne DEF MessageInv

\* The row of the relay's own message is written while nothing else can have been.
LEMMA RecordKeeps ==
  ASSUME IInv, NEW m \in Own, Record(m)
  PROVE  IInv'
<1> USE KindsDisjoint
<1> DEFINE r == IF m \in Posts THEN "recorded" ELSE "done"
<1>t. /\ RelayTypeOK /\ HandlersReal /\ MessageInv(m) /\ m \in Messages
      /\ request[m] = "sent" /\ version[m] = 1
      /\ UNCHANGED <<version, deleted, told, handlers, now, changes, created, crossed>>
  BY DEF IInv, Record, MessageInv, RequestReal, discordVars
<1>1. request' = [request EXCEPT ![m] = r] /\ request'[m] = r
  BY <1>t DEF Record, RelayTypeOK, Own
<1>2. \/ /\ stored' = [stored EXCEPT ![m] = 1] /\ stored'[m] = 1 /\ NoMishap
      \/ stored' = stored /\ Mishap(m)
  BY <1>t DEF Record, RelayTypeOK
<1>3. /\ mishaps' \in 0..MaxMishaps /\ hit' \subseteq Messages /\ hit \subseteq hit'
      /\ Mishap(m) => m \in hit'
      /\ NoMishap => hit' = hit
  BY <1>t, <1>2, MishapTyped
<1>4. RelayTypeOK'
  <2>1. request' \in [Posts \cup Files ->
                        {"idle", "sent", "recorded", "done", "failed"}]
    BY <1>t, <1>1 DEF RelayTypeOK
  <2>2. stamp' \in [Messages -> 0..MaxTime]
    BY <1>t DEF Record, RelayTypeOK
  <2>3. stored' \in [Messages -> Contents]
    BY <1>t, <1>2 DEF RelayTypeOK, Contents
  <2> QED
    BY <1>t, <1>3, <2>1, <2>2, <2>3 DEF RelayTypeOK
<1>5. HandlersReal'
  BY <1>t DEF HandlersReal, IsHandler
<1>6. ASSUME NEW n \in Messages \ {m}
      PROVE  Unconcerned(n)
  <2>1. (n \in hit' <=> n \in hit) /\ stored'[n] = stored[n]
    BY <1>t, <1>2, MishapElsewhere DEF RelayTypeOK
  <2> QED
    BY <1>t, <1>1, <2>1, RequestElsewhere
<1> HIDE DEF r
<1>7. /\ m \in Posts => r = "recorded"
      /\ m \notin Posts => r = "done"
  BY DEF r
<1>8. HandledOnce(m)' /\ RequestReal(m)' /\ CreationTold(m)'
  <2>1. HandledOnce(m)'
    BY <1>t DEF MessageInv, HandledOnce
  <2>2. RequestReal(m)'
    BY <1>t, <1>1, <1>7 DEF RequestReal
  <2>3. CreationTold(m)'
    BY <1>t, <1>1, <1>7 DEF MessageInv, CreationTold
  <2> QED
    BY <2>1, <2>2, <2>3
<1>9. StreamOrdered(m)'
  <2> SUFFICES ASSUME m \in Posts
               PROVE  StreamOrdered(m)'
    BY DEF StreamOrdered
  <2> DEFINE R == {"sent", "recorded"}
  <2>1. \A c \in 1..version[m] :
            Pending(m, c, {"announce"}, R)' <=> Pending(m, c, {"announce"}, R)
    BY <1>t, <1>1, <1>7 DEF Pending
  <2>2. Gone(m, {"announce"})' <=> Gone(m, {"announce"})
    BY <1>t DEF Gone
  <2>3. \A k \in Nat : Reached(m, k, {"announce"}, R)' <=> Reached(m, k, {"announce"}, R)
    BY <1>t, <2>1, <2>2 DEF Reached
  <2> QED
    BY <1>t, <1>3, <2>2, <2>3 DEF StreamOrdered, MessageInv
<1>10. TableOrdered(m)'
  <2> SUFFICES ASSUME m \notin hit', "table" \notin crossed'[m]
               PROVE  Reached(m, 1, Stages, {"sent"})' /\ ~Gone(m, Stages)'
    <3>1. 1 \in Nat /\ (m \notin hit' => stored'[m] = 1)
      BY <1>2, <1>3
    <3> QED
      BY <3>1 DEF TableOrdered
  <2>1. PICK k \in Nat : Reached(m, k, Stages, {"sent"})
    BY <1>t, <1>3 DEF TableOrdered, MessageInv
  <2>2. Pending(m, 1, Stages, {"sent"})
    BY <1>t DEF Pending
  <2>3. ~Gone(m, Stages)'
    <3>1. ~Gone(m, Stages)
      BY <1>t, <2>1, <2>2 DEF Reached
    <3> QED
      BY <1>t, <3>1 DEF Gone
  <2>4. ~Pending(m, 1, Stages, {"sent"})'
    <3>1. \A a \in Stages : Event(m, 1, a) \notin handlers
      BY <1>t, OwnPending
    <3> QED
      BY <1>t, <1>1, <1>7, <3>1 DEF Pending
  <2> QED
    BY <1>t, <2>3, <2>4 DEF Reached
<1> QED
  BY <1>t, <1>4, <1>5, <1>6, <1>8, <1>9, <1>10, InvFromOne DEF MessageInv

LEMMA AnnouncePostKeeps ==
  ASSUME IInv, NEW m \in Own, AnnouncePost(m)
  PROVE  IInv'
<1> USE KindsDisjoint
<1>t. /\ RelayTypeOK /\ HandlersReal /\ MessageInv(m) /\ m \in Messages
      /\ request[m] = "recorded" /\ version[m] = 1 /\ m \in Posts /\ created[m] = 0
      /\ UNCHANGED <<version, deleted, stored, stamp, handlers, now, changes, crossed>>
  BY DEF IInv, AnnouncePost, MessageInv, RequestReal, CreationTold, discordVars
<1>1. request' = [request EXCEPT ![m] = "done"] /\ request'[m] = "done"
  BY <1>t DEF AnnouncePost, RelayTypeOK, Own
<1>2. \/ /\ told' = [told EXCEPT ![m] = 1] /\ told'[m] = 1
         /\ created' = [created EXCEPT ![m] = 1] /\ created'[m] = 1
         /\ NoMishap
      \/ told' = told /\ created' = created /\ Mishap(m)
  BY <1>t DEF AnnouncePost, Tell, RelayTypeOK
<1>3. /\ mishaps' \in 0..MaxMishaps /\ hit' \subseteq Messages /\ hit \subseteq hit'
      /\ Mishap(m) => m \in hit'
      /\ NoMishap => hit' = hit
  BY <1>t, <1>2, MishapTyped
<1>4. RelayTypeOK'
  <2>1. request' \in [Posts \cup Files ->
                        {"idle", "sent", "recorded", "done", "failed"}]
    BY <1>t, <1>1 DEF RelayTypeOK
  <2>2. told' \in [Messages -> Contents] /\ created' \in [Messages -> Nat]
    BY <1>t, <1>2 DEF RelayTypeOK, Contents
  <2> QED
    BY <1>t, <1>3, <2>1, <2>2 DEF RelayTypeOK
<1>5. HandlersReal'
  BY <1>t DEF HandlersReal, IsHandler
<1>6. ASSUME NEW n \in Messages \ {m}
      PROVE  Unconcerned(n)
  <2>1. /\ n \in hit' <=> n \in hit
        /\ told'[n] = told[n] /\ created'[n] = created[n]
    BY <1>t, <1>2, MishapElsewhere DEF RelayTypeOK
  <2> QED
    BY <1>t, <1>1, <2>1, RequestElsewhere
<1>7. HandledOnce(m)' /\ RequestReal(m)' /\ CreationTold(m)'
  BY <1>t, <1>1, <1>2, <1>3 DEF MessageInv, HandledOnce, RequestReal, CreationTold
<1>8. StreamOrdered(m)'
  <2> DEFINE R == {"sent", "recorded"}
  <2> SUFFICES ASSUME m \notin hit', "stream" \notin crossed'[m]
               PROVE  Reached(m, 1, {"announce"}, R)' /\ ~Gone(m, {"announce"})'
    <3>1. 1 \in Nat /\ (m \notin hit' => told'[m] = 1)
      BY <1>2, <1>3
    <3> QED
      BY <3>1 DEF StreamOrdered
  <2>1. PICK k \in Nat : Reached(m, k, {"announce"}, R)
    BY <1>t, <1>3 DEF StreamOrdered, MessageInv
  <2>2. Pending(m, 1, {"announce"}, R)
    BY <1>t DEF Pending
  <2>3. ~Gone(m, {"announce"})'
    <3>1. ~Gone(m, {"announce"})
      BY <1>t, <2>1, <2>2 DEF Reached
    <3> QED
      BY <1>t, <3>1 DEF Gone
  <2>4. ~Pending(m, 1, {"announce"}, R)'
    <3>1. \A a \in Stages : Event(m, 1, a) \notin handlers
      BY <1>t, OwnPending
    <3> QED
      BY <1>t, <1>1, <3>1 DEF Pending, Stages
  <2> QED
    BY <1>t, <2>3, <2>4 DEF Reached
<1>9. TableOrdered(m)'
  <2>1. \A c \in 1..version[m] :
            Pending(m, c, Stages, {"sent"})' <=> Pending(m, c, Stages, {"sent"})
    BY <1>t, <1>1 DEF Pending
  <2>2. Gone(m, Stages)' <=> Gone(m, Stages)
    BY <1>t DEF Gone
  <2>3. \A k \in Nat : Reached(m, k, Stages, {"sent"})' <=> Reached(m, k, Stages, {"sent"})
    BY <1>t, <2>1, <2>2 DEF Reached
  <2> QED
    BY <1>t, <1>3, <2>2, <2>3 DEF TableOrdered, MessageInv
<1> QED
  BY <1>t, <1>4, <1>5, <1>6, <1>7, <1>8, <1>9, InvFromOne DEF MessageInv

-----------------------------------------------------------------------------
(* Restarts, and the theorems.                                             *)

\* A message nothing was under way of does not notice a restart; of the others
\* the invariant says little.
LEMMA RestartKeeps ==
  ASSUME IInv, Restart
  PROVE  IInv'
<1> USE KindsDisjoint
<1> DEFINE cut == {m \in Own : request[m] \in {"sent", "recorded"}}
<1>t. /\ RelayTypeOK /\ HandlersReal /\ \A m \in Messages : MessageInv(m)
      /\ UNCHANGED <<version, deleted, stored, stamp, told, now, changes, created, crossed>>
      /\ DOMAIN request = Own
  BY DEF IInv, Restart, discordVars, RelayTypeOK, Own
<1>1. /\ mishaps' \in 0..MaxMishaps
      /\ hit' = hit \cup cut \cup {h.id : h \in handlers}
      /\ handlers' = {}
      /\ request' = [m \in Own |-> IF m \in cut THEN "failed" ELSE request[m]]
  BY <1>t DEF Restart, RelayTypeOK
<1>2. RelayTypeOK'
  <2>1. hit' \subseteq Messages
    <3>1. \A h \in handlers : h.id \in Messages
      BY <1>t DEF RelayTypeOK, Handler
    <3> QED
      BY <1>t, <1>1, <3>1 DEF RelayTypeOK
  <2>2. request' \in [Posts \cup Files ->
                        {"idle", "sent", "recorded", "done", "failed"}]
    <3>1. request \in [Own -> {"idle", "sent", "recorded", "done", "failed"}]
      BY <1>t DEF RelayTypeOK, Own
    <3>2. request' \in [Own -> {"idle", "sent", "recorded", "done", "failed"}]
      BY <1>1, <3>1
    <3> QED
      BY <3>2 DEF Own
  <2> QED
    BY <1>t, <1>1, <2>1, <2>2 DEF RelayTypeOK
<1>3. HandlersReal'
  BY <1>1 DEF HandlersReal
<1>4. ASSUME NEW m \in Messages
      PROVE  MessageInv(m)'
  <2>0. \A c, a : Event(m, c, a) \notin handlers' /\ Deletion(m, a) \notin handlers'
    BY <1>1
  <2>1. CASE m \in hit'
    <3>1. HandledOnce(m)'
      BY <1>t, <2>0 DEF HandledOnce, MessageInv
    <3>2. RequestReal(m)'
      BY <1>t, <1>1, <2>1 DEF RequestReal, MessageInv
    <3>3. CreationTold(m) /\ (m \in Others => stored'[m] = Absent)
      BY <1>t DEF MessageInv, TableOrdered
    <3>4. m \in Own => \/ request'[m] = request[m]
                       \/ request'[m] \notin {"idle", "sent", "recorded"}
      BY <1>1
    <3>5. m \in Humans /\ version[m] = 0 => created[m] = 0
      BY <3>3 DEF CreationTold
    <3>6. Event(m, 1, "announce") \notin handlers'
      BY <2>0
    <3> QED
      BY <1>t, <2>1, <3>1, <3>2, <3>3, <3>4, <3>5, <3>6, HitIsEnough
  <2>2. CASE m \notin hit'
    <3>1. m \notin hit /\ m \notin cut /\ \A h \in handlers : h.id # m
      BY <1>1, <2>2
    <3>2. \A c, a : Event(m, c, a) \notin handlers /\ Deletion(m, a) \notin handlers
      BY <3>1, EventFields, DeletionFields
    <3>3. m \in Own => request'[m] = request[m]
      BY <1>1, <3>1
    <3>4. Untouched(m)
      BY <1>t, <2>0, <3>2, <3>3 DEF Untouched
    <3>5. Unconcerned(m)
      BY <1>t, <2>2, <3>1, <3>4 DEF Unconcerned
    <3> QED
      BY <1>t, <3>5, UnconcernedKept DEF RelayTypeOK
  <2> QED
    BY <2>1, <2>2
<1> QED
  BY <1>2, <1>3, <1>4 DEF IInv

LEMMA InvInit ==
  ASSUME RelayInit
  PROVE  IInv
<1> USE KindsDisjoint
<1>1. RelayTypeOK
  BY DEF RelayInit, RelayTypeOK, Contents, Absent
<1>2. HandlersReal
  BY DEF RelayInit, HandlersReal
<1>3. ASSUME NEW m \in Messages
      PROVE  MessageInv(m)
  <2>0. /\ version[m] = 0 /\ m \notin deleted /\ handlers = {} /\ created[m] = 0
        /\ told[m] = 0 /\ stored[m] = 0 /\ Absent = 0
        /\ m \in Own => request[m] = "idle"
    BY DEF RelayInit, Own, Absent
  <2>1. HandledOnce(m) /\ RequestReal(m)
    BY <2>0 DEF HandledOnce, RequestReal
  <2>2. CreationTold(m)
    BY <2>0 DEF CreationTold
  <2>3. \A W, R : Reached(m, 0, W, R) /\ ~Gone(m, W)
    BY <2>0 DEF Reached, Gone
  <2>4. 0 \in Nat
    OBVIOUS
  <2>5. StreamOrdered(m) /\ TableOrdered(m)
    BY <2>0, <2>3, <2>4 DEF StreamOrdered, TableOrdered
  <2> QED
    BY <2>1, <2>2, <2>5 DEF MessageInv
<1> QED
  BY <1>1, <1>2, <1>3 DEF IInv

LEMMA InvNext ==
  ASSUME IInv, [RelayNext]_relayVars
  PROVE  IInv'
<1>1. CASE RelayStep
  <2>1. ASSUME NEW m \in Messages, Say(m) \/ Edit(m) \/ Unfurl(m) \/ Delete(m)
        PROVE  IInv'
    BY <2>1, SayKeeps, EditKeeps, UnfurlKeeps, DeleteKeeps
  <2>2. ASSUME NEW m \in Own, Refuse(m) \/ Send(m) \/ Record(m) \/ AnnouncePost(m)
        PROVE  IInv'
    BY <2>2, RefuseKeeps, SendKeeps, RecordKeeps, AnnouncePostKeeps
  <2>3. ASSUME NEW h \in handlers, Announce(h) \/ Store(h)
        PROVE  IInv'
    BY <2>3, AnnounceKeeps, StoreKeeps
  <2> QED
    BY <1>1, <2>1, <2>2, <2>3 DEF RelayStep, HandlerStep, RequestStep, Own
<1>2. CASE Restart
  BY <1>2, RestartKeeps
<1>3. CASE UNCHANGED relayVars
  <2>t. /\ RelayTypeOK /\ HandlersReal /\ \A m \in Messages : MessageInv(m)
        /\ UNCHANGED <<version, deleted, stored, stamp, told, handlers, request, now,
                       changes, mishaps, created, crossed, hit>>
    BY <1>3 DEF IInv, relayVars, discordVars, ghostVars
  <2>1. RelayTypeOK'
    BY <2>t DEF RelayTypeOK
  <2>2. HandlersReal'
    BY <2>t DEF HandlersReal, IsHandler
  <2>3. ASSUME NEW m \in Messages
        PROVE  MessageInv(m)'
    <3>1. Unconcerned(m)
      BY <2>t DEF Unconcerned, Untouched
    <3> QED
      BY <2>t, <3>1, UnconcernedKept, KindsDisjoint DEF RelayTypeOK
  <2> QED
    BY <2>1, <2>2, <2>3 DEF IInv
<1> QED
  BY <1>1, <1>2, <1>3 DEF RelayNext

\* When nothing of a message is under way, all of its events have been dealt with.
LEMMA SettledReached ==
  ASSUME IInv, NEW m \in Messages, Settled(m), NEW k \in Nat,
         NEW W \in SUBSET Stages, NEW R \in SUBSET {"sent", "recorded"},
         Reached(m, k, W, R)
  PROVE  /\ k = version[m]
         /\ Gone(m, W) <=> m \in deleted
<1> USE KindsDisjoint
<1>t. version[m] \in Nat /\ DOMAIN request = Own
  BY DEF IInv, RelayTypeOK, Own
<1>1. \A c, a : Event(m, c, a) \notin handlers /\ Deletion(m, a) \notin handlers
  BY EventFields, DeletionFields DEF Settled
<1>2. m \in Own => request[m] \notin R
  BY <1>t DEF Settled
<1>3. \A c \in 1..version[m] : ~(c > k)
  BY <1>1, <1>2 DEF Reached, Pending
<1>4. k = version[m]
  BY <1>t, <1>3 DEF Reached
<1> QED
  BY <1>1, <1>4 DEF Gone

\* The invariant: as long as nothing was overtaken and nothing failed, the events of
\* a message were dealt with in their order, one by one.
THEOREM InvCorrect == RelaySpec => []IInv
<1>1. RelayInit => IInv
  BY InvInit
<1>2. IInv /\ [RelayNext]_relayVars => IInv'
  BY InvNext
<1> QED
  BY <1>1, <1>2, PTL DEF RelaySpec

\* Every variable keeps its type, for any sets of messages and any bounds.
THEOREM TypeCorrect == RelaySpec => []RelayTypeOK
<1>1. IInv => RelayTypeOK
  BY DEF IInv
<1> QED
  BY <1>1, InvCorrect, PTL

\* When nothing of a message is under way, and neither a fault nor an overtaking
\* intervened, its row is what Discord shows of it (onMessageCreate, onMessageUpdate,
\* onMessageDelete, and PostMessage and PostFile); of foreign webhooks there is none.
THEOREM TableFollowsCorrect == RelaySpec => []TableFollows
<1> USE KindsDisjoint
<1>1. ASSUME IInv
      PROVE  TableFollows
  <2>1. ASSUME NEW m \in Messages, m \notin hit, Settled(m), "table" \notin crossed[m]
        PROVE  stored[m] = IF m \in Others THEN Absent ELSE AtDiscord(m)
    <3>1. TableOrdered(m)
      BY <1>1, <2>1 DEF IInv, MessageInv
    <3>2. CASE m \in Others
      BY <3>1, <3>2 DEF TableOrdered
    <3>3. CASE m \notin Others
      <4>1. PICK k \in Nat : /\ Reached(m, k, Stages, {"sent"})
                             /\ stored[m] = IF Gone(m, Stages) THEN Absent ELSE k
        BY <2>1, <3>1, <3>3 DEF TableOrdered
      <4>2. {"sent"} \in SUBSET {"sent", "recorded"} /\ Stages \in SUBSET Stages
        OBVIOUS
      <4>3. k = version[m] /\ (Gone(m, Stages) <=> m \in deleted)
        BY <1>1, <2>1, <4>1, <4>2, SettledReached
      <4> QED
        BY <3>3, <4>1, <4>3 DEF AtDiscord
    <3> QED
      BY <3>2, <3>3
  <2> QED
    BY <2>1 DEF TableFollows
<1> QED
  BY <1>1, InvCorrect, PTL

\* The same of the event stream: what it last said of a message of a person or of
\* PostMessage is what Discord shows, unless that was an event without content.
THEOREM StreamFollowsCorrect == RelaySpec => []StreamFollows
<1> USE KindsDisjoint
<1>1. ASSUME IInv
      PROVE  StreamFollows
  <2>1. ASSUME NEW m \in Humans \cup Posts, Settled(m), m \notin hit,
               "stream" \notin crossed[m], told[m] # Blank
        PROVE  told[m] = AtDiscord(m)
    <3>1. StreamOrdered(m) /\ m \in Messages
      BY <1>1 DEF IInv, MessageInv
    <3>2. PICK k \in Nat :
            /\ Reached(m, k, {"announce"}, {"sent", "recorded"})
            /\ told[m] \in {Blank, IF Gone(m, {"announce"}) THEN Absent ELSE k}
      BY <2>1, <3>1 DEF StreamOrdered
    <3>3. {"announce"} \in SUBSET Stages
      BY DEF Stages
    <3>4. k = version[m] /\ (Gone(m, {"announce"}) <=> m \in deleted)
      BY <1>1, <2>1, <3>1, <3>2, <3>3, SettledReached
    <3> QED
      BY <2>1, <3>2, <3>4 DEF AtDiscord
  <2> QED
    BY <2>1 DEF StreamFollows
<1> QED
  BY <1>1, InvCorrect, PTL

\* The creation of a message is never announced twice, though the relay announces
\* what PostMessage sends itself and Discord sends it back (the return at the top of
\* onMessageCreate), and never for foreign webhooks; and it is announced at last.
THEOREM AnnouncedOnceCorrect == RelaySpec => []AnnouncedOnce
<1> USE KindsDisjoint
<1>1. ASSUME IInv
      PROVE  AnnouncedOnce
  <2>1. ASSUME NEW m \in Messages
        PROVE  /\ created[m] <= IF m \in Humans \cup Posts THEN 1 ELSE 0
               /\ (/\ m \in Humans \cup Posts /\ m \notin hit
                   /\ Settled(m) /\ version[m] > 0) => created[m] = 1
    <3>1. CreationTold(m) /\ RequestReal(m) /\ created[m] \in Nat /\ DOMAIN request = Own
      BY <1>1 DEF IInv, MessageInv, RelayTypeOK, Own
    <3>2. created[m] <= IF m \in Humans \cup Posts THEN 1 ELSE 0
      BY <3>1 DEF CreationTold
    <3>3. ASSUME m \in Humans, m \notin hit, Settled(m), version[m] > 0
          PROVE  created[m] = 1
      <4>1. Event(m, 1, "announce") \notin handlers
        BY <3>3, EventFields DEF Settled
      <4> QED
        BY <3>1, <3>3, <4>1 DEF CreationTold
    <3>4. ASSUME m \in Posts, m \notin hit, Settled(m), version[m] > 0
          PROVE  created[m] = 1
      <4>1. request[m] = "done"
        BY <3>1, <3>4 DEF RequestReal, Settled
      <4> QED
        BY <3>1, <3>4, <4>1 DEF CreationTold
    <3> QED
      BY <3>2, <3>3, <3>4
  <2> QED
    BY <2>1 DEF AnnouncedOnce
<1> QED
  BY <1>1, InvCorrect, PTL

-----------------------------------------------------------------------------
(* History: the terminal that reads the table while the relay goes on.     *)

\* m's row has its timestamp, or had: it never gets another one.
Stamped(m) == IF m \in Own THEN request[m] \notin {"idle", "sent"} ELSE version[m] > 0

BoundsStamped ==
    /\ \A m \in Rows \cup got : Stamped(m)
    /\ before # None => Stamped(before)
    /\ after # None => Stamped(after)

\* What the terminal is owed is in the table.
OwedStored == owed \subseteq Rows

\* The messages the pages to come are about.
Ahead(m) == OlderThan(m) /\ NewerThan(m)

SameTime(m) == \E g \in got : stamp[g] = stamp[m]

\* The pages are cut where the bounds of the next one say: of what the terminal has
\* nothing lies ahead but what is given again, and nothing it is owed lies behind
\* unless it has that or something of the same time.
ReadSoFar ==
    /\ reading = "idle" => got = {}
    /\ reading \in {"idle", "more"} => cutShort = FALSE
    /\ reading = "more" =>
        /\ \A g \in got : Ahead(g) => GivenAgain(g)
        /\ \A m \in owed : m \in got \/ SameTime(m) \/ Ahead(m)
    /\ reading = "done" => \A m \in owed : m \in got \/ Skipped(m)

\* A message of a person has no row while its creation is still to be stored.
StoredByCreation ==
    \A m \in Humans, a \in Stages :
        Event(m, 1, a) \in handlers => stored[m] = Absent

\* A message that came to the table after the reading began was or will be announced
\* to the terminal.
HumanFollowed(m) ==
    m \notin owed \cup gap \cup hit \cup live =>
        stored[m] = Absent /\ Event(m, 1, "store") \notin handlers

PostFollowed(m) ==
    m \notin owed \cup hit \cup live =>
        stored[m] = Absent \/ request[m] = "recorded"

Followed ==
    reading # "idle" =>
        /\ watching = TRUE
        /\ whole = TRUE =>
            /\ \A m \in Humans : HumanFollowed(m)
            /\ \A m \in Posts : PostFollowed(m)

HistoryInv ==
    /\ IInv /\ TypeOK
    /\ BoundsStamped /\ OwedStored /\ ReadSoFar
    /\ StoredByCreation /\ Followed

-----------------------------------------------------------------------------
(* What a step of the relay does, as far as the terminal is concerned.     *)

\* Of a message: its row's timestamp stays; a row comes from the handler of its
\* creation or from the request that posts it; and whoever is to announce it does,
\* or a mishap befalls it.
StepOn(m) ==
    /\ Stamped(m) => stamp'[m] = stamp[m] /\ Stamped(m)'
    /\ m \in hit => m \in hit'
    /\ stored[m] = Absent /\ stored'[m] # Absent =>
        /\ m \notin Others /\ Stamped(m)'
        /\ m \in Posts => request'[m] = "recorded"
        /\ m \in Humans =>
            /\ Event(m, 1, "store") \in handlers
            /\ \A a \in Stages : Event(m, 1, a) \notin handlers'
    /\ m \in Humans =>
        /\ Event(m, 1, "announce") \in handlers' =>
               Event(m, 1, "announce") \in handlers \/ version[m] = 0
        /\ Event(m, 1, "store") \in handlers' =>
               \/ Event(m, 1, "store") \in handlers
               \/ /\ Event(m, 1, "announce") \in handlers
                  /\ created'[m] > created[m] \/ m \in hit'
    /\ m \in Posts /\ request[m] = "recorded" =>
        request'[m] = "recorded" \/ created'[m] > created[m] \/ m \in hit'

\* Steps that neither store nor announce, and start no handler of a creation.
LEMMA QuietStep ==
  ASSUME UNCHANGED <<stored, stamp, created>>, hit \subseteq hit',
         \A n \in Messages \ Own : version[n] > 0 => version'[n] > 0,
         \A n \in Own : request'[n] = request[n] \/ request[n] = "idle",
         \A n \in Humans, a \in Stages :
             Event(n, 1, a) \in handlers' => Event(n, 1, a) \in handlers
  PROVE  \A n \in Messages : StepOn(n)
<1> USE KindsDisjoint
<1>1. ASSUME NEW n \in Messages, Stamped(n)
      PROVE  Stamped(n)'
  BY <1>1 DEF Stamped
<1> QED
  BY <1>1 DEF StepOn, Stages

\* An error, a loss or none: what was hit stays hit.
LEMMA HitStays == ASSUME NEW m, NoMishap \/ Mishap(m) PROVE hit \subseteq hit'
  BY DEF NoMishap, Mishap

\* The handlers that edits, links and deletions start are not of creations.
LEMMA NoNewCreation ==
  ASSUME NEW h, h.op # "create", handlers' \in {handlers, handlers \cup {h}}
  PROVE  \A n \in Humans, a \in Stages :
             Event(n, 1, a) \in handlers' => Event(n, 1, a) \in handlers
<1>1. \A n, a : Event(n, 1, a).op = "create"
  BY EventFields
<1> QED
  BY <1>1

LEMMA GatewayQuiet ==
  ASSUME IInv, NEW m \in Messages, Edit(m) \/ Unfurl(m) \/ Delete(m)
  PROVE  \A n \in Messages : StepOn(n)
<1>1. PICK h : /\ h.op # "create"
               /\ handlers' \in {handlers, handlers \cup {h}}
               /\ NoMishap \/ Mishap(h.id)
  <2> DEFINE Started(h) == /\ h.op # "create"
                           /\ handlers' \in {handlers, handlers \cup {h}}
                           /\ NoMishap \/ Mishap(h.id)
  <2>1. ASSUME NEW h, h.op # "create", StartHandler(h)
        PROVE  \E g : Started(g)
    BY <2>1 DEF StartHandler
  <2> HIDE DEF Started
  <2>2. ASSUME Edit(m)
        PROVE  \E g : Started(g)
    <3>1. PICK h : h = [op |-> "update", id |-> m, content |-> version[m] + 1,
                        at |-> "announce"]
      OBVIOUS
    <3> QED
      BY <2>1, <2>2, <3>1 DEF Edit
  <2>3. ASSUME Unfurl(m)
        PROVE  \E g : Started(g)
    <3>1. PICK h : h = [op |-> "update", id |-> m, content |-> Blank, at |-> "announce"]
      OBVIOUS
    <3> QED
      BY <2>1, <2>3, <3>1 DEF Unfurl
  <2>4. ASSUME Delete(m)
        PROVE  \E g : Started(g)
    <3>1. PICK h : h = [op |-> "delete", id |-> m, content |-> Absent, at |-> "announce"]
      OBVIOUS
    <3> QED
      BY <2>1, <2>4, <3>1 DEF Delete
  <2>5. \E g : Started(g)
    BY <2>2, <2>3, <2>4
  <2> QED
    BY <2>5 DEF Started
<1>2. ASSUME NEW n \in Messages, version[n] > 0
      PROVE  version'[n] > 0
  <2>1. /\ version \in [Messages -> 0..MaxVersion]
        /\ \/ version' = version
           \/ version' = [version EXCEPT ![m] = @ + 1]
    BY DEF IInv, RelayTypeOK, Edit, Unfurl, Delete, discordVars
  <2> QED
    BY <1>2, <2>1, KindsDisjoint
<1>3. UNCHANGED <<stored, stamp, created, request>>
  BY DEF Edit, Unfurl, Delete
<1>4. hit \subseteq hit'
  BY <1>1, HitStays
<1>5. \A n \in Humans, a \in Stages :
          Event(n, 1, a) \in handlers' => Event(n, 1, a) \in handlers
  BY <1>1, NoNewCreation
<1> QED
  BY <1>2, <1>3, <1>4, <1>5, QuietStep

LEMMA RefuseQuiet ==
  ASSUME IInv, NEW m \in Own, Refuse(m) \/ Send(m)
  PROVE  \A n \in Messages : StepOn(n)
<1> USE KindsDisjoint
<1>t. request \in [Own -> {"idle", "sent", "recorded", "done", "failed"}]
      /\ version \in [Messages -> 0..MaxVersion]
  BY DEF IInv, RelayTypeOK, Own
<1>1. /\ UNCHANGED <<stored, stamp, created, handlers>>
      /\ \A n \in Own : request'[n] = request[n] \/ request[n] = "idle"
      /\ \A n \in Messages \ Own : version'[n] = version[n]
  BY <1>t DEF Refuse, Send, Echo, Heard, ghostVars, discordVars
<1>2. hit \subseteq hit'
  BY HitStays DEF Refuse, Send, Echo, Heard, ghostVars, NoMishap
<1> QED
  BY <1>1, <1>2, QuietStep

LEMMA TickQuiet ==
  ASSUME Tick
  PROVE  \A n \in Messages : StepOn(n)
  BY QuietStep DEF Tick, discordVars, ghostVars

LEMMA SayOn ==
  ASSUME IInv, NEW m \in Messages, Say(m)
  PROVE  \A n \in Messages : StepOn(n)
<1> USE KindsDisjoint
<1>t. /\ version \in [Messages -> 0..MaxVersion]
      /\ stamp \in [Messages -> 0..MaxTime]
  BY DEF IInv, RelayTypeOK
<1>1. /\ m \in Humans \cup Others /\ version[m] = 0
      /\ version' = [version EXCEPT ![m] = 1]
      /\ stamp' = [stamp EXCEPT ![m] = now]
      /\ UNCHANGED <<stored, request, created>>
      /\ handlers' \in {handlers, handlers \cup {Event(m, 1, "announce")}}
      /\ NoMishap \/ Mishap(m)
  <2>1. Event(m, 1, "announce") =
            [op |-> "create", id |-> m, content |-> 1, at |-> "announce"]
    BY DEF Event
  <2>2. Event(m, 1, "announce").id = m
    BY EventFields
  <2> QED
    BY <2>1, <2>2 DEF Say, Echo, StartHandler
<1>2. hit \subseteq hit'
  BY <1>1, HitStays
<1>3. ASSUME NEW n \in Messages, Stamped(n)
      PROVE  stamp'[n] = stamp[n] /\ Stamped(n)'
  <2>1. n # m
    BY <1>1, <1>3 DEF Stamped
  <2> QED
    BY <1>t, <1>1, <1>3, <2>1 DEF Stamped
<1>4. ASSUME NEW n \in Humans, NEW a \in Stages, Event(n, 1, a) \in handlers'
      PROVE  Event(n, 1, a) \in handlers \/ (version[n] = 0 /\ a = "announce")
  BY <1>1, <1>4, EventsDiffer
<1> QED
  BY <1>1, <1>2, <1>3, <1>4 DEF StepOn, Stages

\* Of another message nothing changes that matters here.
LEMMA UnconcernedStep ==
  ASSUME NEW n \in Messages, Unconcerned(n), stamp'[n] = stamp[n],
         n \in Humans => n \notin Own
  PROVE  StepOn(n)
<1> USE KindsDisjoint
<1>1. 1 \in 1..MaxVersion
  OBVIOUS
<1>2. Stamped(n) => Stamped(n)'
  BY DEF Unconcerned, Untouched, Stamped
<1> QED
  BY <1>1, <1>2 DEF Unconcerned, Untouched, StepOn, Stages

LEMMA AnnounceOn ==
  ASSUME IInv, NEW h \in handlers, Announce(h)
  PROVE  \A n \in Messages : StepOn(n)
<1> USE KindsDisjoint
<1> DEFINE m == h.id
<1>0. PICK g : g = [h EXCEPT !.at = "store"]
  OBVIOUS
<1>1. /\ m \in Messages /\ h.at = "announce"
      /\ UNCHANGED <<version, stored, stamp, request>>
      /\ handlers' = (handlers \ {h}) \cup {g}
      /\ \/ created'[m] = IF h.op = "create" THEN created[m] + 1 ELSE created[m]
         \/ m \in hit'
      /\ m \in hit => m \in hit'
      /\ \A n \in Messages \ {m} : Unconcerned(n)
  BY <1>0, AnnounceEffects
<1>t. created[m] \in Nat /\ request \in [Own -> {"idle", "sent", "recorded", "done", "failed"}]
  BY <1>1 DEF IInv, RelayTypeOK, Own
<1>2. StepOn(m)
  <2>1. Stamped(m) => Stamped(m)'
    BY <1>1 DEF Stamped
  <2>2. ASSUME NEW a \in Stages, Event(m, 1, a) \in handlers', Event(m, 1, a) \notin handlers
        PROVE  /\ a = "store" /\ Event(m, 1, "announce") \in handlers
               /\ created'[m] > created[m] \/ m \in hit'
    <3>1. Event(m, 1, a) = g
      BY <1>1, <2>2
    <3>2. a = "store" /\ h.op = "create" /\ h = Event(m, 1, "announce")
      <4>1. IInv => HandlersReal /\ deleted \subseteq Messages
        BY DEF IInv, RelayTypeOK
      <4>2. \/ \E c \in 1..version[m] : h = Event(m, c, "announce")
            \/ h = Deletion(m, "announce")
            \/ h = Link(m, "announce")
        BY <1>1, <4>1, HandlerKinds
      <4>3. CASE h = Deletion(m, "announce")
        <5>1. g = Deletion(m, "store")
          BY <1>0, <4>3, DeletionFields
        <5> QED
          BY <3>1, <5>1, KindsDiffer
      <4>4. CASE h = Link(m, "announce")
        <5>1. g = Link(m, "store")
          BY <1>0, <4>4, DeletionFields
        <5> QED
          BY <3>1, <5>1, KindsDiffer
      <4>5. ASSUME NEW c \in 1..version[m], h = Event(m, c, "announce")
            PROVE  a = "store" /\ h.op = "create" /\ h = Event(m, 1, "announce")
        <5>1. g = Event(m, c, "store") /\ c \in Nat
          BY <1>0, <4>5, EventFields DEF IInv, RelayTypeOK
        <5>2. c = 1 /\ a = "store"
          BY <3>1, <5>1, EventsDiffer
        <5> QED
          BY <4>5, <5>2, EventFields
      <4> QED
        BY <4>2, <4>3, <4>4, <4>5
    <3> QED
      BY <1>1, <1>t, <3>2
  <2> QED
    BY <1>1, <2>1, <2>2 DEF StepOn, Stages
<1>3. ASSUME NEW n \in Messages \ {m}
      PROVE  StepOn(n)
  BY <1>1, UnconcernedStep
<1> QED
  BY <1>2, <1>3

LEMMA StoreOn ==
  ASSUME IInv, NEW h \in handlers, Store(h)
  PROVE  \A n \in Messages : StepOn(n)
<1> USE KindsDisjoint
<1> DEFINE m == h.id
<1>1. /\ m \in Messages /\ h.at = "store"
      /\ UNCHANGED <<version, stamp, request, created>>
      /\ handlers' = handlers \ {h}
      /\ \/ stored'[m] =
                IF h.op = "update" /\ (stored[m] = Absent \/ h.content = Blank)
                THEN stored[m] ELSE h.content
         \/ stored'[m] = stored[m]
      /\ m \in hit => m \in hit'
      /\ \A n \in Messages \ {m} : Unconcerned(n)
  BY StoreEffects
<1>2. Stamped(m) => Stamped(m)'
  BY <1>1 DEF Stamped
<1>3. ASSUME stored[m] = Absent, stored'[m] # Absent
      PROVE  /\ m \in Humans /\ Stamped(m)'
             /\ Event(m, 1, "store") \in handlers
             /\ \A a \in Stages : Event(m, 1, a) \notin handlers'
  <2>1. HandlersReal /\ deleted \subseteq Messages /\ version[m] \in Nat
        /\ HandledOnce(m)
    BY <1>1 DEF IInv, RelayTypeOK, MessageInv
  <2>2. \/ m \in Humans /\ \E c \in 1..version[m] : h = Event(m, c, "store")
        \/ h = Deletion(m, "store")
        \/ h = Link(m, "store")
    BY <1>1, <2>1, HandlerKinds
  <2>3. h.op # "update" /\ h.content # Absent
    BY <1>1, <1>3
  <2>4. h # Deletion(m, "store") /\ h # Link(m, "store")
    BY <2>3, DeletionFields DEF Absent
  <2>5. PICK c \in 1..version[m] : m \in Humans /\ h = Event(m, c, "store")
    BY <2>2, <2>4
  <2>6. c = 1
    BY <2>3, <2>5, EventFields
  <2>7. Stamped(m)'
    BY <1>1, <2>1, <2>5 DEF Stamped
  <2>8. Event(m, 1, "store") \in handlers /\ Event(m, 1, "store") \notin handlers'
    BY <1>1, <2>5, <2>6
  <2>9. Event(m, 1, "announce") \notin handlers
    BY <2>1, <2>8 DEF HandledOnce
  <2> QED
    BY <1>1, <2>5, <2>7, <2>8, <2>9 DEF Stages
<1>4. StepOn(m)
  BY <1>1, <1>2, <1>3 DEF StepOn
<1>5. ASSUME NEW n \in Messages \ {m}
      PROVE  StepOn(n)
  BY <1>1, UnconcernedStep
<1> QED
  BY <1>4, <1>5

LEMMA RecordOn ==
  ASSUME IInv, NEW m \in Own, Record(m)
  PROVE  \A n \in Messages : StepOn(n)
<1> USE KindsDisjoint
<1>t. /\ request \in [Own -> {"idle", "sent", "recorded", "done", "failed"}]
      /\ stamp \in [Messages -> 0..MaxTime] /\ stored \in [Messages -> Contents]
  BY DEF IInv, RelayTypeOK, Own
<1>1. /\ request[m] = "sent"
      /\ request' = [request EXCEPT ![m] =
                        IF m \in Posts THEN "recorded" ELSE "done"]
      /\ stamp' = [stamp EXCEPT ![m] = now]
      /\ stored' = [stored EXCEPT ![m] = 1] \/ stored' = stored
      /\ NoMishap \/ Mishap(m)
      /\ UNCHANGED <<version, handlers, created>>
  BY DEF Record, discordVars
<1>2. hit \subseteq hit'
  BY <1>1, HitStays
<1>3. request'[m] = IF m \in Posts THEN "recorded" ELSE "done"
  BY <1>t, <1>1
<1>4. StepOn(m)
  <2>1. ~Stamped(m) /\ Stamped(m)'
    BY <1>1, <1>3 DEF Stamped
  <2> QED
    BY <1>1, <1>2, <1>3, <2>1 DEF StepOn
<1>5. ASSUME NEW n \in Messages \ {m}
      PROVE  StepOn(n)
  <2>1. /\ stamp'[n] = stamp[n] /\ stored'[n] = stored[n]
        /\ n \in Own => request'[n] = request[n]
    BY <1>t, <1>1
  <2>2. Stamped(n) => Stamped(n)'
    BY <1>1, <2>1 DEF Stamped
  <2> QED
    BY <1>1, <1>2, <2>1, <2>2 DEF StepOn
<1> QED
  BY <1>4, <1>5

LEMMA AnnouncePostOn ==
  ASSUME IInv, NEW m \in Own, AnnouncePost(m)
  PROVE  \A n \in Messages : StepOn(n)
<1> USE KindsDisjoint
<1>t. /\ request \in [Own -> {"idle", "sent", "recorded", "done", "failed"}]
      /\ created \in [Messages -> Nat]
  BY DEF IInv, RelayTypeOK, Own
<1>1. /\ request[m] = "recorded"
      /\ request' = [request EXCEPT ![m] = "done"]
      /\ UNCHANGED <<version, stored, stamp, handlers>>
      /\ \/ created' = [created EXCEPT ![m] = @ + 1] /\ NoMishap
         \/ Mishap(m)
  BY DEF AnnouncePost, Tell, discordVars
<1>2. hit \subseteq hit' /\ (Mishap(m) => m \in hit')
  BY <1>1, HitStays DEF Mishap
<1>3. created'[m] > created[m] \/ m \in hit'
  BY <1>t, <1>1, <1>2
<1>4. ASSUME NEW n \in Messages, Stamped(n)
      PROVE  Stamped(n)'
  BY <1>t, <1>1, <1>4 DEF Stamped
<1>5. \A n \in Own \ {m} : request'[n] = request[n]
  BY <1>t, <1>1
<1> QED
  BY <1>1, <1>2, <1>3, <1>4, <1>5 DEF StepOn

\* Every step of the relay, and of the clock.
LEMMA RelayOn ==
  ASSUME IInv, RelayStep \/ Tick
  PROVE  \A n \in Messages : StepOn(n)
<1>1. ASSUME NEW m \in Messages, Say(m) \/ Edit(m) \/ Unfurl(m) \/ Delete(m)
      PROVE  \A n \in Messages : StepOn(n)
  BY <1>1, SayOn, GatewayQuiet
<1>2. ASSUME NEW m \in Own, Refuse(m) \/ Send(m) \/ Record(m) \/ AnnouncePost(m)
      PROVE  \A n \in Messages : StepOn(n)
  BY <1>2, RefuseQuiet, RecordOn, AnnouncePostOn
<1>3. ASSUME NEW h \in handlers, Announce(h) \/ Store(h)
      PROVE  \A n \in Messages : StepOn(n)
  BY <1>3, AnnounceOn, StoreOn
<1> QED
  BY <1>1, <1>2, <1>3, TickQuiet DEF RelayStep, HandlerStep, RequestStep, Own

\* The clock is read by no part of the relay's invariant.
LEMMA RelayInvStays ==
  ASSUME IInv, RelayStep \/ Tick \/ UNCHANGED relayVars
  PROVE  IInv'
<1>1. CASE Tick
  <2>t. /\ RelayTypeOK /\ HandlersReal /\ \A m \in Messages : MessageInv(m)
        /\ now' = now + 1 /\ now < MaxTime
        /\ UNCHANGED <<version, deleted, stored, stamp, told, handlers, request,
                       changes, mishaps, created, crossed, hit>>
    BY <1>1 DEF IInv, Tick, discordVars, ghostVars
  <2>1. RelayTypeOK'
    <3>1. now' \in 0..MaxTime
      BY <2>t, KindsDisjoint DEF RelayTypeOK
    <3> QED
      BY <2>t, <3>1 DEF RelayTypeOK
  <2>2. HandlersReal'
    BY <2>t DEF HandlersReal, IsHandler
  <2>3. ASSUME NEW m \in Messages
        PROVE  MessageInv(m)'
    <3>1. Unconcerned(m)
      BY <2>t DEF Unconcerned, Untouched
    <3> QED
      BY <2>t, <3>1, UnconcernedKept, KindsDisjoint DEF RelayTypeOK
  <2> QED
    BY <2>1, <2>2, <2>3 DEF IInv
<1> QED
  BY <1>1, InvNext DEF RelayNext

-----------------------------------------------------------------------------
(* The terminal's invariant.                                               *)

LEMMA HistoryInit ==
  ASSUME Init
  PROVE  HistoryInv
<1>1. IInv /\ RelayTypeOK
  BY InvInit DEF Init, IInv
<1>2. Rows = {} /\ got = {} /\ owed = {}
  BY DEF Init, RelayInit, TerminalInit, Rows
<1>3. TypeOK
  BY <1>1 DEF Init, TerminalInit, TypeOK, Bound
<1>4. BoundsStamped
  BY <1>2 DEF Init, TerminalInit, BoundsStamped
<1>5. OwedStored
  BY <1>2 DEF OwedStored
<1>6. ReadSoFar /\ Followed
  BY DEF Init, TerminalInit, ReadSoFar, Followed
<1>7. StoredByCreation
  BY DEF Init, RelayInit, StoredByCreation
<1> QED
  BY <1>1, <1>3, <1>4, <1>5, <1>6, <1>7 DEF HistoryInv

\* What the terminal has fetched and is owed keeps its times, whatever the relay does.
LEMMA TimesStay ==
  ASSUME BoundsStamped, OwedStored, \A n \in Messages : StepOn(n), TypeOK,
         UNCHANGED <<got, by, before, after>>
  PROVE  /\ \A m \in got \cup owed : stamp'[m] = stamp[m] /\ (Ahead(m)' <=> Ahead(m))
         /\ \A m \in got : GivenAgain(m)' <=> GivenAgain(m)
         /\ \A m \in got \cup owed : SameTime(m)' <=> SameTime(m)
<1>1. \A m \in Messages : Stamped(m) => stamp'[m] = stamp[m]
  BY DEF StepOn
<1>2. \A m \in got \cup owed : stamp'[m] = stamp[m]
  <2>1. \A m \in got \cup owed : m \in Messages /\ Stamped(m)
    BY DEF BoundsStamped, OwedStored, TypeOK
  <2> QED
    BY <1>1, <2>1
<1>3. /\ before # None => stamp'[before] = stamp[before]
      /\ after # None => stamp'[after] = stamp[after]
  BY <1>1 DEF BoundsStamped, TypeOK, Bound
<1>4. \A m \in got \cup owed : Text(m)' = Text(m)
  BY <1>2 DEF Text
<1>5. /\ before # None => BoundText(before)' = BoundText(before)
      /\ after # None => BoundText(after)' = BoundText(after)
  BY <1>3 DEF BoundText, Text
<1>6. \A m \in got \cup owed : Ahead(m)' <=> Ahead(m)
  BY <1>4, <1>5 DEF Ahead, OlderThan, NewerThan, Sorts
<1>7. \A m \in got : GivenAgain(m)' <=> GivenAgain(m)
  BY <1>2, <1>3, <1>4 DEF GivenAgain
<1> QED
  BY <1>2, <1>6, <1>7 DEF SameTime

LEMMA FollowKeeps ==
  ASSUME HistoryInv, RelayStep \/ Tick, Follow
  PROVE  HistoryInv'
<1> USE KindsDisjoint
<1>t. /\ IInv /\ TypeOK /\ BoundsStamped /\ OwedStored /\ ReadSoFar
      /\ StoredByCreation /\ Followed
      /\ \A n \in Messages : StepOn(n)
      /\ IInv' /\ RelayTypeOK'
  <2>1. IInv'
    BY RelayInvStays DEF HistoryInv
  <2> QED
    BY <2>1, RelayOn DEF HistoryInv, IInv
<1>f. /\ owed' = {m \in owed : stored'[m] # Absent}
      /\ live' = IF watching THEN live \cup {m \in Messages : created'[m] > created[m]}
                 ELSE live
      /\ UNCHANGED <<watching, reading, by, before, after, got, cutShort,
                     whole, gap>>
  BY DEF Follow
<1>1. TypeOK'
  BY <1>t, <1>f DEF TypeOK, Bound
<1>2. ASSUME NEW m \in Messages, Stamped(m)
      PROVE  Stamped(m)'
  BY <1>t, <1>2 DEF StepOn
<1>3. BoundsStamped'
  <2>1. ASSUME NEW m \in Rows'
        PROVE  Stamped(m)'
    <3>1. m \in Messages /\ stored'[m] # Absent
      BY DEF Rows
    <3>2. CASE stored[m] = Absent
      BY <1>t, <3>1, <3>2 DEF StepOn
    <3>3. CASE stored[m] # Absent
      BY <1>t, <1>2, <3>1, <3>3 DEF BoundsStamped, Rows
    <3> QED
      BY <3>2, <3>3
  <2>2. \A m \in got' : Stamped(m)'
    BY <1>t, <1>f, <1>2 DEF BoundsStamped, TypeOK
  <2>3. (before # None => Stamped(before))' /\ (after # None => Stamped(after))'
    <3>1. /\ before # None => before \in Messages /\ Stamped(before)
          /\ after # None => after \in Messages /\ Stamped(after)
      BY <1>t DEF BoundsStamped, TypeOK, Bound
    <3> QED
      BY <1>2, <1>f, <3>1
  <2> QED
    BY <1>f, <2>1, <2>2, <2>3 DEF BoundsStamped
<1>4. OwedStored'
  BY <1>t, <1>f DEF TypeOK, Rows, OwedStored
<1>5. ReadSoFar'
  <2>1. /\ \A m \in got \cup owed : stamp'[m] = stamp[m] /\ (Ahead(m)' <=> Ahead(m))
        /\ \A m \in got : GivenAgain(m)' <=> GivenAgain(m)
        /\ \A m \in got \cup owed : SameTime(m)' <=> SameTime(m)
    BY <1>t, <1>f, TimesStay
  <2>2. \A m \in owed : Skipped(m)' <=> Skipped(m)
    BY <1>f, <2>1 DEF Skipped, SameTime
  <2> QED
    BY <1>t, <1>f, <2>1, <2>2 DEF ReadSoFar
<1>6. ASSUME NEW m \in Humans, stored[m] # Absent, NEW a \in Stages
      PROVE  Event(m, 1, a) \notin handlers'
  <2>1. m \in Messages /\ Stamped(m)
    BY <1>t, <1>6 DEF BoundsStamped, Rows
  <2>2. version[m] # 0
    BY <2>1 DEF Stamped
  <2> QED
    BY <1>t, <1>6, <2>1, <2>2 DEF StepOn, StoredByCreation, Stages
<1>7. StoredByCreation'
  <2>1. ASSUME NEW m \in Humans, NEW a \in Stages, Event(m, 1, a) \in handlers'
        PROVE  stored'[m] = Absent
    BY <1>t, <1>6, <2>1 DEF StepOn
  <2> QED
    BY <2>1 DEF StoredByCreation
<1>8. ASSUME reading # "idle", NEW m \in Messages, created'[m] > created[m]
      PROVE  m \in live'
  BY <1>t, <1>f, <1>8 DEF Followed
<1>9. ASSUME reading # "idle", whole = TRUE, NEW m \in Humans
      PROVE  HumanFollowed(m)'
  <2> SUFFICES ASSUME m \notin owed', m \notin gap, m \notin hit', m \notin live'
               PROVE  stored'[m] = Absent /\ Event(m, 1, "store") \notin handlers'
    BY <1>f DEF HumanFollowed
  <2>0. m \in Messages /\ m \notin hit /\ m \notin live /\ StepOn(m)
    BY <1>t, <1>f DEF StepOn
  <2>1. CASE m \in owed
    <3>1. stored[m] # Absent /\ stored'[m] = Absent
      BY <1>t, <1>f, <2>1 DEF OwedStored, Rows
    <3> QED
      BY <1>6, <3>1 DEF Stages
  <2>2. CASE m \notin owed
    <3>1. stored[m] = Absent /\ Event(m, 1, "store") \notin handlers
      BY <1>t, <1>9, <2>0, <2>2 DEF Followed, HumanFollowed
    <3> QED
      BY <1>8, <1>9, <2>0, <3>1 DEF StepOn
  <2> QED
    BY <2>1, <2>2
<1>10. ASSUME reading # "idle", whole = TRUE, NEW m \in Posts
       PROVE  PostFollowed(m)'
  <2> SUFFICES ASSUME m \notin owed', m \notin hit', m \notin live'
               PROVE  stored'[m] = Absent \/ request'[m] = "recorded"
    BY DEF PostFollowed
  <2>0. m \in Messages /\ m \notin hit /\ m \notin live /\ StepOn(m)
    BY <1>t, <1>f DEF StepOn
  <2>1. CASE m \in owed
    BY <1>f, <2>1
  <2>2. CASE m \notin owed
    <3>1. stored[m] = Absent \/ request[m] = "recorded"
      BY <1>t, <1>10, <2>0, <2>2 DEF Followed, PostFollowed
    <3> QED
      BY <1>8, <1>10, <2>0, <3>1 DEF StepOn
  <2> QED
    BY <2>1, <2>2
<1>11. Followed'
  BY <1>t, <1>f, <1>9, <1>10 DEF Followed
<1> QED
  BY <1>t, <1>1, <1>3, <1>4, <1>5, <1>7, <1>11 DEF HistoryInv

\* Steps of the terminal leave the relay alone.
LEMMA RelayAlone ==
  ASSUME HistoryInv, UNCHANGED relayVars
  PROVE  /\ UNCHANGED <<version, stored, stamp, handlers, request, created, hit>>
         /\ Rows' = Rows /\ (\A m : Stamped(m)' <=> Stamped(m))
         /\ IInv' /\ RelayTypeOK' /\ StoredByCreation'
<1>1. UNCHANGED <<version, stored, stamp, handlers, request, created, hit>>
  BY DEF relayVars, discordVars, ghostVars
<1>2. IInv' /\ RelayTypeOK'
  <2>1. IInv'
    BY RelayInvStays DEF HistoryInv
  <2> QED
    BY <2>1 DEF IInv
<1> QED
  BY <1>1, <1>2 DEF HistoryInv, Rows, Stamped, StoredByCreation

LEMMA WatchKeeps ==
  ASSUME HistoryInv, Watch \/ UNCHANGED vars
  PROVE  HistoryInv'
<1>1. /\ UNCHANGED relayVars
      /\ UNCHANGED <<live, reading, by, before, after, got, cutShort, owed,
                     whole, gap>>
      /\ watching' = TRUE \/ watching' = watching
  BY DEF Watch, vars, terminalVars
<1>2. /\ UNCHANGED <<version, stored, stamp, handlers, request, created, hit>>
      /\ Rows' = Rows /\ (\A m : Stamped(m)' <=> Stamped(m))
      /\ IInv' /\ RelayTypeOK' /\ StoredByCreation'
  BY <1>1, RelayAlone
<1>t. TypeOK /\ BoundsStamped /\ OwedStored /\ ReadSoFar /\ Followed
  BY DEF HistoryInv
<1>3. TypeOK'
  BY <1>1, <1>2, <1>t DEF TypeOK, Bound
<1>4. BoundsStamped' /\ OwedStored'
  BY <1>1, <1>2, <1>t DEF BoundsStamped, OwedStored
<1>5. ReadSoFar'
  <2>1. \A m : Ahead(m)' <=> Ahead(m)
    BY <1>1, <1>2 DEF Ahead, OlderThan, NewerThan, Sorts, BoundText, Text
  <2>2. \A m : GivenAgain(m)' <=> GivenAgain(m)
    BY <1>1, <1>2 DEF GivenAgain, Text
  <2>3. \A m : (SameTime(m)' <=> SameTime(m)) /\ (Skipped(m)' <=> Skipped(m))
    BY <1>1, <1>2 DEF SameTime, Skipped
  <2> QED
    BY <1>1, <1>t, <2>1, <2>2, <2>3 DEF ReadSoFar
<1>6. Followed'
  BY <1>1, <1>2, <1>t DEF Followed, HumanFollowed, PostFollowed
<1> QED
  BY <1>2, <1>3, <1>4, <1>5, <1>6 DEF HistoryInv

LEMMA AskKeeps ==
  ASSUME HistoryInv, NEW how \in {"id", "time"}, NEW a \in Rows \cup {None}, Ask(how, a)
  PROVE  HistoryInv'
<1> USE KindsDisjoint
<1>1. /\ UNCHANGED relayVars
      /\ watching = TRUE /\ reading = "idle"
      /\ reading' = "more" /\ by' = how /\ before' = None /\ after' = a
      /\ owed' = {m \in Rows : a = None \/ stamp[m] > stamp[a]}
      /\ whole' = (a = None)
      /\ gap' = {m \in Messages : \E h \in handlers :
                      h.id = m /\ h.op = "create" /\ h.at = "store"}
      /\ UNCHANGED <<watching, live, got, cutShort>>
  <2>1. watching = TRUE
    BY DEF Ask, HistoryInv, TypeOK
  <2> QED
    BY <2>1 DEF Ask
<1>2. /\ UNCHANGED <<version, stored, stamp, handlers, request, created, hit>>
      /\ Rows' = Rows /\ (\A m : Stamped(m)' <=> Stamped(m))
      /\ IInv' /\ RelayTypeOK' /\ StoredByCreation'
  BY <1>1, RelayAlone
<1>t. TypeOK /\ BoundsStamped /\ OwedStored /\ ReadSoFar /\ Followed
  BY DEF HistoryInv
<1>3. TypeOK'
  <2>1. owed' \subseteq Messages /\ after' \in Bound /\ gap' \subseteq Messages
    BY <1>1 DEF Rows, Bound
  <2>2. whole' \in BOOLEAN
    BY <1>1
  <2> QED
    BY <1>1, <1>2, <1>t, <2>1, <2>2 DEF TypeOK, Bound
<1>4. BoundsStamped'
  BY <1>1, <1>2, <1>t DEF BoundsStamped
<1>5. OwedStored'
  BY <1>1, <1>2, <1>t DEF OwedStored
<1>6. ReadSoFar'
  <2>1. got' = {} /\ cutShort' = FALSE
    BY <1>1, <1>t DEF ReadSoFar
  <2>2. ASSUME NEW m \in owed'
        PROVE  Ahead(m)'
    <3>1. a = None \/ stamp'[a] < stamp'[m]
      <4>1. m \in Messages /\ (a = None \/ a \in Messages)
        BY <1>1, <2>2 DEF Rows
      <4>2. stamp \in [Messages -> 0..MaxTime]
        BY DEF HistoryInv, TypeOK, RelayTypeOK
      <4> QED
        BY <1>1, <1>2, <2>2, <4>1, <4>2
    <3> QED
      BY <1>1, <3>1
      DEF Ahead, OlderThan, NewerThan, Sorts, BoundText, Text
  <2> QED
    BY <1>1, <2>1, <2>2 DEF ReadSoFar
<1>7. ASSUME whole' = TRUE, NEW m \in Messages, m \notin owed'
      PROVE  stored[m] = Absent
  BY <1>1, <1>7 DEF Rows
<1>8. ASSUME whole' = TRUE, NEW m \in Humans
      PROVE  HumanFollowed(m)'
  <2>1. ASSUME Event(m, 1, "store") \in handlers
        PROVE  m \in gap'
    <3>1. PICK h : h \in handlers /\ h = Event(m, 1, "store")
      BY <2>1
    <3>2. h.id = m /\ h.op = "create" /\ h.at = "store"
      BY <3>1, EventFields
    <3> QED
      BY <1>1, <3>1, <3>2
  <2> QED
    BY <1>2, <1>7, <1>8, <2>1 DEF HumanFollowed
<1>9. ASSUME whole' = TRUE, NEW m \in Posts
      PROVE  PostFollowed(m)'
  BY <1>2, <1>7, <1>9 DEF PostFollowed
<1>10. Followed'
  BY <1>1, <1>8, <1>9 DEF Followed
<1> QED
  BY <1>2, <1>3, <1>4, <1>5, <1>6, <1>10 DEF HistoryInv

-----------------------------------------------------------------------------
(* A page.                                                                 *)

\* What a page contains lay ahead, and a page that is not full has all of it.
LEMMA PageFacts ==
  ASSUME HistoryInv, NEW P \in Pages
  PROVE  /\ P \subseteq Rows /\ P \subseteq Messages
         /\ \A m \in P : Ahead(m)
         /\ ~HasMore(P) => P = Selected
         /\ P # {} => Known(before) /\ Known(after)
         /\ P = {} => P = Selected /\ ~HasMore(P)
         /\ \A m \in P, n \in Selected \ P : Precedes(m, n)
<1>1. /\ P \in SUBSET Selected
      /\ Cardinality(P) = Limit \/ P = Selected
      /\ \A m \in P, n \in Selected \ P : Precedes(m, n)
  BY DEF Pages
<1>2. \A m \in Selected : m \in Rows /\ Ahead(m) /\ Known(before) /\ Known(after)
  BY DEF Selected, Ahead
<1>3. P = {} => Cardinality(P) # Limit
  BY FS_EmptySet, HistoryAssumption
<1> QED
  BY <1>1, <1>2, <1>3 DEF HasMore, Rows

\* Texts are ordered by the instant, then by the zone; those of the bounds of a
\* request by id are those of rows.
LEMMA TextOrder ==
  ASSUME RelayTypeOK
  PROVE  /\ \A m \in Messages : stamp[m] \in Int /\ Text(m).zone \in Int
         /\ \A m, n \in Messages :
                Sorts(Text(m), Text(n)) <=>
                    \/ stamp[m] < stamp[n]
                    \/ stamp[m] = stamp[n] /\ Text(m).zone < Text(n).zone
         /\ by = "time" =>
                \A m, n \in Messages :
                    /\ Sorts(Text(m), BoundText(n)) <=>
                           \/ stamp[m] < stamp[n]
                           \/ stamp[m] = stamp[n] /\ Text(m).zone < UTC
<1> USE KindsDisjoint
<1>1. \A m \in Messages : stamp[m] \in Int
  BY DEF RelayTypeOK
<1>2. ASSUME NEW m \in Messages
      PROVE  Text(m).zone \in Int /\ Text(m).time = stamp[m]
  BY HistoryAssumption DEF Text, UTC, Messages
<1>3. by = "time" => \A n : BoundText(n).time = stamp[n] /\ BoundText(n).zone = UTC
  BY DEF BoundText
<1> QED
  BY <1>1, <1>2, <1>3 DEF Sorts

\* The next page begins where this one ends, but for what is given again.
LEMMA NextPageAhead ==
  ASSUME HistoryInv, reading = "more", UNCHANGED <<stamp, by>>,
         NEW P \in Pages, NEW last \in P, \A m \in P : Precedes(m, last),
         before' = IF Ascending THEN before ELSE last,
         after' = IF Ascending THEN last ELSE after
  PROVE  /\ \A g \in got \cup P : Ahead(g)' => GivenAgain(g)'
         /\ \A m \in Selected \ P : stamp[last] = stamp[m] \/ Ahead(m)'
<1>t. /\ TypeOK /\ RelayTypeOK /\ None \notin Messages
      /\ P \subseteq Messages /\ got \subseteq Messages /\ last \in Messages
      /\ Ahead(last)
      /\ \A m \in Selected \ P : Precedes(last, m)
      /\ \A g \in got : Ahead(g) => GivenAgain(g)
      /\ by \in {"id", "time"}
  BY PageFacts, HistoryAssumption DEF HistoryInv, TypeOK, ReadSoFar
<1>s. /\ \A m \in Messages : stamp[m] \in Int /\ Text(m).zone \in Int
      /\ \A m, n \in Messages :
             Sorts(Text(m), Text(n)) <=>
                 \/ stamp[m] < stamp[n]
                 \/ stamp[m] = stamp[n] /\ Text(m).zone < Text(n).zone
  BY <1>t, TextOrder
<1>m. \A m \in Selected : m \in Messages /\ Ahead(m)
  BY DEF Selected, Ahead, Rows
<1>x. \A m : Text(m)' = Text(m) /\ BoundText(m)' = BoundText(m)
  BY DEF Text, BoundText
<1>1. CASE Ascending
  <2>1. /\ before = None /\ before' = None /\ after # None /\ after' = last
        /\ after \in Messages /\ last # None /\ by = "id"
    BY <1>t, <1>1 DEF Ascending, TypeOK, Bound
  <2>2. \A m : /\ Ahead(m) <=> Sorts(Text(after), Text(m))
               /\ Ahead(m)' <=> Sorts(Text(last), Text(m))
    BY <1>x, <2>1 DEF Ahead, OlderThan, NewerThan, BoundText, Sorts
  <2>3. \A m \in P : ~Sorts(Text(last), Text(m))
    BY <1>1 DEF Precedes
  <2>4. \A m \in Selected \ P : ~Sorts(Text(m), Text(last))
    BY <1>t, <1>1 DEF Precedes
  <2>5. \A g \in got : ~Sorts(Text(after), Text(g))
    BY <1>t, <2>1, <2>2 DEF GivenAgain
  <2>6. Sorts(Text(after), Text(last))
    BY <1>t, <2>2
  <2>7. \A g \in got \cup P : ~Sorts(Text(last), Text(g))
    BY <1>t, <1>s, <2>1, <2>3, <2>5, <2>6
  <2>8. \A m \in Selected \ P : stamp[last] = stamp[m] \/ Sorts(Text(last), Text(m))
    BY <1>t, <1>s, <1>m, <2>4
  <2> HIDE DEF Ahead
  <2> QED
    BY <2>2, <2>7, <2>8
<1>2. CASE ~Ascending
  <2>1. before' = last /\ last # None /\ after' = after
        /\ (before # None => before \in Messages) /\ (after # None => after \in Messages)
    BY <1>t, <1>2 DEF TypeOK, Bound
  <2>2. \A m : /\ Ahead(m) <=> /\ before = None \/ Sorts(Text(m), BoundText(before))
                               /\ NewerThan(m)
               /\ Ahead(m)' <=> Sorts(Text(m), BoundText(last)) /\ NewerThan(m)
    BY <1>x, <2>1 DEF Ahead, OlderThan, NewerThan, Sorts
  <2>3. \A m \in P : ~Sorts(Text(m), Text(last))
    BY <1>2 DEF Precedes
  <2>4. \A m \in Selected \ P : ~Sorts(Text(last), Text(m))
    BY <1>t, <1>2 DEF Precedes
  <2>5. CASE by = "id"
    <3>1. \A m : BoundText(m) = Text(m)
      BY <2>5 DEF BoundText
    <3>2. ASSUME NEW g \in got
          PROVE  ~Ahead(g)'
      <4>1. ~Ahead(g)
        BY <1>t, <2>5 DEF GivenAgain
      <4>2. ~NewerThan(g) \/ (before # None /\ ~Sorts(Text(g), Text(before)))
        BY <2>2, <3>1, <4>1
      <4>3. before = None \/ Sorts(Text(last), Text(before))
        BY <1>t, <2>2, <3>1
      <4>4. ~NewerThan(g) \/ ~Sorts(Text(g), Text(last))
        BY <1>t, <1>s, <2>1, <4>2, <4>3
      <4> QED
        BY <2>2, <3>1, <4>4
    <3>3. \A m \in P : ~Ahead(m)'
      BY <2>2, <2>3, <3>1
    <3>4. ASSUME NEW m \in Selected \ P
          PROVE  stamp[last] = stamp[m] \/ Ahead(m)'
      <4>1. stamp[last] = stamp[m] \/ Sorts(Text(m), Text(last))
        BY <1>t, <1>s, <1>m, <2>4
      <4> QED
        BY <1>m, <2>2, <3>1, <4>1
    <3> QED
      BY <3>2, <3>3, <3>4
  <2>6. CASE by = "time"
    <3>1. \A m, n \in Messages :
              Sorts(Text(m), BoundText(n)) <=>
                  \/ stamp[m] < stamp[n]
                  \/ stamp[m] = stamp[n] /\ Text(m).zone < UTC
      BY <1>t, <2>6, TextOrder
    <3>2. \A m : GivenAgain(m)' <=> stamp[m] = stamp[last] /\ Text(m).zone < UTC
      BY <1>x, <2>1, <2>6 DEF GivenAgain
    <3>3. ASSUME NEW g \in got, Ahead(g)', stamp[g] < stamp[last]
          PROVE  FALSE
      <4>1. NewerThan(g)
        BY <2>2, <3>3
      <4>2. before # None => stamp[last] <= stamp[before]
        BY <1>t, <1>s, <2>1, <2>2, <3>1
      <4>3. before # None => stamp[g] < stamp[before]
        BY <1>t, <1>s, <2>1, <3>3, <4>2
      <4>4. Ahead(g)
        BY <1>t, <2>1, <2>2, <3>1, <4>1, <4>3
      <4>5. before # None /\ stamp[g] = stamp[before]
        BY <1>t, <4>4 DEF GivenAgain
      <4> QED
        BY <1>t, <1>s, <2>1, <4>3, <4>5
    <3>4. ASSUME NEW g \in P
          PROVE  ~(stamp[g] < stamp[last])
      BY <1>t, <1>s, <2>3
    <3>5. ASSUME NEW g \in got \cup P, Ahead(g)'
          PROVE  GivenAgain(g)'
      <4>1. \/ stamp[g] < stamp[last]
            \/ stamp[g] = stamp[last] /\ Text(g).zone < UTC
        BY <1>t, <2>2, <3>1, <3>5
      <4> QED
        BY <3>2, <3>3, <3>4, <3>5, <4>1
    <3>6. ASSUME NEW m \in Selected \ P
          PROVE  stamp[last] = stamp[m] \/ Ahead(m)'
      <4>1. stamp[last] = stamp[m] \/ stamp[m] < stamp[last]
        BY <1>t, <1>s, <1>m, <2>4
      <4> QED
        BY <1>t, <1>m, <2>2, <3>1, <4>1
    <3> QED
      BY <3>5, <3>6
  <2> QED
    BY <1>t, <2>5, <2>6
<1> QED
  BY <1>1, <1>2

LEMMA ReadPageKeeps ==
  ASSUME HistoryInv, ReadPage
  PROVE  HistoryInv'
<1>1. /\ reading = "more" /\ UNCHANGED relayVars
      /\ UNCHANGED <<watching, live, by, owed, whole, gap>>
      /\ cutShort' = ~(Known(before) /\ Known(after))
  BY DEF ReadPage
<1>P. PICK P \in Pages :
        /\ got' = got \cup P
        /\ reading' = IF HasMore(P) THEN "more" ELSE "done"
        /\ IF P = {}
           THEN UNCHANGED <<before, after>>
           ELSE \E last \in P :
                    /\ \A m \in P : Precedes(m, last)
                    /\ before' = IF Ascending THEN before ELSE last
                    /\ after' = IF Ascending THEN last ELSE after
  BY DEF ReadPage
<1>2. /\ UNCHANGED <<version, stored, stamp, handlers, request, created, hit>>
      /\ Rows' = Rows /\ (\A m : Stamped(m)' <=> Stamped(m))
      /\ IInv' /\ RelayTypeOK' /\ StoredByCreation'
  BY <1>1, RelayAlone
<1>t. TypeOK /\ BoundsStamped /\ OwedStored /\ ReadSoFar /\ Followed
  BY DEF HistoryInv
<1>p. /\ P \subseteq Rows /\ P \subseteq Messages
      /\ ~HasMore(P) => P = Selected
      /\ P # {} => Known(before) /\ Known(after)
      /\ P = {} => P = Selected /\ ~HasMore(P)
  BY PageFacts
<1>b. /\ before' \in Rows \cup {before} /\ after' \in Rows \cup {after}
  BY <1>P, <1>p
<1>3. TypeOK'
  <2>1. before' \in Bound /\ after' \in Bound
    BY <1>b, <1>t DEF Rows, TypeOK, Bound
  <2>2. cutShort' \in BOOLEAN /\ reading' \in {"idle", "more", "done"}
    BY <1>1, <1>P
  <2>3. got' \subseteq Messages
    BY <1>P, <1>p, <1>t DEF TypeOK
  <2> QED
    BY <1>1, <1>2, <1>t, <2>1, <2>2, <2>3 DEF TypeOK, Bound
<1>4. BoundsStamped'
  <2>1. \A m \in Rows' \cup got' : Stamped(m)
    BY <1>P, <1>p, <1>2, <1>t DEF BoundsStamped
  <2>2. (before' # None => Stamped(before')) /\ (after' # None => Stamped(after'))
    BY <1>b, <1>t DEF BoundsStamped
  <2>3. (before' # None => Stamped(before)') /\ (after' # None => Stamped(after)')
    BY <1>2, <2>2 DEF Stamped
  <2> QED
    BY <1>2, <2>1, <2>3 DEF BoundsStamped
<1>5. OwedStored'
  BY <1>1, <1>2, <1>t DEF OwedStored
<1>6. ASSUME NEW m \in owed
      PROVE  m \in got \/ SameTime(m) \/ m \in Selected \/ cutShort' = TRUE
  <2>1. m \in got \/ SameTime(m) \/ (m \in Rows /\ Ahead(m))
    BY <1>1, <1>t, <1>6 DEF ReadSoFar, OwedStored
  <2> QED
    BY <1>1, <2>1 DEF Selected, Ahead
<1>7. \A m : /\ SameTime(m) => SameTime(m)'
             /\ SameTime(m)' => Skipped(m)'
             /\ cutShort' = TRUE => Skipped(m)'
  BY <1>2, <1>P DEF SameTime, Skipped
<1>8. ASSUME HasMore(P)
      PROVE  ReadSoFar'
  <2>1. PICK last \in P :
          /\ \A m \in P : Precedes(m, last)
          /\ before' = IF Ascending THEN before ELSE last
          /\ after' = IF Ascending THEN last ELSE after
    BY <1>8, <1>p, <1>P
  <2>2. /\ \A g \in got \cup P : Ahead(g)' => GivenAgain(g)'
        /\ \A m \in Selected \ P : stamp[last] = stamp[m] \/ Ahead(m)'
    BY <1>1, <1>2, <2>1, NextPageAhead
  <2>3. reading' = "more" /\ cutShort' = FALSE
    BY <1>1, <1>8, <1>p, <1>P
  <2>4. ASSUME NEW m \in owed
        PROVE  m \in got' \/ SameTime(m)' \/ Ahead(m)'
    <3>1. CASE m \in Selected /\ m \notin P
      <4>1. stamp[last] = stamp[m] => SameTime(m)'
        BY <1>2, <1>P DEF SameTime
      <4> QED
        BY <2>2, <3>1, <4>1
    <3> QED
      BY <1>6, <1>7, <1>P, <2>3, <2>4, <3>1
  <2> QED
    BY <1>1, <1>P, <2>2, <2>3, <2>4 DEF ReadSoFar
<1>9. ASSUME ~HasMore(P)
      PROVE  ReadSoFar'
  <2>1. reading' = "done" /\ P = Selected
    BY <1>9, <1>p, <1>P
  <2>2. ASSUME NEW m \in owed
        PROVE  m \in got' \/ Skipped(m)'
    BY <1>6, <1>7, <1>P, <2>1, <2>2
  <2> QED
    BY <1>1, <2>1, <2>2 DEF ReadSoFar
<1>10. ReadSoFar'
  BY <1>8, <1>9
<1>11. Followed'
  BY <1>1, <1>2, <1>t DEF Followed, HumanFollowed, PostFollowed
<1> QED
  BY <1>2, <1>3, <1>4, <1>5, <1>10, <1>11 DEF HistoryInv

LEMMA HistoryNext ==
  ASSUME HistoryInv, [Next]_vars
  PROVE  HistoryInv'
  BY FollowKeeps, WatchKeeps, AskKeeps, ReadPageKeeps DEF Next

\* The invariant of the relay and the terminal together: the pages to come are about
\* what the terminal does not have yet, and about the messages at the bound of a page
\* asked for by time whose text sorts below that of the bound; and what came to the
\* table too late for them is announced to the terminal.
THEOREM HistoryCorrect == Spec => []HistoryInv
<1>1. Init => HistoryInv
  BY HistoryInit
<1>2. HistoryInv /\ [Next]_vars => HistoryInv'
  BY HistoryNext
<1> QED
  BY <1>1, <1>2, PTL DEF Spec

\* No page of GetHistory repeats a message, nor one of GetChannelMessages any but those
\* of GivenAgain, and the last page leaves out nothing that was there all the time but
\* for the two reasons of Skipped: for any limit, any messages and any zone of the
\* host, and however rows come and go between the pages.
THEOREM PagesCompleteCorrect == Spec => []PagesComplete
<1>1. HistoryInv => PagesComplete
  BY DEF HistoryInv, ReadSoFar, PagesComplete, Selected, Ahead
<1> QED
  BY <1>1, HistoryCorrect, PTL

\* A terminal that follows the stream before it reads everything has each stored
\* message, but for the named exceptions, whatever the store and the hub lose.
THEOREM CaughtUpCorrect == Spec => []CaughtUp
<1> USE KindsDisjoint
<1>1. ASSUME HistoryInv, reading = "done", whole = TRUE, NEW m \in Rows
      PROVE  \/ m \in live \cup got
             \/ Skipped(m) \/ m \in gap \/ m \in hit
             \/ m \in Files \ owed
             \/ m \in Posts /\ request[m] = "recorded"
  <2>t. /\ ReadSoFar /\ m \in Messages /\ stored[m] # Absent
        /\ \A n \in Humans : HumanFollowed(n)
        /\ \A n \in Posts : PostFollowed(n)
    BY <1>1 DEF HistoryInv, Followed, Rows
  <2>1. CASE m \in owed
    BY <1>1, <2>t, <2>1 DEF ReadSoFar
  <2>2. CASE m \in Humans /\ m \notin owed
    BY <2>t, <2>2 DEF HumanFollowed
  <2>3. CASE m \in Posts /\ m \notin owed
    BY <2>t, <2>3 DEF PostFollowed
  <2>4. m \notin Others
    BY <1>1, <2>t DEF HistoryInv, IInv, MessageInv, TableOrdered
  <2> QED
    BY <2>t, <2>1, <2>2, <2>3, <2>4 DEF Own
<1>2. HistoryInv => CaughtUp
  BY <1>1 DEF CaughtUp
<1> QED
  BY <1>2, HistoryCorrect, PTL
=============================================================================
