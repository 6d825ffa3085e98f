--------------------------- MODULE PresenceProofs ---------------------------
(***************************************************************************)
(* What a client may conclude from the status shown and from the answer to *)
(* its own request, for any number of requests, any statuses and any       *)
(* debounce time.                                                          *)
(***************************************************************************)
EXTENDS Presence, TLAPS

\* A request is at work on a status, and what it has stored counts as held.
WantsStatus ==
    \A r \in Requests : pc[r] # "idle" => wanted[r] \in Statuses

HeldOnceStored ==
    \A r \in Requests : pc[r] = "broadcast" => held[r] = TRUE

\* Unless a status was stored between the two steps of another request, one
\* request at most is about to announce what it stored, which is then still in
\* the row, and while there is none the row has been announced.
OneAnnouncer ==
    crossed = FALSE =>
        \A r \in Requests, q \in Requests :
            pc[r] = "broadcast" /\ pc[q] = "broadcast" => r = q

AnnouncesRow ==
    crossed = FALSE =>
        \A r \in Requests : pc[r] = "broadcast" => row = wanted[r]

Announced ==
    crossed = FALSE /\ (\A r \in Requests : pc[r] # "broadcast") => shown = row

IInv ==
    /\ TypeOK
    /\ WantsStatus
    /\ HeldOnceStored
    /\ OneAnnouncer
    /\ AnnouncesRow
    /\ Announced

-----------------------------------------------------------------------------

LEMMA InitInv == ASSUME Init PROVE IInv
  <1>1. TypeOK
    <2>1. MaxTime \in Nat /\ MaxStoreErrors \in Nat
      BY PresenceAssumption
    <2>2. now \in 0..MaxTime /\ storeErrors \in 0..MaxStoreErrors
      BY <2>1 DEF Init
    <2>3. last \in [Statuses -> {Never} \cup 0..MaxTime]
      BY DEF Init
    <2> QED
      BY <2>2, <2>3 DEF Init, TypeOK
  <1>2. WantsStatus /\ HeldOnceStored /\ OneAnnouncer /\ AnnouncesRow
    BY DEF Init, WantsStatus, HeldOnceStored, OneAnnouncer, AnnouncesRow
  <1>3. Announced
    BY DEF Init, Announced
  <1> QED
    BY <1>1, <1>2, <1>3 DEF IInv

LEMMA BeginKeeps ==
    ASSUME IInv, NEW r \in Requests, NEW v \in Statuses, Begin(r, v)
    PROVE  IInv'
  <1>1. /\ pc' = [pc EXCEPT ![r] = "check"] /\ pc[r] = "idle"
        /\ wanted' = [wanted EXCEPT ![r] = v]
        /\ held' = [held EXCEPT ![r] = (row = v)]
        /\ answer' = [answer EXCEPT ![r] = "none"]
        /\ UNCHANGED <<now, last, row, shown, storeErrors, crossed>>
    BY DEF Begin, Goto
  <1>2. TypeOK'
    BY <1>1 DEF IInv, TypeOK
  <1>3. \A q \in Requests : q # r =>
            pc'[q] = pc[q] /\ wanted'[q] = wanted[q] /\ held'[q] = held[q]
    BY <1>1 DEF IInv, TypeOK
  <1>4. pc'[r] = "check" /\ wanted'[r] = v
    BY <1>1 DEF IInv, TypeOK
  <1>5. WantsStatus' /\ HeldOnceStored'
    BY <1>3, <1>4 DEF IInv, WantsStatus, HeldOnceStored
  <1>6. OneAnnouncer' /\ AnnouncesRow'
    BY <1>1, <1>3, <1>4 DEF IInv, OneAnnouncer, AnnouncesRow
  <1>7. Announced'
    BY <1>1, <1>3, <1>4 DEF IInv, Announced
  <1> QED
    BY <1>2, <1>5, <1>6, <1>7 DEF IInv

\* A request that moves between two of the other steps, or ends in one, stores
\* and announces nothing.
LEMMA QuietKeeps ==
    ASSUME IInv, NEW r \in Requests, NEW l \in {"idle", "mark", "store"},
           pc[r] # "idle", pc[r] # "broadcast",
           pc' = [pc EXCEPT ![r] = l],
           TypeOK', UNCHANGED <<row, shown, wanted, held, crossed>>
    PROVE  IInv'
  <1>1. \A q \in Requests : q # r => pc'[q] = pc[q]
    BY DEF IInv, TypeOK
  <1>2. pc'[r] = l
    BY DEF IInv, TypeOK
  <1>3. WantsStatus' /\ HeldOnceStored'
    BY <1>1, <1>2 DEF IInv, WantsStatus, HeldOnceStored
  <1>4. OneAnnouncer' /\ AnnouncesRow'
    BY <1>1, <1>2 DEF IInv, OneAnnouncer, AnnouncesRow
  <1>5. Announced'
    BY <1>1, <1>2 DEF IInv, Announced
  <1> QED
    BY <1>3, <1>4, <1>5 DEF IInv

LEMMA CheckKeeps ==
    ASSUME IInv, NEW r \in Requests, Check(r)
    PROVE  IInv'
  <1>1. PICK l \in {"idle", "mark"} : pc' = [pc EXCEPT ![r] = l]
    BY DEF Check, Goto, Answer
  <1>2. TypeOK'
    BY <1>1 DEF Check, Goto, Answer, IInv, TypeOK
  <1> QED
    BY <1>1, <1>2, QuietKeeps DEF Check

LEMMA MarkKeeps ==
    ASSUME IInv, NEW r \in Requests, Mark(r)
    PROVE  IInv'
  <1>1. pc' = [pc EXCEPT ![r] = "store"]
    BY DEF Mark, Goto
  <1>2. wanted[r] \in Statuses
    BY DEF Mark, IInv, WantsStatus
  <1>3. TypeOK'
    BY <1>1, <1>2 DEF Mark, IInv, TypeOK
  <1> QED
    BY <1>1, <1>3, QuietKeeps DEF Mark

LEMMA StoreFailsKeeps ==
    ASSUME IInv, NEW r \in Requests, StoreFails(r)
    PROVE  IInv'
  <1>1. pc' = [pc EXCEPT ![r] = "idle"]
    BY DEF StoreFails, Goto, Answer
  <1>2. TypeOK'
    <2>1. storeErrors' \in 0..MaxStoreErrors
      BY PresenceAssumption DEF StoreFails, IInv, TypeOK
    <2> QED
      BY <1>1, <2>1 DEF StoreFails, Answer, IInv, TypeOK
  <1> QED
    BY <1>1, <1>2, QuietKeeps DEF StoreFails

LEMMA StoreKeeps ==
    ASSUME IInv, NEW r \in Requests, Store(r)
    PROVE  IInv'
  <1>1. /\ pc[r] = "store" /\ pc' = [pc EXCEPT ![r] = "broadcast"]
        /\ row' = wanted[r]
        /\ held' = [q \in Requests |->
                        held[q] \/ (pc[q] # "idle" /\ wanted[q] = row')]
        /\ crossed' = (crossed \/ \E q \in Requests : pc[q] = "broadcast")
        /\ UNCHANGED <<now, last, shown, wanted, answer, storeErrors>>
    BY DEF Store, Goto
  <1>2. wanted[r] \in Statuses
    BY <1>1 DEF IInv, WantsStatus
  <1>3. \A q \in Requests : q # r => pc'[q] = pc[q]
    BY <1>1 DEF IInv, TypeOK
  <1>4. pc'[r] = "broadcast"
    BY <1>1 DEF IInv, TypeOK
  <1>5. TypeOK'
    <2>1. held' \in [Requests -> BOOLEAN] /\ crossed' \in BOOLEAN
      BY <1>1 DEF IInv, TypeOK
    <2> QED
      BY <1>1, <1>2, <2>1 DEF IInv, TypeOK
  <1>6. WantsStatus'
    BY <1>1, <1>2, <1>3 DEF IInv, WantsStatus
  <1>7. HeldOnceStored'
    <2>1. ASSUME NEW q \in Requests, held[q] = TRUE PROVE held'[q] = TRUE
      BY <1>1, <2>1
    <2>2. held'[r] = TRUE
      BY <1>1
    <2> QED
      BY <1>3, <2>1, <2>2 DEF IInv, HeldOnceStored
  <1>8. ASSUME crossed' = FALSE
        PROVE  \A q \in Requests : pc[q] # "broadcast"
    BY <1>1, <1>8
  <1>9. OneAnnouncer'
    BY <1>3, <1>8 DEF OneAnnouncer
  <1>10. AnnouncesRow'
    BY <1>1, <1>3, <1>8 DEF AnnouncesRow
  <1>11. Announced'
    BY <1>4 DEF Announced
  <1> QED
    BY <1>5, <1>6, <1>7, <1>9, <1>10, <1>11 DEF IInv

LEMMA BroadcastKeeps ==
    ASSUME IInv, NEW r \in Requests, Broadcast(r)
    PROVE  IInv'
  <1>1. /\ pc[r] = "broadcast" /\ pc' = [pc EXCEPT ![r] = "idle"]
        /\ shown' = wanted[r]
        /\ answer' = [answer EXCEPT ![r] = "updated"]
        /\ UNCHANGED <<now, last, row, wanted, held, storeErrors, crossed>>
    BY DEF Broadcast, Answer, Goto
  <1>2. TypeOK'
    BY <1>1 DEF IInv, TypeOK
  <1>3. \A q \in Requests : q # r => pc'[q] = pc[q]
    BY <1>1 DEF IInv, TypeOK
  <1>4. pc'[r] = "idle"
    BY <1>1 DEF IInv, TypeOK
  <1>5. WantsStatus' /\ HeldOnceStored'
    BY <1>1, <1>3, <1>4 DEF IInv, WantsStatus, HeldOnceStored
  <1>6. OneAnnouncer' /\ AnnouncesRow'
    BY <1>1, <1>3, <1>4 DEF IInv, OneAnnouncer, AnnouncesRow
  <1>7. Announced'
    BY <1>1 DEF IInv, Announced, AnnouncesRow
  <1> QED
    BY <1>2, <1>5, <1>6, <1>7 DEF IInv

LEMMA NextKeeps ==
    ASSUME IInv, [Next]_vars
    PROVE  IInv'
  <1>1. CASE Tick
    <2>1. TypeOK'
      BY <1>1, PresenceAssumption DEF Tick, IInv, TypeOK
    <2> QED
      BY <1>1, <2>1
      DEF Tick, IInv, WantsStatus, HeldOnceStored, OneAnnouncer, AnnouncesRow,
          Announced
  <1>2. CASE UNCHANGED vars
    BY <1>2
    DEF vars, IInv, TypeOK, WantsStatus, HeldOnceStored, OneAnnouncer,
        AnnouncesRow, Announced
  <1>3. ASSUME NEW r \in Requests, Step(r)
        PROVE  IInv'
    BY <1>3, CheckKeeps, MarkKeeps, StoreKeeps, StoreFailsKeeps, BroadcastKeeps
    DEF Step
  <1> QED
    BY <1>1, <1>2, <1>3, BeginKeeps DEF Next

LEMMA InvCorrect == Spec => []IInv
  <1>1. IInv /\ [Next]_vars => IInv'
    BY NextKeeps
  <1> QED
    BY <1>1, InitInv, PTL DEF Spec

\* A request's status, its place in SetStatus and its answer keep their types,
\* and the clock stays within its bound.
THEOREM TypeCorrect == Spec => []TypeOK
  BY InvCorrect, PTL DEF IInv

\* While no request is at work the status shown is the stored one, for any
\* number of requests and whatever the store refuses, unless one request stored
\* a status between the storing and the announcing of another's.
THEOREM ShownIsStoredCorrect == Spec => []ShownIsStored
  <1>1. IInv => ShownIsStored
    BY DEF IInv, TypeOK, Announced, ShownIsStored
  <1> QED
    BY <1>1, InvCorrect, PTL

\* What an answer tells the client: "failed" that nothing was done, "updated"
\* that the status was stored or had been asked for less than Debounce ago.
THEOREM AnswersAccountedCorrect == Spec => AnswersAccounted
  <1> DEFINE Accounted(r) ==
          \/ answer'[r] = "failed" /\ row' = row /\ shown' = shown
          \/ answer'[r] = "updated" /\ held'[r]
          \/ answer'[r] = "updated" /\ now - last[wanted[r]] < Debounce
  <1>1. ASSUME IInv, Next, NEW r \in Requests, pc[r] # "idle", pc'[r] = "idle"
        PROVE  Accounted(r)
    <2>0. /\ pc \in [Requests -> {"idle", "check", "mark", "store", "broadcast"}]
          /\ answer \in [Requests -> {"none", "updated", "failed"}]
      BY <1>1 DEF IInv, TypeOK
    <2>1. Step(r)
      <3>1. ASSUME NEW q \in Requests, q # r, Step(q) PROVE FALSE
        <4>1. PICK l : pc' = [pc EXCEPT ![q] = l]
          BY <3>1
          DEF Step, Check, Mark, Store, StoreFails, Broadcast, Goto, Answer
        <4> QED
          BY <1>1, <2>0, <3>1, <4>1
      <3>2. ASSUME NEW q \in Requests, NEW v \in Statuses, Begin(q, v) PROVE FALSE
        <4>1. pc' = [pc EXCEPT ![q] = "check"]
          BY <3>2 DEF Begin, Goto
        <4> QED
          BY <1>1, <2>0, <4>1
      <3>3. ~Tick
        BY <1>1 DEF Tick
      <3> QED
        BY <1>1, <3>1, <3>2, <3>3 DEF Next
    <2>2. CASE Check(r)
      <3>1. ShouldDebounce(wanted[r])
        BY <1>1, <2>0, <2>2 DEF Check, Goto
      <3>2. answer'[r] = "updated"
        BY <2>0, <2>2, <3>1 DEF Check, Answer
      <3> QED
        BY <3>1, <3>2 DEF ShouldDebounce
    <2>3. CASE StoreFails(r)
      BY <2>0, <2>3 DEF StoreFails, Answer
    <2>4. CASE Broadcast(r)
      <3>1. answer'[r] = "updated" /\ held' = held /\ pc[r] = "broadcast"
        BY <2>0, <2>4 DEF Broadcast, Answer
      <3>2. held'[r] = TRUE
        BY <1>1, <3>1 DEF IInv, HeldOnceStored
      <3> QED
        BY <3>1, <3>2
    <2>5. ~Mark(r) /\ ~Store(r)
      BY <1>1, <2>0 DEF Mark, Store, Goto
    <2> QED
      BY <2>1, <2>2, <2>3, <2>4, <2>5 DEF Step
  <1> DEFINE Reported == \A r \in Requests :
          (pc[r] # "idle" /\ pc'[r] = "idle") => Accounted(r)
  <1>2. IInv /\ [Next]_vars => [Reported]_vars
    BY <1>1
  <1>3. AnswersAccounted <=> [][Reported]_vars
    BY DEF AnswersAccounted
  <1> HIDE DEF Reported
  <1> QED
    BY <1>2, <1>3, InvCorrect, PTL DEF Spec
=============================================================================
