--------------------------- MODULE SessionsProofs ---------------------------
(***************************************************************************)
(* Theorems about Sessions, for any users, tokens, device codes, durations *)
(* and bounds.                                                             *)
(***************************************************************************)
EXTENDS Sessions, FiniteSetTheorems, TLAPS

\* A token that was made belongs to a login for a flow that was issued.
LoginsNamed ==
    \A t \in Tokens : login[t].stage # "none" =>
        login[t].flow \in issued /\ login[t].user \in Users

\* What is said of a flow holds from the moment it is issued, and a flow is
\* authorized only when the login of its token is done.
FlowsTold ==
    \A f \in Flows : flows[f] # Nothing =>
        /\ f \in issued
        /\ flows[f].expires <= now + FlowDuration
        /\ flows[f].status = "authorized" =>
               /\ flows[f].token \in Tokens
               /\ login[flows[f].token].flow = f
               /\ login[flows[f].token].stage = "done"

\* A session belongs to the login that saved it, after the flow was issued, so it
\* does not expire before the flow; it was seen after it was saved.
RowsOwned ==
    \A t \in Held :
        /\ login[t].stage \in {"update", "done"}
        /\ rows[t].user = login[t].user
        /\ rows[t].seen <= now
        /\ rows[t].expires <= rows[t].seen + SessionDuration
        /\ flows[login[t].flow] # Nothing =>
               flows[login[t].flow].expires <= rows[t].expires

UsedBefore == \A t \in Tokens : used[t] <= now

\* None of the properties is inductive without what ties a row to its login and
\* a flow to the login of its token.
IInv == /\ TypeOK /\ LoginsNamed /\ FlowsTold /\ RowsOwned
        /\ UsedBefore /\ LastSeenCatchesUp

-----------------------------------------------------------------------------
(* Every step keeps it.                                                    *)

LEMMA ConstantsTyped ==
    /\ MaxSessions \in Nat \ {0} /\ SessionDuration \in Nat /\ FlowDuration \in Nat
    /\ IdleLimit \in Nat /\ Offset \in Int
    /\ FlowDuration <= SessionDuration /\ SessionDuration <= IdleLimit
    /\ MaxTime \in Nat /\ MaxPolls \in Nat /\ MaxTouches \in Nat
    /\ MaxStoreErrors \in Nat /\ MaxRestarts \in Nat
    /\ Nothing \notin Users \cup Tokens /\ Nothing \notin Session
    /\ Nothing \notin DeviceFlow
  BY SessionsAssumption

\* A flow is issued, with its expiry counted from now.
LEMMA AuthorizeKeeps ==
  ASSUME IInv, NEW f \in Flows, Authorize(f)
  PROVE  IInv'
<1> USE ConstantsTyped
<1>t. /\ TypeOK /\ LoginsNamed /\ FlowsTold /\ RowsOwned
      /\ UsedBefore /\ LastSeenCatchesUp
  BY DEF IInv
<1>1. TypeOK'
  <2>1. rows' \in [Tokens -> Session \cup {Nothing}]
    BY <1>t DEF TypeOK, LoginsNamed, Session, Authorize, NewFlow
  <2>2. flows' \in [Flows -> DeviceFlow \cup {Nothing}]
    BY <1>t DEF TypeOK, DeviceFlow, Authorize, NewFlow
  <2>3. login' \in [Tokens -> [stage : {"none", "save", "update", "done"},
                             flow : Flows \cup {Nothing},
                             user : Users \cup {Nothing}]]
    BY <1>t DEF TypeOK, Authorize
  <2>4. /\ issued' \subseteq Flows /\ revoking' \subseteq Tokens
        /\ touches' \in [Tokens -> 0..MaxTouches]
        /\ used' \in [Tokens -> 0..MaxTime]
    BY <1>t DEF TypeOK, Authorize, NewFlow
  <2>5. given' \in [Tokens -> 0..MaxPolls]
    BY <1>t DEF TypeOK, FlowsTold, Authorize, NewFlow
  <2>6. /\ now' \in 0..MaxTime /\ storeErrors' \in 0..MaxStoreErrors
        /\ restarts' \in 0..MaxRestarts
    BY <1>t DEF TypeOK, Authorize, NewFlow
  <2> QED
    BY <2>1, <2>2, <2>3, <2>4, <2>5, <2>6 DEF TypeOK
<1>2. LoginsNamed'
  BY <1>t DEF TypeOK, LoginsNamed, Authorize, NewFlow
<1>3. FlowsTold'
  BY <1>t DEF TypeOK, FlowsTold, DeviceFlow, Authorize, NewFlow
<1>4. RowsOwned'
  BY <1>t DEF TypeOK, RowsOwned, LoginsNamed, FlowsTold, Held, Session, DeviceFlow, Authorize, NewFlow
<1>5. UsedBefore'
  BY <1>t DEF TypeOK, UsedBefore, Authorize, NewFlow
<1>6. LastSeenCatchesUp'
  BY <1>t DEF TypeOK, UsedBefore, LastSeenCatchesUp, Held, Session, Authorize, NewFlow
<1> QED
  BY <1>1, <1>2, <1>3, <1>4, <1>5, <1>6 DEF IInv

\* A login gets a token and a flow that was issued.
LEMMA CallbackKeeps ==
  ASSUME IInv, NEW t \in Tokens, NEW f \in Flows, NEW u \in Users, Callback(t, f, u)
  PROVE  IInv'
<1> USE ConstantsTyped
<1>t. /\ TypeOK /\ LoginsNamed /\ FlowsTold /\ RowsOwned
      /\ UsedBefore /\ LastSeenCatchesUp
  BY DEF IInv
<1>1. TypeOK'
  <2>1. rows' \in [Tokens -> Session \cup {Nothing}]
    BY <1>t DEF TypeOK, LoginsNamed, Session, Callback, Fresh
  <2>2. flows' \in [Flows -> DeviceFlow \cup {Nothing}]
    BY <1>t DEF TypeOK, DeviceFlow, Callback, Fresh
  <2>3. login' \in [Tokens -> [stage : {"none", "save", "update", "done"},
                             flow : Flows \cup {Nothing},
                             user : Users \cup {Nothing}]]
    BY <1>t DEF TypeOK, Callback
  <2>4. /\ issued' \subseteq Flows /\ revoking' \subseteq Tokens
        /\ touches' \in [Tokens -> 0..MaxTouches]
        /\ used' \in [Tokens -> 0..MaxTime]
    BY <1>t DEF TypeOK, Callback, Fresh
  <2>5. given' \in [Tokens -> 0..MaxPolls]
    BY <1>t DEF TypeOK, FlowsTold, Callback, Fresh
  <2>6. /\ now' \in 0..MaxTime /\ storeErrors' \in 0..MaxStoreErrors
        /\ restarts' \in 0..MaxRestarts
    BY <1>t DEF TypeOK, Callback, Fresh
  <2> QED
    BY <2>1, <2>2, <2>3, <2>4, <2>5, <2>6 DEF TypeOK
<1>2. LoginsNamed'
  BY <1>t DEF TypeOK, LoginsNamed, Callback, Fresh
<1>3. FlowsTold'
  BY <1>t DEF TypeOK, FlowsTold, DeviceFlow, Callback, Fresh
<1>4. RowsOwned'
  BY <1>t DEF TypeOK, RowsOwned, LoginsNamed, FlowsTold, Held, Session, DeviceFlow, Callback, Fresh
<1>5. UsedBefore'
  BY <1>t DEF TypeOK, UsedBefore, Callback, Fresh
<1>6. LastSeenCatchesUp'
  BY <1>t DEF TypeOK, UsedBefore, LastSeenCatchesUp, Held, Session, Callback, Fresh
<1> QED
  BY <1>1, <1>2, <1>3, <1>4, <1>5, <1>6 DEF IInv

\* The new session expires no earlier than the flow, which was issued before.
LEMMA SaveSessionKeeps ==
  ASSUME IInv, NEW t \in Tokens, SaveSession(t)
  PROVE  IInv'
<1> USE ConstantsTyped
<1>t. /\ TypeOK /\ LoginsNamed /\ FlowsTold /\ RowsOwned
      /\ UsedBefore /\ LastSeenCatchesUp
  BY DEF IInv
<1>1. TypeOK'
  <2>1. rows' \in [Tokens -> Session \cup {Nothing}]
    BY <1>t DEF TypeOK, LoginsNamed, Session, SaveSession, Inserted, Delete, LoginAt
  <2>2. flows' \in [Flows -> DeviceFlow \cup {Nothing}]
    BY <1>t DEF TypeOK, DeviceFlow, SaveSession, Inserted, Delete, LoginAt
  <2>3. login' \in [Tokens -> [stage : {"none", "save", "update", "done"},
                             flow : Flows \cup {Nothing},
                             user : Users \cup {Nothing}]]
    BY <1>t DEF TypeOK, SaveSession, LoginAt
  <2>4. /\ issued' \subseteq Flows /\ revoking' \subseteq Tokens
        /\ touches' \in [Tokens -> 0..MaxTouches]
        /\ used' \in [Tokens -> 0..MaxTime]
    BY <1>t DEF TypeOK, SaveSession, Inserted, Delete, LoginAt
  <2>5. given' \in [Tokens -> 0..MaxPolls]
    BY <1>t DEF TypeOK, FlowsTold, SaveSession, Inserted, Delete, LoginAt
  <2>6. /\ now' \in 0..MaxTime /\ storeErrors' \in 0..MaxStoreErrors
        /\ restarts' \in 0..MaxRestarts
    BY <1>t DEF TypeOK, SaveSession, Inserted, Delete, LoginAt
  <2> QED
    BY <2>1, <2>2, <2>3, <2>4, <2>5, <2>6 DEF TypeOK
<1>2. LoginsNamed'
  BY <1>t DEF TypeOK, LoginsNamed, SaveSession, Inserted, Delete, LoginAt
<1>3. FlowsTold'
  BY <1>t DEF TypeOK, FlowsTold, DeviceFlow, SaveSession, Inserted, Delete, LoginAt
<1>4. RowsOwned'
  BY <1>t DEF TypeOK, RowsOwned, LoginsNamed, FlowsTold, Held, Session, DeviceFlow, SaveSession, Inserted, Delete, LoginAt
<1>5. UsedBefore'
  BY <1>t DEF TypeOK, UsedBefore, SaveSession, Inserted, Delete, LoginAt
<1>6. LastSeenCatchesUp'
  BY <1>t DEF TypeOK, UsedBefore, LastSeenCatchesUp, Held, Session, SaveSession, Inserted, Delete, LoginAt
<1> QED
  BY <1>1, <1>2, <1>3, <1>4, <1>5, <1>6 DEF IInv

\* The same beside the sessions that are there.
LEMMA SaveBeyondLimitKeeps ==
  ASSUME IInv, NEW t \in Tokens, SaveBeyondLimit(t)
  PROVE  IInv'
<1> USE ConstantsTyped
<1>t. /\ TypeOK /\ LoginsNamed /\ FlowsTold /\ RowsOwned
      /\ UsedBefore /\ LastSeenCatchesUp
  BY DEF IInv
<1>1. TypeOK'
  <2>1. rows' \in [Tokens -> Session \cup {Nothing}]
    BY <1>t DEF TypeOK, LoginsNamed, Session, SaveBeyondLimit, Inserted, StoreError, LoginAt
  <2>2. flows' \in [Flows -> DeviceFlow \cup {Nothing}]
    BY <1>t DEF TypeOK, DeviceFlow, SaveBeyondLimit, Inserted, StoreError, LoginAt
  <2>3. login' \in [Tokens -> [stage : {"none", "save", "update", "done"},
                             flow : Flows \cup {Nothing},
                             user : Users \cup {Nothing}]]
    BY <1>t DEF TypeOK, SaveBeyondLimit, LoginAt
  <2>4. /\ issued' \subseteq Flows /\ revoking' \subseteq Tokens
        /\ touches' \in [Tokens -> 0..MaxTouches]
        /\ used' \in [Tokens -> 0..MaxTime]
    BY <1>t DEF TypeOK, SaveBeyondLimit, Inserted, StoreError, LoginAt
  <2>5. given' \in [Tokens -> 0..MaxPolls]
    BY <1>t DEF TypeOK, FlowsTold, SaveBeyondLimit, Inserted, StoreError, LoginAt
  <2>6. /\ now' \in 0..MaxTime /\ storeErrors' \in 0..MaxStoreErrors
        /\ restarts' \in 0..MaxRestarts
    BY <1>t DEF TypeOK, SaveBeyondLimit, Inserted, StoreError, LoginAt
  <2> QED
    BY <2>1, <2>2, <2>3, <2>4, <2>5, <2>6 DEF TypeOK
<1>2. LoginsNamed'
  BY <1>t DEF TypeOK, LoginsNamed, SaveBeyondLimit, Inserted, StoreError, LoginAt
<1>3. FlowsTold'
  BY <1>t DEF TypeOK, FlowsTold, DeviceFlow, SaveBeyondLimit, Inserted, StoreError, LoginAt
<1>4. RowsOwned'
  BY <1>t DEF TypeOK, RowsOwned, LoginsNamed, FlowsTold, Held, Session, DeviceFlow, SaveBeyondLimit, Inserted, StoreError, LoginAt
<1>5. UsedBefore'
  BY <1>t DEF TypeOK, UsedBefore, SaveBeyondLimit, Inserted, StoreError, LoginAt
<1>6. LastSeenCatchesUp'
  BY <1>t DEF TypeOK, UsedBefore, LastSeenCatchesUp, Held, Session, SaveBeyondLimit, Inserted, StoreError, LoginAt
<1> QED
  BY <1>1, <1>2, <1>3, <1>4, <1>5, <1>6 DEF IInv

\* Sessions may go, none comes.
LEMMA SaveFailsKeeps ==
  ASSUME IInv, NEW t \in Tokens, SaveFails(t)
  PROVE  IInv'
<1> USE ConstantsTyped
<1>t. /\ TypeOK /\ LoginsNamed /\ FlowsTold /\ RowsOwned
      /\ UsedBefore /\ LastSeenCatchesUp
  BY DEF IInv
<1>1. TypeOK'
  <2>1. rows' \in [Tokens -> Session \cup {Nothing}]
    BY <1>t DEF TypeOK, LoginsNamed, Session, SaveFails, Delete, StoreError, LoginAt
  <2>2. flows' \in [Flows -> DeviceFlow \cup {Nothing}]
    BY <1>t DEF TypeOK, DeviceFlow, SaveFails, Delete, StoreError, LoginAt
  <2>3. login' \in [Tokens -> [stage : {"none", "save", "update", "done"},
                             flow : Flows \cup {Nothing},
                             user : Users \cup {Nothing}]]
    BY <1>t DEF TypeOK, SaveFails, LoginAt
  <2>4. /\ issued' \subseteq Flows /\ revoking' \subseteq Tokens
        /\ touches' \in [Tokens -> 0..MaxTouches]
        /\ used' \in [Tokens -> 0..MaxTime]
    BY <1>t DEF TypeOK, SaveFails, Delete, StoreError, LoginAt
  <2>5. given' \in [Tokens -> 0..MaxPolls]
    BY <1>t DEF TypeOK, FlowsTold, SaveFails, Delete, StoreError, LoginAt
  <2>6. /\ now' \in 0..MaxTime /\ storeErrors' \in 0..MaxStoreErrors
        /\ restarts' \in 0..MaxRestarts
    BY <1>t DEF TypeOK, SaveFails, Delete, StoreError, LoginAt
  <2> QED
    BY <2>1, <2>2, <2>3, <2>4, <2>5, <2>6 DEF TypeOK
<1>2. LoginsNamed'
  BY <1>t DEF TypeOK, LoginsNamed, SaveFails, Delete, StoreError, LoginAt
<1>3. FlowsTold'
  BY <1>t DEF TypeOK, FlowsTold, DeviceFlow, SaveFails, Delete, StoreError, LoginAt
<1>4. RowsOwned'
  BY <1>t DEF TypeOK, RowsOwned, LoginsNamed, FlowsTold, Held, Session, DeviceFlow, SaveFails, Delete, StoreError, LoginAt
<1>5. UsedBefore'
  BY <1>t DEF TypeOK, UsedBefore, SaveFails, Delete, StoreError, LoginAt
<1>6. LastSeenCatchesUp'
  BY <1>t DEF TypeOK, UsedBefore, LastSeenCatchesUp, Held, Session, SaveFails, Delete, StoreError, LoginAt
<1> QED
  BY <1>1, <1>2, <1>3, <1>4, <1>5, <1>6 DEF IInv

\* The flow names a token whose login is done with this step.
LEMMA UpdateDeviceFlowKeeps ==
  ASSUME IInv, NEW t \in Tokens, UpdateDeviceFlow(t)
  PROVE  IInv'
<1> USE ConstantsTyped
<1>t. /\ TypeOK /\ LoginsNamed /\ FlowsTold /\ RowsOwned
      /\ UsedBefore /\ LastSeenCatchesUp
  BY DEF IInv
<1>e. /\ login[t].stage = "update" /\ login'[t].stage = "done"
      /\ login'[t].flow = login[t].flow /\ login'[t].user = login[t].user
      /\ \A q \in Tokens \ {t} : login'[q] = login[q]
      /\ login[t].flow \in Flows
  BY <1>t DEF TypeOK, LoginsNamed, UpdateDeviceFlow, LoginAt
<1>f. /\ \A f \in Flows \ {login[t].flow} : flows'[f] = flows[f]
      /\ flows'[login[t].flow] = Nothing <=> flows[login[t].flow] = Nothing
      /\ flows[login[t].flow] # Nothing =>
            /\ flows'[login[t].flow].expires = flows[login[t].flow].expires
            /\ flows'[login[t].flow] = flows[login[t].flow]
               \/ flows'[login[t].flow].token = t
  <2>1. CASE flows' = flows
    BY <2>1
  <2>2. CASE /\ flows[login[t].flow] # Nothing
             /\ flows' = [flows EXCEPT ![login[t].flow].status = "authorized",
                                       ![login[t].flow].token = t]
    <3>1. flows[login[t].flow] \in DeviceFlow
      BY <1>t, <1>e, <2>2 DEF TypeOK
    <3> DEFINE r == [expires |-> flows[login[t].flow].expires,
                     status |-> "authorized", token |-> t]
    <3>2. flows'[login[t].flow] = r /\ r \in DeviceFlow
      BY <1>t, <1>e, <2>2, <3>1 DEF TypeOK, DeviceFlow
    <3> QED
      BY <1>t, <1>e, <2>2, <3>2 DEF TypeOK
  <2> QED
    BY <2>1, <2>2 DEF UpdateDeviceFlow
<1>u. now' = now /\ rows' = rows /\ issued' = issued
  BY DEF UpdateDeviceFlow
<1>1. TypeOK'
  <2>1. rows' \in [Tokens -> Session \cup {Nothing}]
    BY <1>t DEF TypeOK, LoginsNamed, Session, UpdateDeviceFlow, StoreError, LoginAt
  <2>2. flows' \in [Flows -> DeviceFlow \cup {Nothing}]
    BY <1>t DEF TypeOK, DeviceFlow, UpdateDeviceFlow, StoreError, LoginAt
  <2>3. login' \in [Tokens -> [stage : {"none", "save", "update", "done"},
                             flow : Flows \cup {Nothing},
                             user : Users \cup {Nothing}]]
    BY <1>t DEF TypeOK, UpdateDeviceFlow, LoginAt
  <2>4. /\ issued' \subseteq Flows /\ revoking' \subseteq Tokens
        /\ touches' \in [Tokens -> 0..MaxTouches]
        /\ used' \in [Tokens -> 0..MaxTime]
    BY <1>t DEF TypeOK, UpdateDeviceFlow, StoreError, LoginAt
  <2>5. given' \in [Tokens -> 0..MaxPolls]
    BY <1>t DEF TypeOK, FlowsTold, UpdateDeviceFlow, StoreError, LoginAt
  <2>6. /\ now' \in 0..MaxTime /\ storeErrors' \in 0..MaxStoreErrors
        /\ restarts' \in 0..MaxRestarts
    BY <1>t DEF TypeOK, UpdateDeviceFlow, StoreError, LoginAt
  <2> QED
    BY <2>1, <2>2, <2>3, <2>4, <2>5, <2>6 DEF TypeOK
<1>2. LoginsNamed'
  BY <1>t DEF TypeOK, LoginsNamed, UpdateDeviceFlow, StoreError, LoginAt
<1>3. FlowsTold'
  <2> SUFFICES ASSUME NEW f \in Flows, flows'[f] # Nothing
               PROVE  /\ f \in issued
                      /\ flows'[f].expires <= now + FlowDuration
                      /\ flows'[f].status = "authorized" =>
                             /\ flows'[f].token \in Tokens
                             /\ login'[flows'[f].token].flow = f
                             /\ login'[flows'[f].token].stage = "done"
    BY <1>u DEF FlowsTold
  <2>1. flows[f] # Nothing
    BY <1>f
  <2>2. CASE flows'[f] = flows[f]
    BY <1>t, <1>e, <2>1, <2>2 DEF FlowsTold
  <2>3. CASE f = login[t].flow /\ flows'[f].token = t
    BY <1>t, <1>e, <1>f, <2>1, <2>3 DEF FlowsTold
  <2> QED
    BY <1>f, <2>1, <2>2, <2>3
<1>4. RowsOwned'
  <2> SUFFICES ASSUME NEW q \in Tokens, rows[q] # Nothing
               PROVE  /\ login'[q].stage \in {"update", "done"}
                      /\ rows[q].user = login'[q].user
                      /\ rows[q].seen <= now
                      /\ rows[q].expires <= rows[q].seen + SessionDuration
                      /\ flows'[login'[q].flow] # Nothing =>
                            flows'[login'[q].flow].expires <= rows[q].expires
    BY <1>u DEF RowsOwned, Held
  <2>1. /\ login'[q].flow = login[q].flow /\ login'[q].user = login[q].user
        /\ login'[q].stage \in {login[q].stage, "done"}
    BY <1>e
  <2>2. /\ login[q].stage \in {"update", "done"} /\ login[q].flow \in Flows
        /\ rows[q].user = login[q].user /\ rows[q].seen <= now
        /\ rows[q].expires <= rows[q].seen + SessionDuration
        /\ flows[login[q].flow] # Nothing =>
               flows[login[q].flow].expires <= rows[q].expires
    BY <1>t DEF RowsOwned, LoginsNamed, Held, TypeOK
  <2>3. flows'[login[q].flow] # Nothing =>
            /\ flows[login[q].flow] # Nothing
            /\ flows'[login[q].flow].expires = flows[login[q].flow].expires
    BY <1>f, <2>2
  <2> QED
    BY <2>1, <2>2, <2>3
<1>5. UsedBefore'
  BY <1>t DEF TypeOK, UsedBefore, UpdateDeviceFlow, StoreError, LoginAt
<1>6. LastSeenCatchesUp'
  BY <1>t DEF TypeOK, UsedBefore, LastSeenCatchesUp, Held, Session, UpdateDeviceFlow, StoreError, LoginAt
<1> QED
  BY <1>1, <1>2, <1>3, <1>4, <1>5, <1>6 DEF IInv

\* A token is handed out.
LEMMA PollKeeps ==
  ASSUME IInv, NEW f \in Flows, Poll(f)
  PROVE  IInv'
<1> USE ConstantsTyped
<1>t. /\ TypeOK /\ LoginsNamed /\ FlowsTold /\ RowsOwned
      /\ UsedBefore /\ LastSeenCatchesUp
  BY DEF IInv
<1>1. TypeOK'
  <2>1. rows' \in [Tokens -> Session \cup {Nothing}]
    BY <1>t DEF TypeOK, LoginsNamed, Session, Poll, Answerable
  <2>2. flows' \in [Flows -> DeviceFlow \cup {Nothing}]
    BY <1>t DEF TypeOK, DeviceFlow, Poll, Answerable
  <2>3. login' \in [Tokens -> [stage : {"none", "save", "update", "done"},
                             flow : Flows \cup {Nothing},
                             user : Users \cup {Nothing}]]
    BY <1>t DEF TypeOK, Poll
  <2>4. /\ issued' \subseteq Flows /\ revoking' \subseteq Tokens
        /\ touches' \in [Tokens -> 0..MaxTouches]
        /\ used' \in [Tokens -> 0..MaxTime]
    BY <1>t DEF TypeOK, Poll, Answerable
  <2>5. given' \in [Tokens -> 0..MaxPolls]
    BY <1>t DEF TypeOK, FlowsTold, Poll, Answerable
  <2>6. /\ now' \in 0..MaxTime /\ storeErrors' \in 0..MaxStoreErrors
        /\ restarts' \in 0..MaxRestarts
    BY <1>t DEF TypeOK, Poll, Answerable
  <2> QED
    BY <2>1, <2>2, <2>3, <2>4, <2>5, <2>6 DEF TypeOK
<1>2. LoginsNamed'
  BY <1>t DEF TypeOK, LoginsNamed, Poll, Answerable
<1>3. FlowsTold'
  BY <1>t DEF TypeOK, FlowsTold, DeviceFlow, Poll, Answerable
<1>4. RowsOwned'
  BY <1>t DEF TypeOK, RowsOwned, LoginsNamed, FlowsTold, Held, Session, DeviceFlow, Poll, Answerable
<1>5. UsedBefore'
  BY <1>t DEF TypeOK, UsedBefore, Poll, Answerable
<1>6. LastSeenCatchesUp'
  BY <1>t DEF TypeOK, UsedBefore, LastSeenCatchesUp, Held, Session, Poll, Answerable
<1> QED
  BY <1>1, <1>2, <1>3, <1>4, <1>5, <1>6 DEF IInv

\* One more update of the session is pending, so LastSeenCatchesUp waits for it.
LEMMA UseKeeps ==
  ASSUME IInv, NEW t \in Tokens, Use(t)
  PROVE  IInv'
<1> USE ConstantsTyped
<1>t. /\ TypeOK /\ LoginsNamed /\ FlowsTold /\ RowsOwned
      /\ UsedBefore /\ LastSeenCatchesUp
  BY DEF IInv
<1>1. TypeOK'
  <2>1. rows' \in [Tokens -> Session \cup {Nothing}]
    BY <1>t DEF TypeOK, LoginsNamed, Session, Use, Lookup
  <2>2. flows' \in [Flows -> DeviceFlow \cup {Nothing}]
    BY <1>t DEF TypeOK, DeviceFlow, Use, Lookup
  <2>3. login' \in [Tokens -> [stage : {"none", "save", "update", "done"},
                             flow : Flows \cup {Nothing},
                             user : Users \cup {Nothing}]]
    BY <1>t DEF TypeOK, Use
  <2>4. /\ issued' \subseteq Flows /\ revoking' \subseteq Tokens
        /\ touches' \in [Tokens -> 0..MaxTouches]
        /\ used' \in [Tokens -> 0..MaxTime]
    BY <1>t DEF TypeOK, Use, Lookup
  <2>5. given' \in [Tokens -> 0..MaxPolls]
    BY <1>t DEF TypeOK, FlowsTold, Use, Lookup
  <2>6. /\ now' \in 0..MaxTime /\ storeErrors' \in 0..MaxStoreErrors
        /\ restarts' \in 0..MaxRestarts
    BY <1>t DEF TypeOK, Use, Lookup
  <2> QED
    BY <2>1, <2>2, <2>3, <2>4, <2>5, <2>6 DEF TypeOK
<1>2. LoginsNamed'
  BY <1>t DEF TypeOK, LoginsNamed, Use, Lookup
<1>3. FlowsTold'
  BY <1>t DEF TypeOK, FlowsTold, DeviceFlow, Use, Lookup
<1>4. RowsOwned'
  BY <1>t DEF TypeOK, RowsOwned, LoginsNamed, FlowsTold, Held, Session, DeviceFlow, Use, Lookup
<1>5. UsedBefore'
  BY <1>t DEF TypeOK, UsedBefore, Use, Lookup
<1>6. LastSeenCatchesUp'
  BY <1>t DEF TypeOK, UsedBefore, LastSeenCatchesUp, Held, Session, Use, Lookup
<1> QED
  BY <1>1, <1>2, <1>3, <1>4, <1>5, <1>6 DEF IInv

\* Likewise.
LEMMA BeginRevokeKeeps ==
  ASSUME IInv, NEW t \in Tokens, BeginRevoke(t)
  PROVE  IInv'
<1> USE ConstantsTyped
<1>t. /\ TypeOK /\ LoginsNamed /\ FlowsTold /\ RowsOwned
      /\ UsedBefore /\ LastSeenCatchesUp
  BY DEF IInv
<1>1. TypeOK'
  <2>1. rows' \in [Tokens -> Session \cup {Nothing}]
    BY <1>t DEF TypeOK, LoginsNamed, Session, BeginRevoke, Lookup
  <2>2. flows' \in [Flows -> DeviceFlow \cup {Nothing}]
    BY <1>t DEF TypeOK, DeviceFlow, BeginRevoke, Lookup
  <2>3. login' \in [Tokens -> [stage : {"none", "save", "update", "done"},
                             flow : Flows \cup {Nothing},
                             user : Users \cup {Nothing}]]
    BY <1>t DEF TypeOK, BeginRevoke
  <2>4. /\ issued' \subseteq Flows /\ revoking' \subseteq Tokens
        /\ touches' \in [Tokens -> 0..MaxTouches]
        /\ used' \in [Tokens -> 0..MaxTime]
    BY <1>t DEF TypeOK, BeginRevoke, Lookup
  <2>5. given' \in [Tokens -> 0..MaxPolls]
    BY <1>t DEF TypeOK, FlowsTold, BeginRevoke, Lookup
  <2>6. /\ now' \in 0..MaxTime /\ storeErrors' \in 0..MaxStoreErrors
        /\ restarts' \in 0..MaxRestarts
    BY <1>t DEF TypeOK, BeginRevoke, Lookup
  <2> QED
    BY <2>1, <2>2, <2>3, <2>4, <2>5, <2>6 DEF TypeOK
<1>2. LoginsNamed'
  BY <1>t DEF TypeOK, LoginsNamed, BeginRevoke, Lookup
<1>3. FlowsTold'
  BY <1>t DEF TypeOK, FlowsTold, DeviceFlow, BeginRevoke, Lookup
<1>4. RowsOwned'
  BY <1>t DEF TypeOK, RowsOwned, LoginsNamed, FlowsTold, Held, Session, DeviceFlow, BeginRevoke, Lookup
<1>5. UsedBefore'
  BY <1>t DEF TypeOK, UsedBefore, BeginRevoke, Lookup
<1>6. LastSeenCatchesUp'
  BY <1>t DEF TypeOK, UsedBefore, LastSeenCatchesUp, Held, Session, BeginRevoke, Lookup
<1> QED
  BY <1>1, <1>2, <1>3, <1>4, <1>5, <1>6 DEF IInv

\* A row goes.
LEMMA DeleteSessionKeeps ==
  ASSUME IInv, NEW t \in Tokens, DeleteSession(t)
  PROVE  IInv'
<1> USE ConstantsTyped
<1>t. /\ TypeOK /\ LoginsNamed /\ FlowsTold /\ RowsOwned
      /\ UsedBefore /\ LastSeenCatchesUp
  BY DEF IInv
<1>1. TypeOK'
  <2>1. rows' \in [Tokens -> Session \cup {Nothing}]
    BY <1>t DEF TypeOK, LoginsNamed, Session, DeleteSession, Delete, StoreError
  <2>2. flows' \in [Flows -> DeviceFlow \cup {Nothing}]
    BY <1>t DEF TypeOK, DeviceFlow, DeleteSession, Delete, StoreError
  <2>3. login' \in [Tokens -> [stage : {"none", "save", "update", "done"},
                             flow : Flows \cup {Nothing},
                             user : Users \cup {Nothing}]]
    BY <1>t DEF TypeOK, DeleteSession
  <2>4. /\ issued' \subseteq Flows /\ revoking' \subseteq Tokens
        /\ touches' \in [Tokens -> 0..MaxTouches]
        /\ used' \in [Tokens -> 0..MaxTime]
    BY <1>t DEF TypeOK, DeleteSession, Delete, StoreError
  <2>5. given' \in [Tokens -> 0..MaxPolls]
    BY <1>t DEF TypeOK, FlowsTold, DeleteSession, Delete, StoreError
  <2>6. /\ now' \in 0..MaxTime /\ storeErrors' \in 0..MaxStoreErrors
        /\ restarts' \in 0..MaxRestarts
    BY <1>t DEF TypeOK, DeleteSession, Delete, StoreError
  <2> QED
    BY <2>1, <2>2, <2>3, <2>4, <2>5, <2>6 DEF TypeOK
<1>2. LoginsNamed'
  BY <1>t DEF TypeOK, LoginsNamed, DeleteSession, Delete, StoreError
<1>3. FlowsTold'
  BY <1>t DEF TypeOK, FlowsTold, DeviceFlow, DeleteSession, Delete, StoreError
<1>4. RowsOwned'
  BY <1>t DEF TypeOK, RowsOwned, LoginsNamed, FlowsTold, Held, Session, DeviceFlow, DeleteSession, Delete, StoreError
<1>5. UsedBefore'
  BY <1>t DEF TypeOK, UsedBefore, DeleteSession, Delete, StoreError
<1>6. LastSeenCatchesUp'
  BY <1>t DEF TypeOK, UsedBefore, LastSeenCatchesUp, Held, Session, DeleteSession, Delete, StoreError
<1> QED
  BY <1>1, <1>2, <1>3, <1>4, <1>5, <1>6 DEF IInv

\* A row that is there is seen now; one that is not stays away.
LEMMA TouchKeeps ==
  ASSUME IInv, NEW t \in Tokens, Touch(t)
  PROVE  IInv'
<1> USE ConstantsTyped
<1>t. /\ TypeOK /\ LoginsNamed /\ FlowsTold /\ RowsOwned
      /\ UsedBefore /\ LastSeenCatchesUp
  BY DEF IInv
<1>e. \A q \in Tokens : rows'[q] # Nothing =>
         /\ rows[q] # Nothing /\ rows[q] \in Session
         /\ rows'[q].user = rows[q].user /\ rows'[q].expires = rows[q].expires
         /\ rows'[q].seen \in {rows[q].seen, now}
  BY <1>t DEF TypeOK, Session, Touch
<1>1. TypeOK'
  <2>1. rows' \in [Tokens -> Session \cup {Nothing}]
    BY <1>t DEF TypeOK, LoginsNamed, Session, Touch, StoreError
  <2>2. flows' \in [Flows -> DeviceFlow \cup {Nothing}]
    BY <1>t DEF TypeOK, DeviceFlow, Touch, StoreError
  <2>3. login' \in [Tokens -> [stage : {"none", "save", "update", "done"},
                             flow : Flows \cup {Nothing},
                             user : Users \cup {Nothing}]]
    BY <1>t DEF TypeOK, Touch
  <2>4. /\ issued' \subseteq Flows /\ revoking' \subseteq Tokens
        /\ touches' \in [Tokens -> 0..MaxTouches]
        /\ used' \in [Tokens -> 0..MaxTime]
    BY <1>t DEF TypeOK, Touch, StoreError
  <2>5. given' \in [Tokens -> 0..MaxPolls]
    BY <1>t DEF TypeOK, FlowsTold, Touch, StoreError
  <2>6. /\ now' \in 0..MaxTime /\ storeErrors' \in 0..MaxStoreErrors
        /\ restarts' \in 0..MaxRestarts
    BY <1>t DEF TypeOK, Touch, StoreError
  <2> QED
    BY <2>1, <2>2, <2>3, <2>4, <2>5, <2>6 DEF TypeOK
<1>2. LoginsNamed'
  BY <1>t DEF TypeOK, LoginsNamed, Touch, StoreError
<1>3. FlowsTold'
  BY <1>t DEF TypeOK, FlowsTold, DeviceFlow, Touch, StoreError
<1>4. RowsOwned'
  <2> SUFFICES ASSUME NEW q \in Tokens, rows'[q] # Nothing
               PROVE  /\ login[q].stage \in {"update", "done"}
                      /\ rows'[q].user = login[q].user
                      /\ rows'[q].seen <= now
                      /\ rows'[q].expires <= rows'[q].seen + SessionDuration
                      /\ flows[login[q].flow] # Nothing =>
                            flows[login[q].flow].expires <= rows'[q].expires
    BY DEF RowsOwned, Held, Touch
  <2> QED
    BY <1>t, <1>e DEF RowsOwned, Held, Session, TypeOK
<1>5. UsedBefore'
  BY <1>t DEF TypeOK, UsedBefore, Touch, StoreError
<1>6. LastSeenCatchesUp'
  BY <1>t DEF TypeOK, UsedBefore, LastSeenCatchesUp, Held, Session, Touch, StoreError
<1> QED
  BY <1>1, <1>2, <1>3, <1>4, <1>5, <1>6 DEF IInv

\* Rows go.
LEMMA CleanupSessionsKeeps ==
  ASSUME IInv, CleanupSessions
  PROVE  IInv'
<1> USE ConstantsTyped
<1>t. /\ TypeOK /\ LoginsNamed /\ FlowsTold /\ RowsOwned
      /\ UsedBefore /\ LastSeenCatchesUp
  BY DEF IInv
<1>1. TypeOK'
  <2>1. rows' \in [Tokens -> Session \cup {Nothing}]
    BY <1>t DEF TypeOK, LoginsNamed, Session, CleanupSessions, Delete
  <2>2. flows' \in [Flows -> DeviceFlow \cup {Nothing}]
    BY <1>t DEF TypeOK, DeviceFlow, CleanupSessions, Delete
  <2>3. login' \in [Tokens -> [stage : {"none", "save", "update", "done"},
                             flow : Flows \cup {Nothing},
                             user : Users \cup {Nothing}]]
    BY <1>t DEF TypeOK, CleanupSessions
  <2>4. /\ issued' \subseteq Flows /\ revoking' \subseteq Tokens
        /\ touches' \in [Tokens -> 0..MaxTouches]
        /\ used' \in [Tokens -> 0..MaxTime]
    BY <1>t DEF TypeOK, CleanupSessions, Delete
  <2>5. given' \in [Tokens -> 0..MaxPolls]
    BY <1>t DEF TypeOK, FlowsTold, CleanupSessions, Delete
  <2>6. /\ now' \in 0..MaxTime /\ storeErrors' \in 0..MaxStoreErrors
        /\ restarts' \in 0..MaxRestarts
    BY <1>t DEF TypeOK, CleanupSessions, Delete
  <2> QED
    BY <2>1, <2>2, <2>3, <2>4, <2>5, <2>6 DEF TypeOK
<1>2. LoginsNamed'
  BY <1>t DEF TypeOK, LoginsNamed, CleanupSessions, Delete
<1>3. FlowsTold'
  BY <1>t DEF TypeOK, FlowsTold, DeviceFlow, CleanupSessions, Delete
<1>4. RowsOwned'
  BY <1>t DEF TypeOK, RowsOwned, LoginsNamed, FlowsTold, Held, Session, DeviceFlow, CleanupSessions, Delete
<1>5. UsedBefore'
  BY <1>t DEF TypeOK, UsedBefore, CleanupSessions, Delete
<1>6. LastSeenCatchesUp'
  BY <1>t DEF TypeOK, UsedBefore, LastSeenCatchesUp, Held, Session, CleanupSessions, Delete
<1> QED
  BY <1>1, <1>2, <1>3, <1>4, <1>5, <1>6 DEF IInv

\* Flows go.
LEMMA CleanupDeviceFlowsKeeps ==
  ASSUME IInv, CleanupDeviceFlows
  PROVE  IInv'
<1> USE ConstantsTyped
<1>t. /\ TypeOK /\ LoginsNamed /\ FlowsTold /\ RowsOwned
      /\ UsedBefore /\ LastSeenCatchesUp
  BY DEF IInv
<1>1. TypeOK'
  <2>1. rows' \in [Tokens -> Session \cup {Nothing}]
    BY <1>t DEF TypeOK, LoginsNamed, Session, CleanupDeviceFlows, Delete
  <2>2. flows' \in [Flows -> DeviceFlow \cup {Nothing}]
    BY <1>t DEF TypeOK, DeviceFlow, CleanupDeviceFlows, Delete
  <2>3. login' \in [Tokens -> [stage : {"none", "save", "update", "done"},
                             flow : Flows \cup {Nothing},
                             user : Users \cup {Nothing}]]
    BY <1>t DEF TypeOK, CleanupDeviceFlows
  <2>4. /\ issued' \subseteq Flows /\ revoking' \subseteq Tokens
        /\ touches' \in [Tokens -> 0..MaxTouches]
        /\ used' \in [Tokens -> 0..MaxTime]
    BY <1>t DEF TypeOK, CleanupDeviceFlows, Delete
  <2>5. given' \in [Tokens -> 0..MaxPolls]
    BY <1>t DEF TypeOK, FlowsTold, CleanupDeviceFlows, Delete
  <2>6. /\ now' \in 0..MaxTime /\ storeErrors' \in 0..MaxStoreErrors
        /\ restarts' \in 0..MaxRestarts
    BY <1>t DEF TypeOK, CleanupDeviceFlows, Delete
  <2> QED
    BY <2>1, <2>2, <2>3, <2>4, <2>5, <2>6 DEF TypeOK
<1>2. LoginsNamed'
  BY <1>t DEF TypeOK, LoginsNamed, CleanupDeviceFlows, Delete
<1>3. FlowsTold'
  BY <1>t DEF TypeOK, FlowsTold, DeviceFlow, CleanupDeviceFlows, Delete
<1>4. RowsOwned'
  BY <1>t DEF TypeOK, RowsOwned, LoginsNamed, FlowsTold, Held, Session, DeviceFlow, CleanupDeviceFlows, Delete
<1>5. UsedBefore'
  BY <1>t DEF TypeOK, UsedBefore, CleanupDeviceFlows, Delete
<1>6. LastSeenCatchesUp'
  BY <1>t DEF TypeOK, UsedBefore, LastSeenCatchesUp, Held, Session, CleanupDeviceFlows, Delete
<1> QED
  BY <1>1, <1>2, <1>3, <1>4, <1>5, <1>6 DEF IInv

\* Time passes.
LEMMA TickKeeps ==
  ASSUME IInv, Tick
  PROVE  IInv'
<1> USE ConstantsTyped
<1>t. /\ TypeOK /\ LoginsNamed /\ FlowsTold /\ RowsOwned
      /\ UsedBefore /\ LastSeenCatchesUp
  BY DEF IInv
<1>1. TypeOK'
  <2>1. rows' \in [Tokens -> Session \cup {Nothing}]
    BY <1>t DEF TypeOK, LoginsNamed, Session, Tick
  <2>2. flows' \in [Flows -> DeviceFlow \cup {Nothing}]
    BY <1>t DEF TypeOK, DeviceFlow, Tick
  <2>3. login' \in [Tokens -> [stage : {"none", "save", "update", "done"},
                             flow : Flows \cup {Nothing},
                             user : Users \cup {Nothing}]]
    BY <1>t DEF TypeOK, Tick
  <2>4. /\ issued' \subseteq Flows /\ revoking' \subseteq Tokens
        /\ touches' \in [Tokens -> 0..MaxTouches]
        /\ used' \in [Tokens -> 0..MaxTime]
    BY <1>t DEF TypeOK, Tick
  <2>5. given' \in [Tokens -> 0..MaxPolls]
    BY <1>t DEF TypeOK, FlowsTold, Tick
  <2>6. /\ now' \in 0..MaxTime /\ storeErrors' \in 0..MaxStoreErrors
        /\ restarts' \in 0..MaxRestarts
    BY <1>t DEF TypeOK, Tick
  <2> QED
    BY <2>1, <2>2, <2>3, <2>4, <2>5, <2>6 DEF TypeOK
<1>2. LoginsNamed'
  BY <1>t DEF TypeOK, LoginsNamed, Tick
<1>3. FlowsTold'
  BY <1>t DEF TypeOK, FlowsTold, DeviceFlow, Tick
<1>4. RowsOwned'
  BY <1>t DEF TypeOK, RowsOwned, LoginsNamed, FlowsTold, Held, Session, DeviceFlow, Tick
<1>5. UsedBefore'
  BY <1>t DEF TypeOK, UsedBefore, Tick
<1>6. LastSeenCatchesUp'
  BY <1>t DEF TypeOK, UsedBefore, LastSeenCatchesUp, Held, Session, Tick
<1> QED
  BY <1>1, <1>2, <1>3, <1>4, <1>5, <1>6 DEF IInv

\* Logins under way are done, and pending updates are forgotten.
LEMMA RestartKeeps ==
  ASSUME IInv, Restart
  PROVE  IInv'
<1> USE ConstantsTyped
<1>t. /\ TypeOK /\ LoginsNamed /\ FlowsTold /\ RowsOwned
      /\ UsedBefore /\ LastSeenCatchesUp
  BY DEF IInv
<1>1. TypeOK'
  <2>1. rows' \in [Tokens -> Session \cup {Nothing}]
    BY <1>t DEF TypeOK, LoginsNamed, Session, Restart
  <2>2. flows' \in [Flows -> DeviceFlow \cup {Nothing}]
    BY <1>t DEF TypeOK, DeviceFlow, Restart
  <2>3. login' \in [Tokens -> [stage : {"none", "save", "update", "done"},
                             flow : Flows \cup {Nothing},
                             user : Users \cup {Nothing}]]
    <3>1. \A t \in Tokens : login'[t] = login[t] \/
              login'[t] = [stage |-> "done", flow |-> login[t].flow,
                           user |-> login[t].user]
      BY <1>t DEF TypeOK, Restart
    <3>2. DOMAIN login' = Tokens /\ login' = [t \in Tokens |-> login'[t]]
      BY DEF Restart
    <3> QED
      BY <1>t, <3>1, <3>2 DEF TypeOK
  <2>4. /\ issued' \subseteq Flows /\ revoking' \subseteq Tokens
        /\ touches' \in [Tokens -> 0..MaxTouches]
        /\ used' \in [Tokens -> 0..MaxTime]
    BY <1>t DEF TypeOK, Restart
  <2>5. given' \in [Tokens -> 0..MaxPolls]
    BY <1>t DEF TypeOK, FlowsTold, Restart
  <2>6. /\ now' \in 0..MaxTime /\ storeErrors' \in 0..MaxStoreErrors
        /\ restarts' \in 0..MaxRestarts
    BY <1>t DEF TypeOK, Restart
  <2> QED
    BY <2>1, <2>2, <2>3, <2>4, <2>5, <2>6 DEF TypeOK
<1>2. LoginsNamed'
  BY <1>t DEF TypeOK, LoginsNamed, Restart
<1>3. FlowsTold'
  BY <1>t DEF TypeOK, FlowsTold, DeviceFlow, Restart
<1>4. RowsOwned'
  BY <1>t DEF TypeOK, RowsOwned, LoginsNamed, FlowsTold, Held, Session, DeviceFlow, Restart
<1>5. UsedBefore'
  BY <1>t DEF TypeOK, UsedBefore, Restart
<1>6. LastSeenCatchesUp'
  BY <1>t DEF TypeOK, UsedBefore, LastSeenCatchesUp, Held, Session, Restart
<1> QED
  BY <1>1, <1>2, <1>3, <1>4, <1>5, <1>6 DEF IInv

LEMMA InvInit == Init => IInv
<1> SUFFICES ASSUME Init
             PROVE  IInv
  OBVIOUS
<1>1. TypeOK
  BY SessionsAssumption DEF Init, TypeOK, NewLogin
<1>2. LoginsNamed /\ FlowsTold /\ RowsOwned /\ UsedBefore /\ LastSeenCatchesUp
  BY DEF Init, LoginsNamed, FlowsTold, RowsOwned, UsedBefore, LastSeenCatchesUp,
         Held, NewLogin
<1> QED
  BY <1>1, <1>2 DEF IInv

LEMMA InvNext == IInv /\ [Next]_vars => IInv'
<1> SUFFICES ASSUME IInv, [Next]_vars
             PROVE  IInv'
  OBVIOUS
<1>1. ASSUME NEW t \in Tokens, LoginStep(t)
      PROVE  IInv'
  BY <1>1, CallbackKeeps, SaveSessionKeeps, SaveBeyondLimitKeeps, SaveFailsKeeps,
     UpdateDeviceFlowKeeps DEF LoginStep
<1>2. ASSUME NEW t \in Tokens, SessionStep(t)
      PROVE  IInv'
  BY <1>2, UseKeeps, BeginRevokeKeeps, DeleteSessionKeeps, TouchKeeps DEF SessionStep
<1>3. ASSUME NEW f \in Flows, FlowStep(f)
      PROVE  IInv'
  BY <1>3, AuthorizeKeeps, PollKeeps DEF FlowStep
<1>4. CASE CleanupSessions \/ CleanupDeviceFlows \/ Tick \/ Restart
  BY <1>4, CleanupSessionsKeeps, CleanupDeviceFlowsKeeps, TickKeeps, RestartKeeps
<1>5. CASE UNCHANGED vars
  <2>1. TypeOK' /\ LoginsNamed' /\ FlowsTold' /\ UsedBefore'
    BY <1>5 DEF vars, IInv, TypeOK, LoginsNamed, FlowsTold, UsedBefore
  <2>2. RowsOwned' /\ LastSeenCatchesUp'
    BY <1>5 DEF vars, IInv, RowsOwned, LastSeenCatchesUp, Held
  <2> QED
    BY <2>1, <2>2 DEF IInv
<1> QED
  BY <1>1, <1>2, <1>3, <1>4, <1>5 DEF Next

LEMMA InvCorrect == Spec => []IInv
  BY InvInit, InvNext, PTL DEF Spec

\* Every variable stays within its type.
THEOREM TypeCorrect == Spec => []TypeOK
<1>1. IInv => TypeOK
  BY DEF IInv
<1> QED
  BY <1>1, InvCorrect, PTL

\* Once no update of a session is pending, its last_seen_at is not before the last
\* request that used it, unless the store failed or the relay was restarted.
THEOREM LastSeenCorrect == Spec => []LastSeenCatchesUp
<1>1. IInv => LastSeenCatchesUp
  BY DEF IInv
<1> QED
  BY <1>1, InvCorrect, PTL

\* The token a poll is answered with was made for that flow, and its session, if
\* it is still there, is that of the user who logged in and outlives the flow.
THEOREM TokenOpensSessionCorrect == Spec => []TokenOpensSession
<1>1. IInv => TokenOpensSession
  <2> SUFFICES ASSUME IInv, NEW f \in Flows, Answerable(f)
               PROVE  LET t == flows[f].token
                      IN  /\ login[t].flow = f
                          /\ login[t].stage = "done"
                          /\ rows[t] # Nothing => /\ rows[t].user = login[t].user
                                                  /\ ~Expired(t)
    BY DEF TokenOpensSession
  <2> DEFINE t == flows[f].token
  <2>1. flows[f] # Nothing /\ now <= flows[f].expires
    BY DEF Answerable
  <2>2. t \in Tokens /\ login[t].flow = f /\ login[t].stage = "done"
    BY DEF Answerable, IInv, FlowsTold
  <2>3. ASSUME rows[t] # Nothing
        PROVE  rows[t].user = login[t].user /\ ~Expired(t)
    <3>1. rows[t].user = login[t].user /\ flows[f].expires <= rows[t].expires
      BY <2>1, <2>2, <2>3 DEF IInv, RowsOwned, Held
    <3>2. now \in Int /\ flows[f].expires \in Int /\ rows[t].expires \in Int
      BY <2>1, <2>2, <2>3 DEF IInv, TypeOK, DeviceFlow, Session
    <3> QED
      BY <2>1, <3>1, <3>2 DEF Expired
  <2> QED
    BY <2>2, <2>3
<1> QED
  BY <1>1, InvCorrect, PTL

-----------------------------------------------------------------------------
(* How rows come and go.                                                   *)

\* The sessions SaveSession can choose to delete.
LEMMA EvictionsFit ==
  ASSUME NEW u \in Users, NEW V \in Evictions(u), MaxSessions \in Nat
  PROVE  /\ V \subseteq SessionsOf(u)
         /\ \/ /\ Cardinality(SessionsOf(u)) >= MaxSessions
               /\ Cardinality(V) = Cardinality(SessionsOf(u)) - (MaxSessions - 1)
            \/ ~(Cardinality(SessionsOf(u)) >= MaxSessions) /\ V = {}
  BY DEF Evictions, FirstSeen

\* A row appears only when its token's login saves it.
LEMMA AppearsByLogin ==
  ASSUME IInv, [Next]_vars, NEW t \in Tokens, rows[t] = Nothing, rows'[t] # Nothing
  PROVE  SaveSession(t) \/ SaveBeyondLimit(t)
<1>t. DOMAIN rows = Tokens
  BY DEF IInv, TypeOK
<1>1. ASSUME NEW n \in Tokens, LoginStep(n)
      PROVE  SaveSession(t) \/ SaveBeyondLimit(t)
  BY <1>t, <1>1 DEF LoginStep, Callback, SaveSession, SaveBeyondLimit, SaveFails,
                    UpdateDeviceFlow, Inserted, Delete
<1>2. ASSUME NEW n \in Tokens, SessionStep(n)
      PROVE  FALSE
  BY <1>t, <1>2 DEF SessionStep, Use, BeginRevoke, DeleteSession, Touch, Delete
<1>3. ASSUME NEW f \in Flows, FlowStep(f)
      PROVE  FALSE
  BY <1>3 DEF FlowStep, Authorize, Poll
<1>4. ~(CleanupSessions \/ CleanupDeviceFlows \/ Tick \/ Restart \/ UNCHANGED vars)
  BY <1>t DEF CleanupSessions, CleanupDeviceFlows, Tick, Restart, vars, Delete
<1> QED
  BY <1>1, <1>2, <1>3, <1>4 DEF Next

\* A row goes when a login makes room, when its user revokes it, or when it is
\* cleaned up.
LEMMA GoesForReason ==
  ASSUME IInv, [Next]_vars, NEW t \in Held, rows'[t] = Nothing
  PROVE  \/ \E n \in Tokens : /\ SaveSession(n) \/ SaveFails(n)
                              /\ \E V \in Evictions(login[n].user) : t \in V
         \/ t \in revoking
         \/ Stale(t)
<1>t. /\ DOMAIN rows = Tokens /\ t \in Tokens /\ rows[t] # Nothing
      /\ rows \in [Tokens -> Session \cup {Nothing}] /\ now \in 0..MaxTime
      /\ Nothing \notin Session
  BY SessionsAssumption DEF IInv, TypeOK, Held
<1>1. ASSUME NEW n \in Tokens, SaveSession(n)
      PROVE  \E V \in Evictions(login[n].user) : t \in V
  <2>1. PICK V \in Evictions(login[n].user) : rows' = Inserted(Delete(rows, V), n)
    BY <1>1 DEF SaveSession
  <2>2. t # n
    BY <1>1, <1>t DEF IInv, RowsOwned, SaveSession
  <2> QED
    BY <1>t, <2>1, <2>2 DEF Inserted, Delete
<1>2. ASSUME NEW n \in Tokens, SaveFails(n)
      PROVE  \E V \in Evictions(login[n].user) : t \in V
  BY <1>t, <1>2 DEF SaveFails, Delete
<1>3. ASSUME NEW n \in Tokens, SaveBeyondLimit(n)
      PROVE  FALSE
  <2>1. t # n
    BY <1>3, <1>t DEF IInv, RowsOwned, SaveBeyondLimit
  <2> QED
    BY <1>t, <1>3, <2>1 DEF SaveBeyondLimit, Inserted
<1>4. ASSUME NEW n \in Tokens, DeleteSession(n)
      PROVE  t \in revoking
  BY <1>t, <1>4 DEF DeleteSession, Delete
<1>5. ASSUME NEW n \in Tokens, Touch(n)
      PROVE  FALSE
  <2>1. rows[t] \in Session /\ [rows[t] EXCEPT !.seen = now] \in Session
    BY <1>t DEF Session
  <2> QED
    BY <1>t, <1>5, <2>1 DEF Touch
<1>6. CASE CleanupSessions
  BY <1>t, <1>6 DEF CleanupSessions, Delete
<1>7. ASSUME rows' = rows
      PROVE  FALSE
  BY <1>t, <1>7
<1> QED
  BY <1>1, <1>2, <1>3, <1>4, <1>5, <1>6, <1>7
  DEF Next, LoginStep, SessionStep, FlowStep, Callback, UpdateDeviceFlow, Use,
      BeginRevoke, Authorize, Poll, CleanupDeviceFlows, Tick, Restart, vars

-----------------------------------------------------------------------------
(* The action properties.                                                  *)

\* A session that is gone never comes back, whatever goroutines still wait to
\* update it: a row appears only by the one login that makes its token.
THEOREM NoResurrectionCorrect == Spec => NoResurrection
<1>1. ASSUME IInv, [Next]_vars, NEW t \in Tokens,
             rows[t] = Nothing, rows'[t] # Nothing
      PROVE  login[t].stage = "save" /\ login'[t].stage = "update"
  <2>1. SaveSession(t) \/ SaveBeyondLimit(t)
    BY <1>1, AppearsByLogin
  <2> QED
    BY <1>1, <2>1 DEF SaveSession, SaveBeyondLimit, LoginAt, IInv, TypeOK
<1>2. IInv /\ [Next]_vars =>
        [\A t \in Tokens : (rows[t] = Nothing /\ rows'[t] # Nothing)
            => login[t].stage = "save" /\ login'[t].stage = "update"]_vars
  BY <1>1
<1> QED
  BY <1>2, InvCorrect, PTL DEF Spec, NoResurrection

\* After a login that worked its user has at most MaxSessions sessions, however
\* many failed deletions had left before.
THEOREM LimitRestoredCorrect == Spec => LimitRestored
<1>1. ASSUME IInv, [Next]_vars, NEW t \in Tokens,
             rows[t] = Nothing, rows'[t] # Nothing, storeErrors' = storeErrors
      PROVE  Cardinality({s \in Tokens : /\ rows'[s] # Nothing
                                         /\ rows'[s].user = rows'[t].user})
               <= MaxSessions
  <2> DEFINE u == login[t].user
             mine == SessionsOf(u)
             after == {s \in Tokens : rows'[s] # Nothing /\ rows'[s].user = rows'[t].user}
  <2>t. /\ MaxSessions \in Nat /\ MaxSessions > 0 /\ IsFiniteSet(Tokens)
        /\ storeErrors \in Nat /\ DOMAIN rows = Tokens
    BY <1>1, SessionsAssumption DEF IInv, TypeOK
  <2>1. SaveSession(t)
    BY <1>1, <2>t, AppearsByLogin DEF SaveBeyondLimit, StoreError
  <2>2. u \in Users
    BY <1>1, <2>1 DEF SaveSession, IInv, LoginsNamed
  <2>3. PICK V \in Evictions(u) : rows' = Inserted(Delete(rows, V), t)
    BY <2>1 DEF SaveSession
  <2>4. rows'[t].user = u
    BY <2>t, <2>3 DEF Inserted, Delete
  <2>5. after \subseteq (mine \ V) \cup {t}
    BY <2>t, <2>3, <2>4 DEF Inserted, Delete, SessionsOf, Held
  <2>6. IsFiniteSet(mine) /\ IsFiniteSet(V) /\ IsFiniteSet(mine \ V)
    BY <2>t, <2>2, <2>3, EvictionsFit, FS_Subset DEF SessionsOf, Held
  <2>7. Cardinality(mine) \in Nat /\ Cardinality(V) \in Nat
        /\ Cardinality(mine \ V) \in Nat
    BY <2>6, FS_CardinalityType
  <2>8. Cardinality(mine \ V) = Cardinality(mine) - Cardinality(V)
    <3>1. V \subseteq mine
      BY <2>t, <2>2, <2>3, EvictionsFit
    <3>2. mine \cap V = V
      BY <3>1
    <3> QED
      BY <2>6, <3>2, FS_Difference
  <2>9. Cardinality(mine \ V) <= MaxSessions - 1
    <3>1. CASE Cardinality(V) = Cardinality(mine) - (MaxSessions - 1)
      BY <2>t, <2>7, <2>8, <3>1
    <3>2. CASE ~(Cardinality(mine) >= MaxSessions) /\ V = {}
      <4>1. mine \ V = mine
        BY <3>2
      <4> QED
        BY <2>t, <2>7, <3>2, <4>1
    <3> QED
      BY <2>t, <2>2, <2>3, <3>1, <3>2, EvictionsFit
  <2>10. /\ IsFiniteSet((mine \ V) \cup {t})
         /\ Cardinality((mine \ V) \cup {t}) <= MaxSessions
    <3> DEFINE S == mine \ V
    <3>1. IsFiniteSet(S) /\ Cardinality(S) \in Nat /\ Cardinality(S) <= MaxSessions - 1
      BY <2>6, <2>7, <2>9
    <3> HIDE DEF S
    <3>2. /\ IsFiniteSet(S \cup {t})
          /\ Cardinality(S \cup {t}) =
                IF t \in S THEN Cardinality(S) ELSE Cardinality(S) + 1
      BY <3>1, FS_AddElement
    <3>3. Cardinality(S \cup {t}) <= MaxSessions
      BY <2>t, <3>1, <3>2
    <3> QED
      BY <3>2, <3>3 DEF S
  <2>11. Cardinality(after) <= Cardinality((mine \ V) \cup {t})
         /\ Cardinality(after) \in Nat /\ Cardinality((mine \ V) \cup {t}) \in Nat
    BY <2>5, <2>10, FS_Subset, FS_CardinalityType
  <2> QED
    BY <2>t, <2>10, <2>11
<1>2. IInv /\ [Next]_vars =>
        [\A t \in Tokens :
            (rows[t] = Nothing /\ rows'[t] # Nothing /\ storeErrors' = storeErrors)
                => Cardinality({s \in Tokens : /\ rows'[s] # Nothing
                                               /\ rows'[s].user = rows'[t].user})
                     <= MaxSessions]_vars
  BY <1>1
<1> QED
  BY <1>2, InvCorrect, PTL DEF Spec, LimitRestored

\* Wherever the host is, a session is lost only when it was revoked, made room for a
\* new one of its user, or will expire in less than the time by which local time is
\* behind UTC: for any durations of which the one a session lasts is not longer than
\* the one it may be idle.
THEOREM LostForCauseCorrect == Spec => LostForCause
<1>1. ASSUME IInv, [Next]_vars, NEW t \in Held, rows'[t] = Nothing
      PROVE  \/ now + Early > rows[t].expires
             \/ t \in revoking
             \/ \E n \in Tokens : MakesRoom(n, rows[t].user)
  <2>1. CASE Stale(t)
    <3>1. /\ now \in Int /\ rows[t].expires \in Int /\ rows[t].seen \in Int
          /\ rows[t].expires <= rows[t].seen + SessionDuration
      BY <1>1 DEF IInv, TypeOK, Session, Held, RowsOwned
    <3>2. /\ SessionDuration \in Int /\ IdleLimit \in Int /\ Offset \in Int
          /\ SessionDuration <= IdleLimit
      BY SessionsAssumption
    <3> QED
      BY <2>1, <3>1, <3>2 DEF Stale, Below, Early
  <2>2. ASSUME NEW n \in Tokens, SaveSession(n) \/ SaveFails(n),
               NEW V \in Evictions(login[n].user), t \in V
        PROVE  MakesRoom(n, rows[t].user)
    <3>1. /\ login[n].stage = "save" /\ login'[n].stage # "save"
          /\ login[n].user \in Users /\ MaxSessions \in Nat
      BY <1>1, <2>2, SessionsAssumption
      DEF SaveSession, SaveFails, LoginAt, IInv, TypeOK, LoginsNamed
    <3>2. t \in SessionsOf(login[n].user)
          /\ Cardinality(SessionsOf(login[n].user)) >= MaxSessions
      BY <2>2, <3>1, EvictionsFit
    <3> QED
      BY <3>1, <3>2 DEF MakesRoom, SessionsOf
  <2> QED
    BY <1>1, <2>1, <2>2, GoesForReason
<1>2. IInv /\ [Next]_vars =>
        [\A t \in Held : rows'[t] = Nothing =>
            \/ now + Early > rows[t].expires
            \/ t \in revoking
            \/ \E n \in Tokens : MakesRoom(n, rows[t].user)]_vars
  BY <1>1
<1> QED
  BY <1>2, InvCorrect, PTL DEF Spec, LostForCause

\* Wherever the host is, a flow is deleted no earlier before it expires than local
\* time is behind UTC.
THEOREM FlowsKeptCorrect == Spec => FlowsKept
<1>1. ASSUME IInv, [Next]_vars, NEW f \in Flows,
             flows[f] # Nothing, flows'[f] = Nothing
      PROVE  now + Early > flows[f].expires
  <2>t. /\ flows \in [Flows -> DeviceFlow \cup {Nothing}] /\ flows[f] \in DeviceFlow
        /\ now \in Int /\ Offset \in Int /\ Nothing \notin DeviceFlow
        /\ flows[f].expires \in Int
    BY <1>1, SessionsAssumption DEF IInv, TypeOK, DeviceFlow
  <2>1. CASE CleanupDeviceFlows
    BY <1>1, <2>t, <2>1 DEF CleanupDeviceFlows, Delete, Below, Early
  <2>2. ASSUME NEW g \in Flows, Authorize(g)
        PROVE  FALSE
    BY <1>1, <2>t, <2>2 DEF Authorize, IInv, FlowsTold
  <2>3. ASSUME NEW t \in Tokens, UpdateDeviceFlow(t)
        PROVE  FALSE
    <3>1. ASSUME NEW g \in Flows
          PROVE  /\ flows[g] \in DeviceFlow =>
                      [flows[g] EXCEPT !.status = "authorized", !.token = t] \in DeviceFlow
      BY DEF DeviceFlow
    <3> QED
      BY <1>1, <2>t, <2>3, <3>1 DEF UpdateDeviceFlow
  <2>4. ASSUME flows' = flows
        PROVE  FALSE
    BY <1>1, <2>4
  <2> QED
    BY <1>1, <2>1, <2>2, <2>3, <2>4
    DEF Next, LoginStep, SessionStep, FlowStep, Callback, SaveSession,
        SaveBeyondLimit, SaveFails, Use, BeginRevoke, DeleteSession, Touch, Poll,
        CleanupSessions, Tick, Restart, vars
<1>2. IInv /\ [Next]_vars =>
        [\A f \in Flows : (flows[f] # Nothing /\ flows'[f] = Nothing)
            => now + Early > flows[f].expires]_vars
  BY <1>1
<1> QED
  BY <1>2, InvCorrect, PTL DEF Spec, FlowsKept
=============================================================================
