--------------------------- MODULE WebhooksProofs ---------------------------
(***************************************************************************)
(* Theorems about Webhooks, for any senders, keys and bounds.              *)
(***************************************************************************)
EXTENDS Webhooks, TLAPS

\* SentOnce says how often Discord has shown a message, which follows from where
\* the sender is: before the first attempt nothing is shown, and a sender that
\* tries again has one attempt behind it, which may have been shown only if the
\* answer was lost.
Attempts ==
    \A s \in Senders :
        /\ pc[s] # "idle" =>
            /\ outcome[s] = "none"
            /\ \/ posts[s] = 0
               \/ /\ posts[s] = 1 /\ lost >= 1 /\ kind[s] = "message"
                  /\ pc[s] # "bot"
                  /\ retrying[s] = TRUE \/ pc[s] \in {"purge", "deleteRow"}
        /\ retrying[s] = TRUE =>
               kind[s] = "message" /\ pc[s] \notin {"purge", "deleteRow", "bot"}
        /\ pc[s] \in {"purge", "deleteRow"} => kind[s] = "message"

\* A sender creates a webhook although the table has one only if the store
\* failed when it looked.
CreatesBlindly ==
    \A s \in Senders :
        pc[s] \in {"create", "save"} /\ row # NoRow => storeErrors >= 1

IInv == TypeOK /\ OneCreator /\ SentOnce /\ RowAgrees /\ Attempts /\ CreatesBlindly

-----------------------------------------------------------------------------
(* Every step keeps it.                                                    *)

\* The cache is read.
LEMMA CacheLookupKeeps ==
  ASSUME IInv, NEW s \in Senders, CacheLookup(s)
  PROVE  IInv'
<1>t. /\ TypeOK /\ OneCreator /\ SentOnce /\ RowAgrees /\ Attempts /\ CreatesBlindly
      /\ Nobody \notin Senders /\ MaxMessages \in Nat /\ MaxFaults \in Nat
      /\ MaxStoreErrors \in Nat
  BY WebhooksAssumption DEF IInv
<1>1. TypeOK'
  <2>1. /\ pc' \in [Senders -> {"idle", "lookup", "wantLock", "readRow", "create",
                          "save", "execute", "purge", "deleteRow", "bot"}]
        /\ kind' \in [Senders -> {"message", "file", "reply"}]
        /\ outcome' \in [Senders -> {"none", "sent", "failed"}]
    BY <1>t DEF TypeOK, CacheLookup, Goto, Use, locals, budgets
  <2>e. entry' \in [Senders -> [id : Ids, token : {"good", "empty"}]]
    BY <1>t DEF TypeOK, CacheLookup, Goto, Use, locals, budgets
  <2>2. retrying' \in [Senders -> BOOLEAN]
    BY <1>t DEF TypeOK, CacheLookup, Goto, Use, locals, budgets
  <2>3. posts' \in [Senders -> 0..2]
    BY <1>t DEF TypeOK, Attempts, CacheLookup, Goto, Use, locals, budgets
  <2>4. /\ messages' \in 0..MaxMessages /\ faults' \in 0..MaxFaults
        /\ storeErrors' \in 0..MaxStoreErrors /\ deletions' \in 0..MaxDeletions
        /\ restarts' \in 0..MaxRestarts /\ lost' \in 0..faults'
    BY <1>t DEF TypeOK, CacheLookup, Goto, Use, locals, budgets
  <2>5. /\ cache' \in [id : Ids, token : {"good", "empty"}]
        /\ row' \in [id : Ids, sealed : Keys \cup {NoKey}]
        /\ lock' \in Senders \cup {Nobody} /\ key' \in Keys \cup {NoKey}
    BY <1>t DEF TypeOK, NoRow, NoEntry, Ids, CacheLookup, Goto, Use, locals, budgets
  <2>6. live' \subseteq Ids \ {0} /\ made' \in Ids
    BY <1>t DEF TypeOK, Ids, NoRow, NoEntry, CacheLookup, Goto, Use, locals, budgets
  <2> QED
    BY <2>1, <2>e, <2>2, <2>3, <2>4, <2>5, <2>6 DEF TypeOK
<1>2. OneCreator'
  BY <1>t DEF TypeOK, OneCreator, CacheLookup, Goto, Use, locals, budgets
<1>3. Attempts'
  BY <1>t DEF TypeOK, Attempts, CacheLookup, Goto, Use, locals, budgets
<1>4. SentOnce'
  BY <1>t DEF TypeOK, SentOnce, Attempts, CacheLookup, Goto, Use, locals, budgets
<1>5. CreatesBlindly'
  BY <1>t DEF TypeOK, CreatesBlindly, CacheLookup, Goto, Use, locals, budgets
<1>6. RowAgrees'
  BY <1>t DEF TypeOK, OneCreator, RowAgrees, CreatesBlindly, NoRow, NoEntry, CacheLookup, Goto, Use, locals, budgets
<1> QED
  BY <1>1, <1>2, <1>3, <1>4, <1>5, <1>6 DEF IInv

\* webhookMu is taken, or the cache has an entry now.
LEMMA LockAndRecheckKeeps ==
  ASSUME IInv, NEW s \in Senders, LockAndRecheck(s)
  PROVE  IInv'
<1>t. /\ TypeOK /\ OneCreator /\ SentOnce /\ RowAgrees /\ Attempts /\ CreatesBlindly
      /\ Nobody \notin Senders /\ MaxMessages \in Nat /\ MaxFaults \in Nat
      /\ MaxStoreErrors \in Nat
  BY WebhooksAssumption DEF IInv
<1>1. TypeOK'
  <2>1. /\ pc' \in [Senders -> {"idle", "lookup", "wantLock", "readRow", "create",
                          "save", "execute", "purge", "deleteRow", "bot"}]
        /\ kind' \in [Senders -> {"message", "file", "reply"}]
        /\ outcome' \in [Senders -> {"none", "sent", "failed"}]
    BY <1>t DEF TypeOK, LockAndRecheck, Goto, Use, locals, budgets
  <2>e. entry' \in [Senders -> [id : Ids, token : {"good", "empty"}]]
    BY <1>t DEF TypeOK, LockAndRecheck, Goto, Use, locals, budgets
  <2>2. retrying' \in [Senders -> BOOLEAN]
    BY <1>t DEF TypeOK, LockAndRecheck, Goto, Use, locals, budgets
  <2>3. posts' \in [Senders -> 0..2]
    BY <1>t DEF TypeOK, Attempts, LockAndRecheck, Goto, Use, locals, budgets
  <2>4. /\ messages' \in 0..MaxMessages /\ faults' \in 0..MaxFaults
        /\ storeErrors' \in 0..MaxStoreErrors /\ deletions' \in 0..MaxDeletions
        /\ restarts' \in 0..MaxRestarts /\ lost' \in 0..faults'
    BY <1>t DEF TypeOK, LockAndRecheck, Goto, Use, locals, budgets
  <2>5. /\ cache' \in [id : Ids, token : {"good", "empty"}]
        /\ row' \in [id : Ids, sealed : Keys \cup {NoKey}]
        /\ lock' \in Senders \cup {Nobody} /\ key' \in Keys \cup {NoKey}
    BY <1>t DEF TypeOK, NoRow, NoEntry, Ids, LockAndRecheck, Goto, Use, locals, budgets
  <2>6. live' \subseteq Ids \ {0} /\ made' \in Ids
    BY <1>t DEF TypeOK, Ids, NoRow, NoEntry, LockAndRecheck, Goto, Use, locals, budgets
  <2> QED
    BY <2>1, <2>e, <2>2, <2>3, <2>4, <2>5, <2>6 DEF TypeOK
<1>2. OneCreator'
  BY <1>t DEF TypeOK, OneCreator, LockAndRecheck, Goto, Use, locals, budgets
<1>3. Attempts'
  BY <1>t DEF TypeOK, Attempts, LockAndRecheck, Goto, Use, locals, budgets
<1>4. SentOnce'
  BY <1>t DEF TypeOK, SentOnce, Attempts, LockAndRecheck, Goto, Use, locals, budgets
<1>5. CreatesBlindly'
  BY <1>t DEF TypeOK, CreatesBlindly, LockAndRecheck, Goto, Use, locals, budgets
<1>6. RowAgrees'
  BY <1>t DEF TypeOK, OneCreator, RowAgrees, CreatesBlindly, NoRow, NoEntry, LockAndRecheck, Goto, Use, locals, budgets
<1> QED
  BY <1>1, <1>2, <1>3, <1>4, <1>5, <1>6 DEF IInv

\* The row is read under webhookMu.
LEMMA ReadRowKeeps ==
  ASSUME IInv, NEW s \in Senders, ReadRow(s)
  PROVE  IInv'
<1>t. /\ TypeOK /\ OneCreator /\ SentOnce /\ RowAgrees /\ Attempts /\ CreatesBlindly
      /\ Nobody \notin Senders /\ MaxMessages \in Nat /\ MaxFaults \in Nat
      /\ MaxStoreErrors \in Nat
  BY WebhooksAssumption DEF IInv
<1>1. TypeOK'
  BY <1>t DEF TypeOK, Attempts, Ids, NoEntry, NoRow, ReadRow, Goto, Use, Release, EntryOf, StoredToken, locals, budgets
<1>2. OneCreator'
  BY <1>t DEF TypeOK, OneCreator, ReadRow, Goto, Use, Release, EntryOf, StoredToken, locals, budgets
<1>3. Attempts'
  BY <1>t DEF TypeOK, Attempts, ReadRow, Goto, Use, Release, EntryOf, StoredToken, locals, budgets
<1>4. SentOnce'
  BY <1>t DEF TypeOK, SentOnce, Attempts, ReadRow, Goto, Use, Release, EntryOf, StoredToken, locals, budgets
<1>5. CreatesBlindly'
  BY <1>t DEF TypeOK, CreatesBlindly, ReadRow, Goto, Use, Release, EntryOf, StoredToken, locals, budgets
<1>6. RowAgrees'
  BY <1>t DEF TypeOK, OneCreator, RowAgrees, CreatesBlindly, NoRow, NoEntry, ReadRow, Goto, Use, Release, EntryOf, StoredToken, locals, budgets
<1> QED
  BY <1>1, <1>2, <1>3, <1>4, <1>5, <1>6 DEF IInv

\* No row, or a store error.
LEMMA ReadNoRowKeeps ==
  ASSUME IInv, NEW s \in Senders, ReadNoRow(s)
  PROVE  IInv'
<1>t. /\ TypeOK /\ OneCreator /\ SentOnce /\ RowAgrees /\ Attempts /\ CreatesBlindly
      /\ Nobody \notin Senders /\ MaxMessages \in Nat /\ MaxFaults \in Nat
      /\ MaxStoreErrors \in Nat
  BY WebhooksAssumption DEF IInv
<1>1. TypeOK'
  <2>1. /\ pc' \in [Senders -> {"idle", "lookup", "wantLock", "readRow", "create",
                          "save", "execute", "purge", "deleteRow", "bot"}]
        /\ kind' \in [Senders -> {"message", "file", "reply"}]
        /\ outcome' \in [Senders -> {"none", "sent", "failed"}]
    BY <1>t DEF TypeOK, ReadNoRow, Goto, StoreError, locals, budgets
  <2>e. entry' \in [Senders -> [id : Ids, token : {"good", "empty"}]]
    BY <1>t DEF TypeOK, ReadNoRow, Goto, StoreError, locals, budgets
  <2>2. retrying' \in [Senders -> BOOLEAN]
    BY <1>t DEF TypeOK, ReadNoRow, Goto, StoreError, locals, budgets
  <2>3. posts' \in [Senders -> 0..2]
    BY <1>t DEF TypeOK, Attempts, ReadNoRow, Goto, StoreError, locals, budgets
  <2>4. /\ messages' \in 0..MaxMessages /\ faults' \in 0..MaxFaults
        /\ storeErrors' \in 0..MaxStoreErrors /\ deletions' \in 0..MaxDeletions
        /\ restarts' \in 0..MaxRestarts /\ lost' \in 0..faults'
    BY <1>t DEF TypeOK, ReadNoRow, Goto, StoreError, locals, budgets
  <2>5. /\ cache' \in [id : Ids, token : {"good", "empty"}]
        /\ row' \in [id : Ids, sealed : Keys \cup {NoKey}]
        /\ lock' \in Senders \cup {Nobody} /\ key' \in Keys \cup {NoKey}
    BY <1>t DEF TypeOK, NoRow, NoEntry, Ids, ReadNoRow, Goto, StoreError, locals, budgets
  <2>6. live' \subseteq Ids \ {0} /\ made' \in Ids
    BY <1>t DEF TypeOK, Ids, NoRow, NoEntry, ReadNoRow, Goto, StoreError, locals, budgets
  <2> QED
    BY <2>1, <2>e, <2>2, <2>3, <2>4, <2>5, <2>6 DEF TypeOK
<1>2. OneCreator'
  BY <1>t DEF TypeOK, OneCreator, ReadNoRow, Goto, StoreError, locals, budgets
<1>3. Attempts'
  BY <1>t DEF TypeOK, Attempts, ReadNoRow, Goto, StoreError, locals, budgets
<1>4. SentOnce'
  BY <1>t DEF TypeOK, SentOnce, Attempts, ReadNoRow, Goto, StoreError, locals, budgets
<1>5. CreatesBlindly'
  BY <1>t DEF TypeOK, CreatesBlindly, ReadNoRow, Goto, StoreError, locals, budgets
<1>6. RowAgrees'
  BY <1>t DEF TypeOK, OneCreator, RowAgrees, CreatesBlindly, NoRow, NoEntry, ReadNoRow, Goto, StoreError, locals, budgets
<1> QED
  BY <1>1, <1>2, <1>3, <1>4, <1>5, <1>6 DEF IInv

\* A webhook is created and cached; its creator keeps the lock.
LEMMA CreateKeeps ==
  ASSUME IInv, NEW s \in Senders, Create(s)
  PROVE  IInv'
<1>t. /\ TypeOK /\ OneCreator /\ SentOnce /\ RowAgrees /\ Attempts /\ CreatesBlindly
      /\ Nobody \notin Senders /\ MaxMessages \in Nat /\ MaxFaults \in Nat
      /\ MaxStoreErrors \in Nat
  BY WebhooksAssumption DEF IInv
<1>1. TypeOK'
  BY <1>t DEF TypeOK, Attempts, Ids, NoEntry, NoRow, Create, Goto, Use, locals, budgets
<1>2. OneCreator'
  BY <1>t DEF TypeOK, OneCreator, Create, Goto, Use, locals, budgets
<1>3. Attempts'
  BY <1>t DEF TypeOK, Attempts, Create, Goto, Use, locals, budgets
<1>4. SentOnce'
  BY <1>t DEF TypeOK, SentOnce, Attempts, Create, Goto, Use, locals, budgets
<1>5. CreatesBlindly'
  BY <1>t DEF TypeOK, CreatesBlindly, Create, Goto, Use, locals, budgets
<1>6. RowAgrees'
  BY <1>t DEF TypeOK, OneCreator, RowAgrees, CreatesBlindly, NoRow, NoEntry, Create, Goto, Use, locals, budgets
<1> QED
  BY <1>1, <1>2, <1>3, <1>4, <1>5, <1>6 DEF IInv

\* A creation fails, or its answer is lost: then one more webhook exists.
LEMMA CreateFailsKeeps ==
  ASSUME IInv, NEW s \in Senders, CreateFails(s)
  PROVE  IInv'
<1>t. /\ TypeOK /\ OneCreator /\ SentOnce /\ RowAgrees /\ Attempts /\ CreatesBlindly
      /\ Nobody \notin Senders /\ MaxMessages \in Nat /\ MaxFaults \in Nat
      /\ MaxStoreErrors \in Nat
  BY WebhooksAssumption DEF IInv
<1>1. TypeOK'
  <2>1. /\ pc' \in [Senders -> {"idle", "lookup", "wantLock", "readRow", "create",
                          "save", "execute", "purge", "deleteRow", "bot"}]
        /\ kind' \in [Senders -> {"message", "file", "reply"}]
        /\ outcome' \in [Senders -> {"none", "sent", "failed"}]
    BY <1>t DEF TypeOK, CreateFails, Goto, Release, Finish, Fault, locals, budgets
  <2>e. entry' \in [Senders -> [id : Ids, token : {"good", "empty"}]]
    BY <1>t DEF TypeOK, CreateFails, Goto, Release, Finish, Fault, locals, budgets
  <2>2. retrying' \in [Senders -> BOOLEAN]
    BY <1>t DEF TypeOK, CreateFails, Goto, Release, Finish, Fault, locals, budgets
  <2>3. posts' \in [Senders -> 0..2]
    BY <1>t DEF TypeOK, Attempts, CreateFails, Goto, Release, Finish, Fault, locals, budgets
  <2>4. /\ messages' \in 0..MaxMessages /\ faults' \in 0..MaxFaults
        /\ storeErrors' \in 0..MaxStoreErrors /\ deletions' \in 0..MaxDeletions
        /\ restarts' \in 0..MaxRestarts /\ lost' \in 0..faults'
    BY <1>t DEF TypeOK, CreateFails, Goto, Release, Finish, Fault, locals, budgets
  <2>5. /\ cache' \in [id : Ids, token : {"good", "empty"}]
        /\ row' \in [id : Ids, sealed : Keys \cup {NoKey}]
        /\ lock' \in Senders \cup {Nobody} /\ key' \in Keys \cup {NoKey}
    BY <1>t DEF TypeOK, NoRow, NoEntry, Ids, CreateFails, Goto, Release, Finish, Fault, locals, budgets
  <2>6. live' \subseteq Ids \ {0} /\ made' \in Ids
    <3>1. made \in Nat /\ live \subseteq Nat \ {0}
      BY <1>t DEF TypeOK, Ids
    <3>2. \/ made' = made /\ live' = live
          \/ made' = made + 1 /\ live' = live \cup {made + 1}
      BY DEF CreateFails
    <3>3. made + 1 \in Nat \ {0}
      BY <3>1
    <3>4. CASE made' = made /\ live' = live
      BY <3>1, <3>4 DEF Ids
    <3>5. CASE made' = made + 1 /\ live' = live \cup {made + 1}
      BY <3>1, <3>3, <3>5 DEF Ids
    <3> QED
      BY <3>2, <3>4, <3>5
  <2> QED
    BY <2>1, <2>e, <2>2, <2>3, <2>4, <2>5, <2>6 DEF TypeOK
<1>2. OneCreator'
  BY <1>t DEF TypeOK, OneCreator, CreateFails, Goto, Release, Finish, Fault, locals, budgets
<1>3. Attempts'
  BY <1>t DEF TypeOK, Attempts, CreateFails, Goto, Release, Finish, Fault, locals, budgets
<1>4. SentOnce'
  BY <1>t DEF TypeOK, SentOnce, Attempts, CreateFails, Goto, Release, Finish, Fault, locals, budgets
<1>5. CreatesBlindly'
  BY <1>t DEF TypeOK, CreatesBlindly, CreateFails, Goto, Release, Finish, Fault, locals, budgets
<1>6. RowAgrees'
  BY <1>t DEF TypeOK, OneCreator, RowAgrees, CreatesBlindly, NoRow, NoEntry, CreateFails, Goto, Release, Finish, Fault, locals, budgets
<1> QED
  BY <1>1, <1>2, <1>3, <1>4, <1>5, <1>6 DEF IInv

\* The new row is written: by the only one who holds the lock, so nobody else is between create and save.
LEMMA SaveKeeps ==
  ASSUME IInv, NEW s \in Senders, Save(s)
  PROVE  IInv'
<1>t. /\ TypeOK /\ OneCreator /\ SentOnce /\ RowAgrees /\ Attempts /\ CreatesBlindly
      /\ Nobody \notin Senders /\ MaxMessages \in Nat /\ MaxFaults \in Nat
      /\ MaxStoreErrors \in Nat
  BY WebhooksAssumption DEF IInv
<1>1. TypeOK'
  <2>1. /\ pc' \in [Senders -> {"idle", "lookup", "wantLock", "readRow", "create",
                          "save", "execute", "purge", "deleteRow", "bot"}]
        /\ kind' \in [Senders -> {"message", "file", "reply"}]
        /\ outcome' \in [Senders -> {"none", "sent", "failed"}]
    BY <1>t DEF TypeOK, Save, Goto, Release, StoreError, RowFor, locals, budgets
  <2>e. entry' \in [Senders -> [id : Ids, token : {"good", "empty"}]]
    BY <1>t DEF TypeOK, Save, Goto, Release, StoreError, RowFor, locals, budgets
  <2>2. retrying' \in [Senders -> BOOLEAN]
    BY <1>t DEF TypeOK, Save, Goto, Release, StoreError, RowFor, locals, budgets
  <2>3. posts' \in [Senders -> 0..2]
    BY <1>t DEF TypeOK, Attempts, Save, Goto, Release, StoreError, RowFor, locals, budgets
  <2>4. /\ messages' \in 0..MaxMessages /\ faults' \in 0..MaxFaults
        /\ storeErrors' \in 0..MaxStoreErrors /\ deletions' \in 0..MaxDeletions
        /\ restarts' \in 0..MaxRestarts /\ lost' \in 0..faults'
    BY <1>t DEF TypeOK, Save, Goto, Release, StoreError, RowFor, locals, budgets
  <2>5. /\ cache' \in [id : Ids, token : {"good", "empty"}]
        /\ row' \in [id : Ids, sealed : Keys \cup {NoKey}]
        /\ lock' \in Senders \cup {Nobody} /\ key' \in Keys \cup {NoKey}
    BY <1>t DEF TypeOK, NoRow, NoEntry, Ids, Save, Goto, Release, StoreError, RowFor, locals, budgets
  <2>6. live' \subseteq Ids \ {0} /\ made' \in Ids
    BY <1>t DEF TypeOK, Ids, NoRow, NoEntry, Save, Goto, Release, StoreError, RowFor, locals, budgets
  <2> QED
    BY <2>1, <2>e, <2>2, <2>3, <2>4, <2>5, <2>6 DEF TypeOK
<1>2. OneCreator'
  BY <1>t DEF TypeOK, OneCreator, Save, Goto, Release, StoreError, RowFor, locals, budgets
<1>3. Attempts'
  BY <1>t DEF TypeOK, Attempts, Save, Goto, Release, StoreError, RowFor, locals, budgets
<1>4. SentOnce'
  BY <1>t DEF TypeOK, SentOnce, Attempts, Save, Goto, Release, StoreError, RowFor, locals, budgets
<1>5. CreatesBlindly'
  BY <1>t DEF TypeOK, OneCreator, CreatesBlindly, Save, Goto, Release, StoreError, RowFor, locals, budgets
<1>6. RowAgrees'
  BY <1>t DEF TypeOK, OneCreator, RowAgrees, CreatesBlindly, NoRow, NoEntry, Save, Goto, Release, StoreError, RowFor, locals, budgets
<1> QED
  BY <1>1, <1>2, <1>3, <1>4, <1>5, <1>6 DEF IInv

\* The message is shown.
LEMMA ExecuteKeeps ==
  ASSUME IInv, NEW s \in Senders, Execute(s)
  PROVE  IInv'
<1>t. /\ TypeOK /\ OneCreator /\ SentOnce /\ RowAgrees /\ Attempts /\ CreatesBlindly
      /\ Nobody \notin Senders /\ MaxMessages \in Nat /\ MaxFaults \in Nat
      /\ MaxStoreErrors \in Nat
  BY WebhooksAssumption DEF IInv
<1>1. TypeOK'
  BY <1>t DEF TypeOK, Attempts, Ids, NoEntry, NoRow, Execute, Finish, Posted, Goto, locals, budgets
<1>2. OneCreator'
  BY <1>t DEF TypeOK, OneCreator, Execute, Finish, Posted, Goto, locals, budgets
<1>3. Attempts'
  BY <1>t DEF TypeOK, Attempts, Execute, Finish, Posted, Goto, locals, budgets
<1>4. SentOnce'
  BY <1>t DEF TypeOK, SentOnce, Attempts, Execute, Finish, Posted, Goto, locals, budgets
<1>5. CreatesBlindly'
  BY <1>t DEF TypeOK, CreatesBlindly, Execute, Finish, Posted, Goto, locals, budgets
<1>6. RowAgrees'
  BY <1>t DEF TypeOK, OneCreator, RowAgrees, CreatesBlindly, NoRow, NoEntry, Execute, Finish, Posted, Goto, locals, budgets
<1> QED
  BY <1>1, <1>2, <1>3, <1>4, <1>5, <1>6 DEF IInv

\* The attempt fails, or its answer is lost.
LEMMA ExecuteFailsKeeps ==
  ASSUME IInv, NEW s \in Senders, ExecuteFails(s)
  PROVE  IInv'
<1>t. /\ TypeOK /\ OneCreator /\ SentOnce /\ RowAgrees /\ Attempts /\ CreatesBlindly
      /\ Nobody \notin Senders /\ MaxMessages \in Nat /\ MaxFaults \in Nat
      /\ MaxStoreErrors \in Nat
  BY WebhooksAssumption DEF IInv
<1>1. TypeOK'
  <2>1. /\ pc' \in [Senders -> {"idle", "lookup", "wantLock", "readRow", "create",
                          "save", "execute", "purge", "deleteRow", "bot"}]
        /\ kind' \in [Senders -> {"message", "file", "reply"}]
        /\ outcome' \in [Senders -> {"none", "sent", "failed"}]
    BY <1>t DEF TypeOK, ExecuteFails, Goto, Finish, Posted, Fault, MayRetry, locals, budgets
  <2>e. entry' \in [Senders -> [id : Ids, token : {"good", "empty"}]]
    BY <1>t DEF TypeOK, ExecuteFails, Goto, Finish, Posted, Fault, MayRetry, locals, budgets
  <2>2. retrying' \in [Senders -> BOOLEAN]
    BY <1>t DEF TypeOK, ExecuteFails, Goto, Finish, Posted, Fault, MayRetry, locals, budgets
  <2>3. posts' \in [Senders -> 0..2]
    BY <1>t DEF TypeOK, Attempts, ExecuteFails, Goto, Finish, Posted, Fault, MayRetry, locals, budgets
  <2>4. /\ messages' \in 0..MaxMessages /\ faults' \in 0..MaxFaults
        /\ storeErrors' \in 0..MaxStoreErrors /\ deletions' \in 0..MaxDeletions
        /\ restarts' \in 0..MaxRestarts /\ lost' \in 0..faults'
    BY <1>t DEF TypeOK, ExecuteFails, Goto, Finish, Posted, Fault, MayRetry, locals, budgets
  <2>5. /\ cache' \in [id : Ids, token : {"good", "empty"}]
        /\ row' \in [id : Ids, sealed : Keys \cup {NoKey}]
        /\ lock' \in Senders \cup {Nobody} /\ key' \in Keys \cup {NoKey}
    BY <1>t DEF TypeOK, NoRow, NoEntry, Ids, ExecuteFails, Goto, Finish, Posted, Fault, MayRetry, locals, budgets
  <2>6. live' \subseteq Ids \ {0} /\ made' \in Ids
    BY <1>t DEF TypeOK, Ids, NoRow, NoEntry, ExecuteFails, Goto, Finish, Posted, Fault, MayRetry, locals, budgets
  <2> QED
    BY <2>1, <2>e, <2>2, <2>3, <2>4, <2>5, <2>6 DEF TypeOK
<1>2. OneCreator'
  BY <1>t DEF TypeOK, OneCreator, ExecuteFails, Goto, Finish, Posted, Fault, MayRetry, locals, budgets
<1>3. Attempts'
  BY <1>t DEF TypeOK, Attempts, ExecuteFails, Goto, Finish, Posted, Fault, MayRetry, locals, budgets
<1>4. SentOnce'
  BY <1>t DEF TypeOK, SentOnce, Attempts, ExecuteFails, Goto, Finish, Posted, Fault, MayRetry, locals, budgets
<1>5. CreatesBlindly'
  BY <1>t DEF TypeOK, CreatesBlindly, ExecuteFails, Goto, Finish, Posted, Fault, MayRetry, locals, budgets
<1>6. RowAgrees'
  BY <1>t DEF TypeOK, OneCreator, RowAgrees, CreatesBlindly, NoRow, NoEntry, ExecuteFails, Goto, Finish, Posted, Fault, MayRetry, locals, budgets
<1> QED
  BY <1>1, <1>2, <1>3, <1>4, <1>5, <1>6 DEF IInv

\* The cache is emptied: nobody holds the lock, so nobody creates.
LEMMA PurgeCacheKeeps ==
  ASSUME IInv, NEW s \in Senders, PurgeCache(s)
  PROVE  IInv'
<1>t. /\ TypeOK /\ OneCreator /\ SentOnce /\ RowAgrees /\ Attempts /\ CreatesBlindly
      /\ Nobody \notin Senders /\ MaxMessages \in Nat /\ MaxFaults \in Nat
      /\ MaxStoreErrors \in Nat
  BY WebhooksAssumption DEF IInv
<1>1. TypeOK'
  BY <1>t DEF TypeOK, Attempts, Ids, NoEntry, NoRow, PurgeCache, Goto, locals, budgets
<1>2. OneCreator'
  BY <1>t DEF TypeOK, OneCreator, PurgeCache, Goto, locals, budgets
<1>3. Attempts'
  BY <1>t DEF TypeOK, Attempts, PurgeCache, Goto, locals, budgets
<1>4. SentOnce'
  BY <1>t DEF TypeOK, SentOnce, Attempts, PurgeCache, Goto, locals, budgets
<1>5. CreatesBlindly'
  BY <1>t DEF TypeOK, CreatesBlindly, PurgeCache, Goto, locals, budgets
<1>6. RowAgrees'
  BY <1>t DEF TypeOK, OneCreator, RowAgrees, CreatesBlindly, NoRow, NoEntry, PurgeCache, Goto, locals, budgets
<1> QED
  BY <1>1, <1>2, <1>3, <1>4, <1>5, <1>6 DEF IInv

\* The row is deleted, whatever it holds.
LEMMA DeleteRowKeeps ==
  ASSUME IInv, NEW s \in Senders, DeleteRow(s)
  PROVE  IInv'
<1>t. /\ TypeOK /\ OneCreator /\ SentOnce /\ RowAgrees /\ Attempts /\ CreatesBlindly
      /\ Nobody \notin Senders /\ MaxMessages \in Nat /\ MaxFaults \in Nat
      /\ MaxStoreErrors \in Nat
  BY WebhooksAssumption DEF IInv
<1>1. TypeOK'
  <2>1. /\ pc' \in [Senders -> {"idle", "lookup", "wantLock", "readRow", "create",
                          "save", "execute", "purge", "deleteRow", "bot"}]
        /\ kind' \in [Senders -> {"message", "file", "reply"}]
        /\ outcome' \in [Senders -> {"none", "sent", "failed"}]
    BY <1>t DEF TypeOK, DeleteRow, Goto, StoreError, locals, budgets
  <2>e. entry' \in [Senders -> [id : Ids, token : {"good", "empty"}]]
    BY <1>t DEF TypeOK, DeleteRow, Goto, StoreError, locals, budgets
  <2>2. retrying' \in [Senders -> BOOLEAN]
    BY <1>t DEF TypeOK, DeleteRow, Goto, StoreError, locals, budgets
  <2>3. posts' \in [Senders -> 0..2]
    BY <1>t DEF TypeOK, Attempts, DeleteRow, Goto, StoreError, locals, budgets
  <2>4. /\ messages' \in 0..MaxMessages /\ faults' \in 0..MaxFaults
        /\ storeErrors' \in 0..MaxStoreErrors /\ deletions' \in 0..MaxDeletions
        /\ restarts' \in 0..MaxRestarts /\ lost' \in 0..faults'
    BY <1>t DEF TypeOK, DeleteRow, Goto, StoreError, locals, budgets
  <2>5. /\ cache' \in [id : Ids, token : {"good", "empty"}]
        /\ row' \in [id : Ids, sealed : Keys \cup {NoKey}]
        /\ lock' \in Senders \cup {Nobody} /\ key' \in Keys \cup {NoKey}
    BY <1>t DEF TypeOK, NoRow, NoEntry, Ids, DeleteRow, Goto, StoreError, locals, budgets
  <2>6. live' \subseteq Ids \ {0} /\ made' \in Ids
    BY <1>t DEF TypeOK, Ids, NoRow, NoEntry, DeleteRow, Goto, StoreError, locals, budgets
  <2> QED
    BY <2>1, <2>e, <2>2, <2>3, <2>4, <2>5, <2>6 DEF TypeOK
<1>2. OneCreator'
  BY <1>t DEF TypeOK, OneCreator, DeleteRow, Goto, StoreError, locals, budgets
<1>3. Attempts'
  BY <1>t DEF TypeOK, Attempts, DeleteRow, Goto, StoreError, locals, budgets
<1>4. SentOnce'
  BY <1>t DEF TypeOK, SentOnce, Attempts, DeleteRow, Goto, StoreError, locals, budgets
<1>5. CreatesBlindly'
  BY <1>t DEF TypeOK, CreatesBlindly, DeleteRow, Goto, StoreError, locals, budgets
<1>6. RowAgrees'
  BY <1>t DEF TypeOK, OneCreator, RowAgrees, CreatesBlindly, NoRow, NoEntry, DeleteRow, Goto, StoreError, locals, budgets
<1> QED
  BY <1>1, <1>2, <1>3, <1>4, <1>5, <1>6 DEF IInv

\* The bot posts under its own name.
LEMMA BotSendKeeps ==
  ASSUME IInv, NEW s \in Senders, BotSend(s)
  PROVE  IInv'
<1>t. /\ TypeOK /\ OneCreator /\ SentOnce /\ RowAgrees /\ Attempts /\ CreatesBlindly
      /\ Nobody \notin Senders /\ MaxMessages \in Nat /\ MaxFaults \in Nat
      /\ MaxStoreErrors \in Nat
  BY WebhooksAssumption DEF IInv
<1>1. TypeOK'
  <2>1. /\ pc' \in [Senders -> {"idle", "lookup", "wantLock", "readRow", "create",
                          "save", "execute", "purge", "deleteRow", "bot"}]
        /\ kind' \in [Senders -> {"message", "file", "reply"}]
        /\ outcome' \in [Senders -> {"none", "sent", "failed"}]
    BY <1>t DEF TypeOK, BotSend, Finish, Posted, Fault, Goto, locals, budgets
  <2>e. entry' \in [Senders -> [id : Ids, token : {"good", "empty"}]]
    BY <1>t DEF TypeOK, BotSend, Finish, Posted, Fault, Goto, locals, budgets
  <2>2. retrying' \in [Senders -> BOOLEAN]
    BY <1>t DEF TypeOK, BotSend, Finish, Posted, Fault, Goto, locals, budgets
  <2>3. posts' \in [Senders -> 0..2]
    BY <1>t DEF TypeOK, Attempts, BotSend, Finish, Posted, Fault, Goto, locals, budgets
  <2>4. /\ messages' \in 0..MaxMessages /\ faults' \in 0..MaxFaults
        /\ storeErrors' \in 0..MaxStoreErrors /\ deletions' \in 0..MaxDeletions
        /\ restarts' \in 0..MaxRestarts /\ lost' \in 0..faults'
    BY <1>t DEF TypeOK, BotSend, Finish, Posted, Fault, Goto, locals, budgets
  <2>5. /\ cache' \in [id : Ids, token : {"good", "empty"}]
        /\ row' \in [id : Ids, sealed : Keys \cup {NoKey}]
        /\ lock' \in Senders \cup {Nobody} /\ key' \in Keys \cup {NoKey}
    BY <1>t DEF TypeOK, NoRow, NoEntry, Ids, BotSend, Finish, Posted, Fault, Goto, locals, budgets
  <2>6. live' \subseteq Ids \ {0} /\ made' \in Ids
    BY <1>t DEF TypeOK, Ids, NoRow, NoEntry, BotSend, Finish, Posted, Fault, Goto, locals, budgets
  <2> QED
    BY <2>1, <2>e, <2>2, <2>3, <2>4, <2>5, <2>6 DEF TypeOK
<1>2. OneCreator'
  BY <1>t DEF TypeOK, OneCreator, BotSend, Finish, Posted, Fault, Goto, locals, budgets
<1>3. Attempts'
  BY <1>t DEF TypeOK, Attempts, BotSend, Finish, Posted, Fault, Goto, locals, budgets
<1>4. SentOnce'
  BY <1>t DEF TypeOK, SentOnce, Attempts, BotSend, Finish, Posted, Fault, Goto, locals, budgets
<1>5. CreatesBlindly'
  BY <1>t DEF TypeOK, CreatesBlindly, BotSend, Finish, Posted, Fault, Goto, locals, budgets
<1>6. RowAgrees'
  BY <1>t DEF TypeOK, OneCreator, RowAgrees, CreatesBlindly, NoRow, NoEntry, BotSend, Finish, Posted, Fault, Goto, locals, budgets
<1> QED
  BY <1>1, <1>2, <1>3, <1>4, <1>5, <1>6 DEF IInv

\* A sender starts anew.
LEMMA StartKeeps ==
  ASSUME IInv, NEW s \in Senders, NEW k \in {"message", "file", "reply"},
         Start(s, k)
  PROVE  IInv'
<1>t. /\ TypeOK /\ OneCreator /\ SentOnce /\ RowAgrees /\ Attempts /\ CreatesBlindly
      /\ Nobody \notin Senders /\ MaxMessages \in Nat /\ MaxFaults \in Nat
      /\ MaxStoreErrors \in Nat
  BY WebhooksAssumption DEF IInv
<1>1. TypeOK'
  <2>1. /\ pc' \in [Senders -> {"idle", "lookup", "wantLock", "readRow", "create",
                          "save", "execute", "purge", "deleteRow", "bot"}]
        /\ kind' \in [Senders -> {"message", "file", "reply"}]
        /\ outcome' \in [Senders -> {"none", "sent", "failed"}]
    BY <1>t DEF TypeOK, Start, Goto, locals, budgets
  <2>e. entry' \in [Senders -> [id : Ids, token : {"good", "empty"}]]
    BY <1>t DEF TypeOK, Start, Goto, locals, budgets
  <2>2. retrying' \in [Senders -> BOOLEAN]
    BY <1>t DEF TypeOK, Start, Goto, locals, budgets
  <2>3. posts' \in [Senders -> 0..2]
    BY <1>t DEF TypeOK, Attempts, Start, Goto, locals, budgets
  <2>4. /\ messages' \in 0..MaxMessages /\ faults' \in 0..MaxFaults
        /\ storeErrors' \in 0..MaxStoreErrors /\ deletions' \in 0..MaxDeletions
        /\ restarts' \in 0..MaxRestarts /\ lost' \in 0..faults'
    BY <1>t DEF TypeOK, Start, Goto, locals, budgets
  <2>5. /\ cache' \in [id : Ids, token : {"good", "empty"}]
        /\ row' \in [id : Ids, sealed : Keys \cup {NoKey}]
        /\ lock' \in Senders \cup {Nobody} /\ key' \in Keys \cup {NoKey}
    BY <1>t DEF TypeOK, NoRow, NoEntry, Ids, Start, Goto, locals, budgets
  <2>6. live' \subseteq Ids \ {0} /\ made' \in Ids
    BY <1>t DEF TypeOK, Ids, NoRow, NoEntry, Start, Goto, locals, budgets
  <2> QED
    BY <2>1, <2>e, <2>2, <2>3, <2>4, <2>5, <2>6 DEF TypeOK
<1>2. OneCreator'
  BY <1>t DEF TypeOK, OneCreator, Start, Goto, locals, budgets
<1>3. Attempts'
  BY <1>t DEF TypeOK, Attempts, Start, Goto, locals, budgets
<1>4. SentOnce'
  BY <1>t DEF TypeOK, SentOnce, Attempts, Start, Goto, locals, budgets
<1>5. CreatesBlindly'
  BY <1>t DEF TypeOK, CreatesBlindly, Start, Goto, locals, budgets
<1>6. RowAgrees'
  BY <1>t DEF TypeOK, OneCreator, RowAgrees, CreatesBlindly, NoRow, NoEntry, Start, Goto, locals, budgets
<1> QED
  BY <1>1, <1>2, <1>3, <1>4, <1>5, <1>6 DEF IInv

\* A webhook is deleted at Discord.
LEMMA DeletedAtDiscordKeeps ==
  ASSUME IInv, DeletedAtDiscord
  PROVE  IInv'
<1>1. TypeOK'
  BY WebhooksAssumption DEF IInv, TypeOK, DeletedAtDiscord, locals
<1>2. OneCreator' /\ SentOnce' /\ RowAgrees' /\ Attempts' /\ CreatesBlindly'
  BY DEF IInv, DeletedAtDiscord, locals, OneCreator, SentOnce, RowAgrees,
         Attempts, CreatesBlindly
<1> QED
  BY <1>1, <1>2 DEF IInv

\* After a restart no goroutine is left, and the cache is what the row says, or
\* empty.
LEMMA RestartKeeps ==
  ASSUME IInv, Restart
  PROVE  IInv'
<1>t. /\ TypeOK /\ RowAgrees /\ MaxStoreErrors \in Nat /\ MaxRestarts \in Nat
  BY WebhooksAssumption DEF IInv
<1>1. /\ row' = row /\ key' \in Keys \cup {NoKey} /\ lock' = Nobody
      /\ cache' = NoEntry \/ (row # NoRow /\ \E tk \in {"good", "empty"} :
                                  cache' = [id |-> row.id, token |-> tk])
  BY DEF Restart, EntryOf, StoredToken
<1>2. TypeOK'
  <2>1. /\ cache' \in [id : Ids, token : {"good", "empty"}]
        /\ row' \in [id : Ids, sealed : Keys \cup {NoKey}]
    BY <1>t, <1>1 DEF TypeOK, NoEntry, Ids
  <2>2. storeErrors' \in 0..MaxStoreErrors /\ restarts' \in 0..MaxRestarts
    BY <1>t DEF TypeOK, Restart, StoreError
  <2>3. retrying' \in [Senders -> BOOLEAN]
    BY DEF Restart
  <2>4. /\ pc' = [s \in Senders |-> "idle"] /\ outcome' = [s \in Senders |-> "none"]
        /\ entry' = [s \in Senders |-> NoEntry] /\ posts' = [s \in Senders |-> 0]
        /\ UNCHANGED <<live, made, kind, messages, faults, deletions, lost>>
    BY DEF Restart
  <2>5. entry' \in [Senders -> [id : Ids, token : {"good", "empty"}]]
    BY <2>4 DEF NoEntry, Ids
  <2> QED
    BY <1>t, <1>1, <2>1, <2>2, <2>3, <2>4, <2>5 DEF TypeOK
<1>3. /\ \A s \in Senders : pc'[s] = "idle" /\ outcome'[s] = "none"
      /\ \A s \in Senders : posts'[s] = 0 /\ retrying'[s] = FALSE
  BY DEF Restart
<1>4. OneCreator' /\ SentOnce' /\ Attempts' /\ CreatesBlindly'
  BY <1>3 DEF OneCreator, SentOnce, Attempts, CreatesBlindly
<1>5. RowAgrees'
  BY <1>1 DEF RowAgrees
<1> QED
  BY <1>2, <1>4, <1>5 DEF IInv

LEMMA InvInit == Init => IInv
<1> SUFFICES ASSUME Init
             PROVE  IInv
  OBVIOUS
<1>1. TypeOK
  <2>1. cache \in [id : Ids, token : {"good", "empty"}]
    BY DEF Init, NoEntry, Ids
  <2>2. row \in [id : Ids, sealed : Keys \cup {NoKey}]
    BY DEF Init, NoRow, Ids
  <2>3. entry \in [Senders -> [id : Ids, token : {"good", "empty"}]]
    BY DEF Init, NoEntry, Ids
  <2> QED
    BY <2>1, <2>2, <2>3, WebhooksAssumption DEF Init, TypeOK, Ids
<1>2. OneCreator /\ SentOnce /\ RowAgrees /\ Attempts /\ CreatesBlindly
  BY DEF Init, OneCreator, SentOnce, RowAgrees, Attempts, CreatesBlindly
<1> QED
  BY <1>1, <1>2 DEF IInv

LEMMA InvNext == IInv /\ [Next]_vars => IInv'
<1> SUFFICES ASSUME IInv, [Next]_vars
             PROVE  IInv'
  OBVIOUS
<1>1. ASSUME NEW s \in Senders, SendStep(s)
      PROVE  IInv'
  BY <1>1, CacheLookupKeeps, LockAndRecheckKeeps, ReadRowKeeps, ReadNoRowKeeps,
     CreateKeeps, CreateFailsKeeps, SaveKeeps, ExecuteKeeps, ExecuteFailsKeeps,
     PurgeCacheKeeps, DeleteRowKeeps, BotSendKeeps DEF SendStep
<1>2. ASSUME NEW s \in Senders, NEW k \in {"message", "file", "reply"}, Start(s, k)
      PROVE  IInv'
  BY <1>2, StartKeeps
<1>3. CASE DeletedAtDiscord
  BY <1>3, DeletedAtDiscordKeeps
<1>4. CASE Restart
  BY <1>4, RestartKeeps
<1>5. CASE UNCHANGED vars
  BY <1>5 DEF vars, locals, budgets, IInv, TypeOK, OneCreator, SentOnce, RowAgrees,
              Attempts, CreatesBlindly
<1> QED
  BY <1>1, <1>2, <1>3, <1>4, <1>5 DEF Next, Rest

LEMMA InvCorrect == Spec => []IInv
  BY InvInit, InvNext, PTL DEF Spec

\* At most one sender at a time is past the recheck of the cache; it holds
\* webhookMu, and creates a webhook only while none is cached: for any number of
\* senders, whatever fails.
THEOREM OneCreatorCorrect == Spec => []OneCreator
<1>1. IInv => OneCreator
  BY DEF IInv
<1> QED
  BY <1>1, InvCorrect, PTL

\* What is reported as sent was shown by Discord, and only a message whose answer
\* was lost was shown twice, for any number of messages, faults and restarts.
THEOREM SentOnceCorrect == Spec => []SentOnce
<1>1. IInv => SentOnce
  BY DEF IInv
<1> QED
  BY <1>1, InvCorrect, PTL

\* As long as at most one store operation has failed, the row and the cache name
\* the same webhook whenever nobody is about to write the row.
THEOREM RowAgreesCorrect == Spec => []RowAgrees
<1>1. IInv => RowAgrees
  BY DEF IInv
<1> QED
  BY <1>1, InvCorrect, PTL

\* Every variable stays within its type.
THEOREM TypeCorrect == Spec => []TypeOK
<1>1. IInv => TypeOK
  BY DEF IInv
<1> QED
  BY <1>1, InvCorrect, PTL
=============================================================================
