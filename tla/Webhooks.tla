------------------------------ MODULE Webhooks ------------------------------
(***************************************************************************)
(* The webhook through which the relay posts to one Discord channel:       *)
(* SendWebhookMessage, SendWebhookFile, getOrCreateWebhook,                *)
(* invalidateWebhook and loadWebhookCache of internal/discord/client.go,   *)
(* over the webhooks table of internal/storage/sqlite.go.                  *)
(*                                                                         *)
(* Every HTTP request that posts runs these functions on its own           *)
(* goroutine, here a sender.  The entry of the channel is held in three    *)
(* places: the cache, guarded by webhookMu; the row of the table, guarded  *)
(* by the store's own mutex; and Discord.  getOrCreateWebhook holds        *)
(* webhookMu over the reading of the row, the creation and the saving;     *)
(* invalidateWebhook deletes the row after it has released webhookMu.      *)
(* Channels share nothing but webhookMu, so one channel is modelled.       *)
(*                                                                         *)
(* A step is a section under one mutex or one call of Discord or of the    *)
(* store.  Discord itself is external: webhooks can be deleted there at    *)
(* any time, a call can fail, and the answer to one that worked can be     *)
(* lost.                                                                   *)
(***************************************************************************)
EXTENDS Integers, FiniteSets

CONSTANTS
    Senders,         \* goroutines that post to the channel
    Keys,            \* values WEBHOOK_ENCRYPTION_KEY can have
    NoKey,           \* the key is not set
    Nobody,          \* webhookMu is free
    MaxMessages,     \* bound: messages and files posted
    MaxFaults,       \* bound: calls of Discord that fail or lose their answer
    MaxStoreErrors,  \* bound: store operations that fail
    MaxDeletions,    \* bound: deletions of the webhook by a Discord user
    MaxRestarts      \* bound: restarts of the relay

ASSUME WebhooksAssumption ==
    /\ Nobody \notin Senders
    /\ NoKey \notin Keys
    /\ {MaxMessages, MaxFaults, MaxStoreErrors, MaxDeletions, MaxRestarts}
         \subseteq Nat

VARIABLES
    cache,        \* b.webhookCache for the channel
    row,          \* the channel's row of the webhooks table
    lock,         \* who holds webhookMu for writing
    key,          \* b.encryptionKey
    live,         \* the webhooks that exist at Discord
    made,         \* number of webhooks created so far; ids are 1, 2, ...
    pc,           \* pc[s]: where sender s is
    kind,         \* kind[s]: what s posts
    entry,        \* entry[s]: the wh of s
    retrying,     \* retrying[s]: s has purged and is trying again
    posts,        \* posts[s]: how often Discord has shown what s posts
    outcome,      \* outcome[s]: what s told its caller
    messages, faults, storeErrors, deletions, restarts,
    lost          \* number of lost answers among the faults

locals   == <<kind, entry, retrying, posts, outcome>>
budgets  == <<messages, faults, storeErrors, deletions, restarts, lost>>
vars == <<cache, row, lock, key, live, made, pc, locals, budgets>>

NoEntry == [id |-> 0, token |-> "empty"]
NoRow   == [id |-> 0, sealed |-> NoKey]
Ids     == Nat

TypeOK ==
    /\ cache \in [id : Ids, token : {"good", "empty"}]
    /\ row \in [id : Ids, sealed : Keys \cup {NoKey}]
    /\ lock \in Senders \cup {Nobody}
    /\ key \in Keys \cup {NoKey}
    /\ live \subseteq Ids \ {0}
    /\ made \in Ids
    /\ pc \in [Senders -> {"idle", "lookup", "wantLock", "readRow", "create",
                           "save", "execute", "purge", "deleteRow", "bot"}]
    /\ kind \in [Senders -> {"message", "file", "reply"}]
    /\ entry \in [Senders -> [id : Ids, token : {"good", "empty"}]]
    /\ retrying \in [Senders -> BOOLEAN]
    /\ posts \in [Senders -> 0..2]
    /\ outcome \in [Senders -> {"none", "sent", "failed"}]
    /\ messages \in 0..MaxMessages
    /\ faults \in 0..MaxFaults
    /\ storeErrors \in 0..MaxStoreErrors
    /\ deletions \in 0..MaxDeletions
    /\ restarts \in 0..MaxRestarts
    /\ lost \in 0..faults

\* The first start on an empty database.
Init ==
    /\ cache = NoEntry
    /\ row = NoRow
    /\ lock = Nobody
    /\ key \in Keys \cup {NoKey}
    /\ live = {}
    /\ made = 0
    /\ pc = [s \in Senders |-> "idle"]
    /\ kind = [s \in Senders |-> "message"]
    /\ entry = [s \in Senders |-> NoEntry]
    /\ retrying = [s \in Senders |-> FALSE]
    /\ posts = [s \in Senders |-> 0]
    /\ outcome = [s \in Senders |-> "none"]
    /\ messages = 0 /\ faults = 0 /\ storeErrors = 0
    /\ deletions = 0 /\ restarts = 0 /\ lost = 0

-----------------------------------------------------------------------------
(* Helpers.                                                                *)

Goto(s, l) == pc' = [pc EXCEPT ![s] = l]

\* The sender returns to its caller.
Finish(s, o) ==
    /\ Goto(s, "idle")
    /\ outcome' = [outcome EXCEPT ![s] = o]

KeepLock(s) == UNCHANGED lock

Release(s) == lock' = Nobody

Use(s, e) == entry' = [entry EXCEPT ![s] = e]

Posted(s) == posts' = [posts EXCEPT ![s] = @ + 1]

\* The token in row r for a reader that has key k: the plaintext column is ''
\* when the token was sealed, and is what is left when it cannot be unsealed.
StoredToken(r, k) == IF r.sealed \in {NoKey, k} THEN "good" ELSE "empty"

\* The row that is written for webhook id by a relay with key k.
RowFor(id, k) == [id |-> id, sealed |-> k]

EntryOf(r, k) ==
    IF r = NoRow THEN NoEntry ELSE [id |-> r.id, token |-> StoredToken(r, k)]

\* A call of Discord goes wrong.
Fault == faults < MaxFaults /\ faults' = faults + 1

\* A store operation goes wrong.
StoreError == storeErrors < MaxStoreErrors /\ storeErrors' = storeErrors + 1

-----------------------------------------------------------------------------
(* getOrCreateWebhook.                                                     *)

\* The cache is read under the read lock.
CacheLookup(s) ==
    /\ pc[s] = "lookup"
    /\ lock = Nobody
    /\ IF cache # NoEntry
       THEN Use(s, cache) /\ Goto(s, "execute")
       ELSE Goto(s, "wantLock") /\ UNCHANGED entry
    /\ UNCHANGED <<cache, row, lock, key, live, made, kind, retrying, posts,
                   outcome, budgets>>

LockWithoutRecheck(s) ==
    /\ pc[s] = "wantLock"
    /\ lock = Nobody
    /\ lock' = s /\ Goto(s, "readRow") /\ UNCHANGED entry
    /\ UNCHANGED <<cache, row, key, live, made, kind, retrying, posts, outcome,
                   budgets>>

\* The write lock is taken and the cache is checked again.
LockAndRecheck(s) ==
    /\ pc[s] = "wantLock"
    /\ lock = Nobody
    /\ IF cache # NoEntry
       THEN Use(s, cache) /\ Goto(s, "execute") /\ UNCHANGED lock
       ELSE lock' = s /\ Goto(s, "readRow") /\ UNCHANGED entry
    /\ UNCHANGED <<cache, row, key, live, made, kind, retrying, posts, outcome,
                   budgets>>

\* GetWebhook reads the row, with no key whatever the configuration says.
ReadRow(s) ==
    /\ pc[s] = "readRow"
    /\ row # NoRow
    /\ cache' = EntryOf(row, NoKey)
    /\ Use(s, EntryOf(row, NoKey))
    /\ Release(s)
    /\ Goto(s, "execute")
    /\ UNCHANGED <<row, key, live, made, kind, retrying, posts, outcome, budgets>>

\* There is no row, or the store fails, which is not told from no row.
ReadNoRow(s) ==
    /\ pc[s] = "readRow"
    /\ \/ row = NoRow /\ UNCHANGED storeErrors
       \/ StoreError
    /\ Goto(s, "create")
    /\ UNCHANGED <<cache, row, lock, key, live, made, locals, messages, faults,
                   deletions, restarts, lost>>

CreateAndUnlock(s) ==
    /\ pc[s] = "create"
    /\ made' = made + 1
    /\ live' = live \cup {made'}
    /\ cache' = [id |-> made', token |-> "good"]
    /\ Use(s, cache')
    /\ Release(s)
    /\ Goto(s, "save")
    /\ UNCHANGED <<row, key, kind, retrying, posts, outcome, budgets>>

\* WebhookCreate answers with a new webhook, which is cached at once.
Create(s) ==
    /\ pc[s] = "create"
    /\ made' = made + 1
    /\ live' = live \cup {made'}
    /\ cache' = [id |-> made', token |-> "good"]
    /\ Use(s, cache')
    /\ Goto(s, "save")
    /\ UNCHANGED <<row, lock, key, kind, retrying, posts, outcome, budgets>>

\* WebhookCreate fails, or works but the answer is lost.  A first attempt falls
\* back to the bot's own message, a retry reports the failure.
CreateFails(s) ==
    /\ pc[s] = "create"
    /\ Fault
    /\ \/ UNCHANGED <<made, live, lost>>
       \/ made' = made + 1 /\ live' = live \cup {made'} /\ lost' = lost + 1
    /\ Release(s)
    /\ IF retrying[s]
       THEN Finish(s, "failed")
       ELSE Goto(s, "bot") /\ UNCHANGED outcome
    /\ UNCHANGED <<cache, row, key, kind, entry, retrying, posts, messages,
                   storeErrors, deletions, restarts>>

\* SaveWebhook or SaveWebhookEncrypted; a failure is only logged.
Save(s) ==
    /\ pc[s] = "save"
    /\ \/ row' = RowFor(entry[s].id, key) /\ UNCHANGED storeErrors
       \/ StoreError /\ UNCHANGED row
    /\ Release(s)
    /\ Goto(s, "execute")
    /\ UNCHANGED <<cache, key, live, made, locals, messages, faults, deletions,
                   restarts, lost>>

-----------------------------------------------------------------------------
(* SendWebhookMessage and SendWebhookFile.                                 *)

\* A reply goes through the bot's own account, anything else needs the webhook.
Start(s, k) ==
    /\ pc[s] = "idle"
    /\ messages < MaxMessages
    /\ messages' = messages + 1
    /\ kind' = [kind EXCEPT ![s] = k]
    /\ retrying' = [retrying EXCEPT ![s] = FALSE]
    /\ posts' = [posts EXCEPT ![s] = 0]
    /\ outcome' = [outcome EXCEPT ![s] = "none"]
    /\ Goto(s, IF k = "reply" THEN "bot" ELSE "lookup")
    /\ UNCHANGED <<cache, row, lock, key, live, made, entry, faults,
                   storeErrors, deletions, restarts, lost>>

\* WebhookExecute succeeds: the webhook exists and the token is its token.
Execute(s) ==
    /\ pc[s] = "execute"
    /\ entry[s].id \in live /\ entry[s].token = "good"
    /\ Posted(s)
    /\ Finish(s, "sent")
    /\ UNCHANGED <<cache, row, lock, key, live, made, kind, entry, retrying,
                   budgets>>

RetryEverything(s) == TRUE

\* Only a message, and only its first failure, is tried again.
MayRetry(s) == kind[s] = "message" /\ ~retrying[s]

\* WebhookExecute fails: the webhook or its token is wrong, or the call goes
\* wrong, before or after Discord has shown the message.
ExecuteFails(s) ==
    /\ pc[s] = "execute"
    /\ \/ /\ ~(entry[s].id \in live /\ entry[s].token = "good")
          /\ UNCHANGED <<faults, lost, posts>>
       \/ Fault /\ UNCHANGED <<lost, posts>>
       \/ /\ entry[s].id \in live /\ entry[s].token = "good"
          /\ Fault
          /\ lost' = lost + 1
          /\ Posted(s)
    /\ IF MayRetry(s)
       THEN Goto(s, "purge") /\ UNCHANGED outcome
       ELSE Finish(s, "failed")
    /\ UNCHANGED <<cache, row, lock, key, live, made, kind, entry, retrying,
                   messages, storeErrors, deletions, restarts>>

\* invalidateWebhook empties the cache under webhookMu ...
PurgeCache(s) ==
    /\ pc[s] = "purge"
    /\ lock = Nobody
    /\ cache' = NoEntry
    /\ Goto(s, "deleteRow")
    /\ UNCHANGED <<row, lock, key, live, made, locals, budgets>>

LeaveRow(s) ==
    /\ pc[s] = "deleteRow"
    /\ retrying' = [retrying EXCEPT ![s] = TRUE]
    /\ Goto(s, "lookup")
    /\ UNCHANGED <<cache, row, lock, key, live, made, kind, entry, posts,
                   outcome, budgets>>

\* ... and then deletes the row, whatever it holds by now; errors are ignored.
DeleteRow(s) ==
    /\ pc[s] = "deleteRow"
    /\ \/ row' = NoRow /\ UNCHANGED storeErrors
       \/ StoreError /\ UNCHANGED row
    /\ retrying' = [retrying EXCEPT ![s] = TRUE]
    /\ Goto(s, "lookup")
    /\ UNCHANGED <<cache, lock, key, live, made, kind, entry, posts, outcome,
                   messages, faults, deletions, restarts, lost>>

\* The bot posts under its own name.
BotSend(s) ==
    /\ pc[s] = "bot"
    /\ \/ Posted(s) /\ Finish(s, "sent") /\ UNCHANGED <<faults, lost>>
       \/ Fault /\ Finish(s, "failed") /\ UNCHANGED <<posts, lost>>
       \/ Fault /\ Finish(s, "failed") /\ Posted(s) /\ lost' = lost + 1
    /\ UNCHANGED <<cache, row, lock, key, live, made, kind, entry, retrying,
                   messages, storeErrors, deletions, restarts>>

-----------------------------------------------------------------------------
(* The world around, and the specification.                                *)

\* Somebody deletes a webhook in Discord's settings.
DeletedAtDiscord ==
    /\ deletions < MaxDeletions
    /\ deletions' = deletions + 1
    /\ \E id \in live : live' = live \ {id}
    /\ UNCHANGED <<cache, row, lock, key, made, pc, locals, messages, faults,
                   storeErrors, restarts, lost>>

\* The process ends anywhere and starts again, perhaps with another key.
\* Connect then calls loadWebhookCache, which may fail.
Restart ==
    /\ restarts < MaxRestarts
    /\ restarts' = restarts + 1
    /\ key' \in Keys \cup {NoKey}
    /\ \/ cache' = EntryOf(row, key') /\ UNCHANGED storeErrors
       \/ cache' = NoEntry /\ StoreError
    /\ lock' = Nobody
    /\ pc' = [s \in Senders |-> "idle"]
    /\ outcome' = [s \in Senders |-> "none"]
    /\ entry' = [s \in Senders |-> NoEntry]
    /\ retrying' = [s \in Senders |-> FALSE]
    /\ posts' = [s \in Senders |-> 0]
    /\ UNCHANGED <<row, live, made, kind, messages, faults, deletions, lost>>

SendStep(s) ==
    \/ CacheLookup(s) \/ LockAndRecheck(s)
    \/ ReadRow(s) \/ ReadNoRow(s)
    \/ Create(s) \/ CreateFails(s) \/ Save(s)
    \/ Execute(s) \/ ExecuteFails(s)
    \/ PurgeCache(s) \/ DeleteRow(s) \/ BotSend(s)

\* All messages are handled and nobody posts another one.
Rest ==
    /\ messages = MaxMessages
    /\ \A s \in Senders : pc[s] = "idle"
    /\ UNCHANGED vars

Next ==
    \/ \E s \in Senders :
        \/ SendStep(s)
        \/ \E k \in {"message", "file", "reply"} : Start(s, k)
    \/ DeletedAtDiscord
    \/ Restart
    \/ Rest

\* A goroutine keeps running, calls return, and sync.RWMutex lets neither a
\* reader nor a writer wait for ever.
Fairness == \A s \in Senders : SF_vars(SendStep(s))

Spec == Init /\ [][Next]_vars
FairSpec == Spec /\ Fairness

-----------------------------------------------------------------------------
(* Properties.                                                             *)

\* The double-checked locking (client.go 265-278) works: at most one sender at
\* a time is past the recheck, it holds webhookMu, and until it has created a
\* webhook nothing is cached, so no sender creates one that is already there.
OneCreator ==
    \A s \in Senders : pc[s] \in {"readRow", "create", "save"} =>
        /\ lock = s
        /\ pc[s] # "save" => cache = NoEntry
        /\ pc[s] = "save" => cache = entry[s]

\* The row and the cache never name different webhooks, although the row is
\* written and deleted under another mutex, unless two store operations failed.
RowAgrees ==
    (storeErrors <= 1 /\ row # NoRow /\ cache # NoEntry
        /\ \A s \in Senders : pc[s] # "save")
    => row.id = cache.id

\* What is reported as sent is visible in Discord.  Only a message can be there
\* twice, and only if an answer of Discord was lost; a file never is.
SentOnce ==
    \A s \in Senders :
        /\ outcome[s] = "sent" => posts[s] >= 1
        /\ posts[s] > 1 => kind[s] = "message" /\ lost >= 1

\* Every request to post ends, with whatever interleaving and failures: the lock
\* is released on every path and the retry is bounded.
EverySendEnds == \A s \in Senders : pc[s] # "idle" ~> pc[s] = "idle"

\* "Webhook may have been deleted externally - purge and retry once"
\* (client.go 135): with nothing else wrong, one deletion, or one restart with
\* another key, fails no message.
RetrySurvivesDeletion ==
    (faults = 0 /\ storeErrors = 0 /\ deletions + restarts <= 1) =>
        \A s \in Senders : kind[s] = "message" => outcome[s] # "failed"
=============================================================================
