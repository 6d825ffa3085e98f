# TLA+ verification of molly-discord-relay

The relay connects Discord to terminals. A Discord bot receives gateway events
and passes them to a WebSocket hub, which streams them to every terminal; a REST
API lets a terminal post messages and files through per-channel webhooks, set a
status, read history and manage its session; one SQLite database keeps what must
survive a restart. This directory holds TLA+ modules of the parts of the relay
that are hard to get right by testing, TLC configurations that check them on
small instances, and theorems that TLAPS proves for every value of the
constants. Paths below are relative to `src/`.

Contents: [inventory](#inventory) - [modules](#modules) - [runs](#runs) -
[fairness](#fairness) - [proofs](#proofs) - [where code and documents
disagree](#where-code-and-documents-disagree) - [what is left out](#what-is-left-out) -
[plan](#plan) - [how to run](#how-to-run)

## Inventory

| Component | Code | State | Operations | Who else touches it |
|---|---|---|---|---|
| WebSocket hub | `internal/websocket/hub.go`, `client.go` | `clients`, `closedSend`, `clientCount`, `usernames`, three channels, one `send` channel per client | `Run` (register, unregister, distribute, evict), `Broadcast`, `SetUsername`/`RemoveUsername`, `Shutdown`, `ServeWS`, `readPump`, `writePump` | every component broadcasts through it; main shuts it down |
| Webhook posting | `internal/discord/client.go` 54-262 | `webhookCache` under `webhookMu`, the `webhooks` table | `SendWebhookMessage`, `SendWebhookFile`, `getOrCreateWebhook`, `invalidateWebhook`, `loadWebhookCache` | PostMessage and PostFile call it; users delete webhooks at Discord |
| Rate limiter | `internal/ratelimit/limiter.go` | `sessions` map of limiters, four token buckets each | `get`, `Allow`, `cleanup` | the rate-limited handlers of the API |
| Sessions and device flow | `internal/auth/auth.go`, `cmd/main.go` 230-400, `internal/api/server.go`, `internal/storage/sqlite.go` 768-915 | `sessions` and `device_flows` tables, goroutines that write `last_seen_at` | authorize, callback, poll, use, revoke, two clean-ups | AuthMiddleware guards every other endpoint |
| Presence tracker | `internal/presence/tracker.go` | `last`, the `statuses` table | `SetStatus`; `SetOnline`/`SetOffline` (no caller) | PostStatus; broadcasts through the hub |
| Message relay | `internal/api/server.go` 308-513 (PostMessage, PostFile), `internal/discord/handlers.go` | `messages` table, hub stream | onMessageCreate, onMessageUpdate, onMessageDelete, posting; typing and reaction events pass through | hub, webhook posting, history |
| Guild and channel catalogue | `internal/discord/client.go` 336-406, `cmd/main.go` 70-127, `sqlite.go` 442-517, 719-729 | `guilds`, `channels` tables | onReady, onGuildCreate, syncGuild, resolveChannel, CheckBotGuild | API listings |
| Message history | `server.go` 515-568, 686-771, `sqlite.go` 273-362 | `messages` table (read) | GetHistory, GetChannelMessages | message relay, the terminal's stream |
| Schema migration | `sqlite.go` 55-189 | the schema, `_meta` | one pass at start | main, which exits when it fails |
| Setup configuration, token encryption, configuration, audit log, models | `sqlite.go`, `auth/encrypt.go`, `config`, `audit`, `models` | one row, or none | reads and replaces, pure functions, log lines | - |

How they interact. The hub is one goroutine with channels; everything else runs
on HTTP or gateway goroutines that share the store (one `RWMutex`), the webhook
cache (`webhookMu`) and the limiter (`l.mu` and one mutex per bucket). No lock is
held from one component's call to the next, so an operation that reads, decides
and writes is several steps between which others run.

What is hard, and what makes each component correct:

- **Hub.** Four goroutines can close a client's connection or its channel: Run at
  eviction, Run at unregistration, Shutdown, and the pumps. Closing a closed Go
  channel, or sending on one, ends the process. A client must be cut off when
  its buffer is full, not skipped; must be forgotten completely however it
  left; must not remain in the list of users.
- **Webhook posting.** Cache and row are changed under different mutexes. Two
  requests may both find no webhook; Discord may show a message and lose the
  answer; a retry may find the webhook that was just found to be gone.
- **Limiter.** A request looks its limiter up, releases the lock and uses it
  later. Forgetting an idle limiter must not hand out a second burst.
- **Sessions.** A goroutine may write a session's `last_seen_at` after the session
  was revoked; a failed deletion leaves a session too many; times are compared
  as text.
- **Presence.** The debounce is read and written under two locks, before the
  status is stored.
- **Message relay.** discordgo runs every event's handler on a goroutine of its own,
  so the handlers of one message overtake one another; each announces first and
  stores afterwards, while PostMessage stores first. A terminal's message comes
  back through the gateway. No error of the store is noticed.
- **History.** Pages are cut by timestamps, named by rows that may be deleted, while
  messages arrive; a terminal puts pages and stream together.
- **Catalogue.** onReady replaces both tables with what it was told some time ago,
  while other goroutines insert.
- **Migration.** Every statement commits on its own, and the version is written last.

The full list, with lines and the properties that cover each, is under
`hazards` in `PROJECT.json`.

## Modules

| Module | What it is |
|---|---|
| `Feed` | abstract specification of the event stream: every terminal receives a contiguous run of what was published, in order, from its joining on |
| `WebsocketHub`, `WebsocketHubProofs` | hub and pumps, which implement `Feed` |
| `Webhooks`, `WebhooksProofs` | posting to one channel |
| `TokenBucket` | abstract specification of the limiter: buckets that are never forgotten |
| `RateLimiter`, `RateLimiterProofs` | the limiter with lookup, clean-up and limiter objects, which implements `TokenBucket` |
| `Sessions`, `SessionsProofs` | sessions and the device flow |
| `Presence`, `PresenceProofs` | setting a status |
| `MessageRelay`, `MessageRelayProofs` | how messages reach the table and the stream: posting and the gateway handlers |
| `History` | extends `MessageRelay` by a terminal that follows the stream and reads the history in pages |
| `GuildCatalog`, `GuildCatalogProofs` | the tables of guilds and channels |
| `Migration`, `MigrationProofs` | the schema migration |
| `MC...` | instances for TLC: symmetry sets, and constants that a `.cfg` cannot write |

A `...Proofs` module holds the theorems about the module it is named after; `MessageRelayProofs` also those about
`History`, whose invariant contains the relay's, and `RateLimiterProofs` those about the buckets of `TokenBucket`.

An operator that some modules state next to a definition and never use
(`NobodySlow`, `KeepLock`, `EvictOnlyOne`, ...) is a plausible wrong version of that
definition. Substituting it for the right one makes the property named with it
under `mutants` in `PROJECT.json` fail, which shows that the property is about
something.

### WebsocketHub

A step is a section under a mutex, a channel operation or a call on a connection.
`hubAt` is the place of `Run`: at its `select`, or within one of the cases, with
`pending` the clients that case still has to handle. Distribution of a message is two
critical sections in the code (offer under `RLock`, collect the slow, then
evict each under `Lock`), and two steps or more here: `Distribute`, `LockToEvict`,
`Evict`, `EvictionDone`; Shutdown may run between the two sections. Unbuffered
channels are a rendezvous: `SelectRegister` and `SelectUnregister` are taken by
Run and by the waiting goroutine together. `broadcastTerminalUsers` reads the users in
one step and enqueues in another (`ReadSnapshot`, `EnqueueSnapshot`), on whichever goroutine
called it. `Broadcast` drops a message when the buffer is full, as the code
does. A panic is a state (`panicked`), reached by any step that would close or
send on a closed channel. `log`, `joined`, `delivered` and `lastSnapshot` are history
variables: they record what was distributed and written and are read by no guard.
A connection is `open`, `broken` (the peer left or the network failed, not yet
noticed) or `closed` by one of the pumps.

### Webhooks

One channel, since channels share only `webhookMu`. Every step of
`SendWebhookMessage` and `getOrCreateWebhook` that leaves the process or takes a
lock is an action. A webhook is a number; `live` is the set that exists at
Discord. A call of Discord can fail before or after it took effect (`lost`). The
token in a row is `good` or `empty` for a reader: `StoredToken` says what comes out
of a sealed row with and without the key, because `GetWebhook` reads with none.
`Restart` drops the cache and the goroutines, may change the key, and reloads
the cache from the row as `loadWebhookCache` does. `retrying` tells the second attempt from
the first; `kind` tells messages (retried), files (not) and replies (sent by the bot itself).

### TokenBucket and RateLimiter

Time is discrete. The limiter keeps objects apart from the map that names them,
because a request can hold an object that the clean-up has dropped. `Available`
maps the state of the limiter to the abstract bucket: what a request would find
now, a full bucket if the session has no limiter. `IdleAssumption` states why that
works: after the hour of `cleanup`, less the time between the two steps of a
request, every bucket would be full again. An observer (`since`, `granted`) may start
counting at any moment, so bounds hold for every interval and not only from the
start.

### Sessions

A step is one operation of the store. The callback is `Callback` (exchange the code,
make a token), `SaveSession` or one of its failures, and `UpdateDeviceFlow`; a restart may
fall between them. `SaveBeyondLimit` and `SaveFails` are the ignored and the reported
error. `Touch` is the goroutine of `GetSessionByHash`. `ORDER BY last_seen_at` may choose
any of several equally old rows (`FirstSeen`). `Offset` is local time minus UTC, negative west of it: Go
writes local time, `datetime('now')` is UTC, and both are compared as text (`Below`), so a host west of UTC
deletes sessions and flows before they expire, by the difference (`Early`), and one east of it keeps them longer.
The offset is constant; a change to or from summer time is not modelled. `postOAuthCallback`
is modelled as its comment says the frontend calls it; see below.

### Presence

`Check` (read lock), `Mark` (write lock), `Store` or `StoreFails`, and `Broadcast` are the four
sections of `SetStatus`; PostStatus answers at the end of the last. `shown` is what was
handed to the hub last: whether the hub then drops it is the hub's matter. One user
is modelled, because users share nothing. `held` and `crossed` are history
variables.

### MessageRelay

One channel; a message is a model value and its content a version number, with 0
for no row and -1 for the content of an event that carries only embeds. A handler
is a record that is first at "announce", then at "store": the two calls each of the
three handlers makes, in that order. What Discord sends is `Say`, `Edit`, `Unfurl` (an
update event without author, which comes for every message) and `Delete`; each
starts a handler, or the event is lost because the relay is not connected. The
table's statements are `Applied`: INSERT OR REPLACE, UPDATE, which does nothing without
a row, and DELETE. A request ends with `Refuse` (every early return, and a refusal by Discord) or
goes from `Send` (the call of sendMsg or sendFile; `Webhooks` is what happens inside) over `Record` to `AnnouncePost`; a file
ends after `Record`, since PostFile announces nothing. `Echo` is the message's return through the
gateway: `Heard` says that onMessageCreate drops what bots and webhooks write. `Tell` is
Hub.Broadcast, which may drop the event. `Restart` ends all handlers and requests.
`crossed[m]` records in the "stream" or the "table" that a later event of m
was handled before an earlier one; `hit` records which messages a fault befell. Both are
ghosts: the properties use them to say that there is no other cause.

### History

`Next` takes the steps of `MessageRelay` together with what they mean for a terminal that follows
the stream (`Follow`), and adds the terminal's own: `Watch` (its connection is registered), `Ask` (it
decides what to read, by id with GetHistory or by time with GetChannelMessages) and `ReadPage`.
`Pages` is the set of answers the query may give: ORDER BY leaves the order of equal
timestamps open. `Known` is the subquery for a bound's timestamp: without its row it is NULL,
and the page is empty. A terminal takes a page that is not full for the last one, which
is `has_more` of GetHistory, and what it can conclude from GetChannelMessages, which has no such
field. Restarts and faults are left to the run of `MessageRelay`: they only add causes to `hit`.

Timestamps are text in the table, as Go's `time.Time.String` writes them, and SQLite compares them as text (`Text`, `Sorts`).
Different instants sort as the instants do, the fraction being written without trailing zeros; of the same instant
the zone decides. What the relay makes itself is `models.TimeNow()`, `time.Now().UTC()` (which also drops the
monotonic reading, so no ` m=+...` follows), and ends in `+0000 UTC`, as the bounds `before.UTC()` and `since.UTC()` of
GetChannelMessages do. Discord's times keep the zone Go gives `+00:00`: the host's own, if that has no offset at the time
(`+0000 UTC`, or `+0000 GMT` and `+0000 WET` in the winter of such places), and otherwise one without a name, `+0000 +0000`.
The constant `Zone` says how that sorts, below `UTC` in the last case; the proofs hold for any. `BoundText` is the row's own text when
the bound is an id, and the text in UTC when it is a time: then the row at the bound comes again where its text sorts lower (`GivenAgain`).

### GuildCatalog

`ready` holds the runs of onReady under way, `tasks` the other goroutines. onReady asks for the channels of the
guilds in any order (`FetchGuild`; the order makes no difference to the sets it collects), then replaces
the two tables, each in one transaction. The name in a READY event is blank unless
discordgo's state had already merged the guild's GUILD_CREATE into the stub (`Listed`). A task is an
onGuildCreate, a channel that resolveChannel has found (of its three ways of finding one only
the upsert at the end touches the tables), or a CheckBotGuild that found
no row and runs syncGuild. `Leave`, `MakeChannel` and `DeleteChannel` start nothing: no handler is registered for those events.
`raced`, `gone`, `early`, `clean`, `alone` and `steady` are ghosts that name the causes the
properties except.

### Migration

`Statements` lists what migrate creates in its order; `pos` is the next one. `Start` begins at the first statement
of a version above the one read from `_meta`, or at the first of all when it cannot be
read. Any statement may fail and the process may end between any two, up to three times in all; the
next start begins again. The error of the last ALTER is ignored, a failure like a duplicate
column (`AddTokenColumn`); `ignored` records that a failure was.

## Runs

Deadlock is checked in the runs of the hub, the webhooks, the sessions and the presence. There a
step is always possible or, in the hub and the webhooks, `Idle` and `Rest` say exactly in which
states standing still is right, so that a deadlock elsewhere is found. In `rate_limiter`, `relay`,
`history`, `catalog` and `migration` the bounds on clock, messages, changes and faults end every behaviour.

| Run | Instance | What it shows |
|---|---|---|
| `hub_safety` | 2 clients, buffers of 1, 1 event, 1 identification, symmetric | `NoPanic`, `Lifecycle`, `GapFree`, `LeavesNoTrace`, `NoGhostUser`, `LastSnapshotCurrent`, `CountDrifts`; the hub implements `Feed` |
| `hub_liveness` | 1 client, broadcast buffer of 2, 2 events, 1 identification | `ConnectionsEnd`, `EventuallyDelivered` |
| `webhook_posts` | 2 senders, 2 messages, 2 faults of Discord, 1 store error, 1 deletion, 1 restart | `OneCreator`, `RowAgrees`, `SentOnce`, `EverySendEnds` |
| `webhook_retry` (fails) | 3 messages, 1 deletion, nothing else wrong | a message is lost although one deletion is all that happened |
| `rate_limiter` | the bucket for files (burst 2, one token in 30 s), 2 requests, 3 limiter objects, clock to 8 | `GrantsBounded`, `OneLimiter`, implements `TokenBucket` |
| `sessions` | 2 users, 3 logins, 1 flow, limit 1, 1 store error, 1 restart, clock to 2, local time 1 behind UTC | `TokenOpensSession`, `LastSeenCatchesUp`, `LimitRestored`, `NoResurrection`, `LostForCause`, `FlowsKept` |
| `sessions_west` (fails) | 1 user, 2 logins, 1 flow, local time 2 behind UTC and flows of 1 | a flow is deleted before it expires |
| `presence` | 2 requests, 2 statuses, debounce 2, clock to 4, 2 store errors | `ShownIsStored`, `AnswersAccounted` |
| `relay` | 1 message of a person, 1 of a terminal, 1 file, 1 of a foreign webhook, 2 versions, 2 changes, 1 fault or restart | `TableFollows`, `StreamFollows`, `AnnouncedOnce`, `EventuallyConsistent` |
| `history` | 1 message of a person, 1 of a terminal, 1 file, 1 deletion or unfurled link, clock to 2, pages of 1, a host whose zone is not UTC | `PagesComplete`, `CaughtUp` |
| `catalog` | 1 guild with 1 channel, 2 READY events, 2 changes, 1 call of the API, 1 fault, with and without rows of an earlier process | `CatalogFollows`, `NeverDenied`, `NeverVanishes` |
| `migration` | every earlier version, 3 faults | `VersionHonest`, `FailsOnlyByFault`, `VersionNeverFalls` |

Why the bounds are enough. The hub needs two clients so that one is evicted while
another is served, and so that two goroutines announce users at once; with
buffers of one message, one event and one announcement fill both, so eviction,
dropping and draining all happen. More clients or messages are covered by the
proofs, which do not bound them. For liveness one client suffices: clients wait only
for Run, which every one of them meets in the same states. Webhooks: two senders are
the least that race for the lock; two faults let a first attempt and its retry both
go wrong. Limiter: the clock passes the idle time twice, so a limiter is dropped,
made anew and dropped again within the observer's interval. Sessions: the limit of
5 is 1 here, three logins exceed it twice, and the clock passes a session's and a
flow's expiry; the idle limit is not reached by the clock, as seven days are not before
the 24 hours of a session's life. The host is west of UTC, where times written locally and compared with UTC do harm:
by 1, so that sessions and flows really go early (with no allowance for it, `LostForCause` and `FlowsKept` fail). Presence: the clock passes the debounce twice.
Relay: messages share nothing but the order of the table's mutex, so one of each kind
suffices; two changes let an edit overtake the creation, a deletion overtake both, and two
edits' worth of versions is 2. History: three messages at three times, two of which may be
equal, and pages of one give pages that are full, empty, last, and cut between equal timestamps; the zone is that of most
hosts, the one for which a page asked for by time repeats its bound. `PagesComplete` also holds, with nothing repeated, where the zone is UTC. Catalogue:
everything but the replacement is about one guild, and the replacement writes row by
row, so further guilds repeat the first; two READY events are the least that overlap. Migration: an
interruption, one of the run that repeats it, and one unnoticed failure.

The properties hardest to see from the code:

- `GapFree` relates what is written to a connection, what is buffered and what was
  distributed; it fails if any of eviction, draining or closing is reordered.
- `LimitRestored` is an action property: after a deletion failed, the next
  `SaveSession` that works brings the user back to the limit, not just one closer.
- `ImplementsTokenBucket`: forgetting sessions cannot be noticed by any client,
  whatever the interleaving of lookups, clean-ups and requests.
- `CaughtUp`: a terminal that first follows the stream and then pages through the history has everything,
  because PostMessage stores before it announces. The handlers do it the other way round, so a person's
  message can be missed by a terminal that joins between the two steps; `gap` says that this is the only way.
- `TableFollows` and `EventuallyConsistent`: that handlers run in any order can part table and Discord for good
  in one way only, a later event of the same message stored first.
- `NeverVanishes`: the replacement of a table never shows a reader an empty one, and takes away only what the READY event did not know.

## Fairness

`WebsocketHub!Fairness`: Run, the pumps and main keep running (weak fairness of their
steps); a read or write on a dead connection returns, because of the deadlines of 60 and 10
seconds (client.go 14-15); Go's `select` chooses at random among ready cases, so a case
that is ready again and again is taken (strong fairness of `Distribute`, `SelectRegister`
and `SelectUnregister`). Nothing is assumed of peers: no fairness for connecting,
identifying, leaving, or for Shutdown.

`Webhooks!Fairness`: a goroutine keeps running, calls of Discord and of the store return
(discordgo's HTTP client has a timeout), and `sync.RWMutex` starves nobody, hence strong
fairness of each sender. No fairness for faults, deletions and restarts.

`RelaySpec`: the goroutines of handlers and requests keep running, and their calls of the store and of
the hub return (weak fairness of `HandlerStep` and `RequestStep`; `Broadcast` never blocks, and the store waits
for one mutex). Nothing is assumed of Discord, of faults or of restarts.

The other specifications have no liveness property: their operations are single calls
that wait for nothing but a mutex. In `Migration` nobody restarts the relay by assumption, so
`FailsOnlyByFault` says as an action property what a start can rely on.

## Proofs

TLAPS checks the following for every value of the constants.

`WebsocketHubProofs`, from `HubAssumption` (buffers hold at least one message, `HubLoop` is no
client, `NoName` is no name):

- `TypeCorrect`: `Spec => []TypeOK`.
- `LifecycleCorrect`: `Spec => []Lifecycle`. `Lifecycle` is the inductive invariant. That no
  channel is closed twice does not follow from the step before: it needs that a registered
  client has an open channel, that one the hub has forgotten has a closed one, and that
  the client being registered or unregistered has not been seen or is not
  forgotten yet; `StageOf(c)` says this of each client, tied to `hubAt` and `pending`.
- `NeverPanics` and `LeavesNoTraceCorrect` follow from it.
- `GapFreeCorrect`: inductive relative to `TypeOK` and `Lifecycle`. The case of interest is a message
  distributed to a client whose buffer is full, which leaves the client behind the log
  and makes it one of those being evicted in the same step.
- `UsersCorrect`: `NoGhostUser` and `LastSnapshotCurrent` together; `LastSnapshotCorrect` is its second half.
- `CountDriftsCorrect`: `CountDrifts` speaks of moments when Run is at its `select`; `Counted` of every moment, and of
  each client that is no longer registered it says who forgot it. It needs `Lifecycle`,
  to know that nobody unregisters twice, and the library's facts about cardinalities.
- `FeedImplemented`: `Spec => F!FeedSpec`. Each step maps to `Publish`, `Join`, `Deliver` or a
  stutter; `Deliver` needs `GapFree`, to know that what is written is the next message of the log.

`RateLimiterProofs`, from `RateLimiterAssumption` and `IdleAssumption` (after the idle time, less `MaxPause`, every
bucket is full): `TypeCorrect`, `OneLimiterCorrect`, `TokenBucketImplemented` and `GrantsBoundedCorrect`. The invariant adds to
the types that no stamp lies in the future and a bucket was used at most `MaxPause` after its limiter was
found last (`Stamped`), that a request holds its session's limiter (`Held`), and that sessions do not share
one (`Unshared`). The step of interest is `Cleanup`: what it drops would be full by now, so the abstract bucket does
not change. The last section is about behaviours of the abstract buckets (`Ideal`): `WindowBound` is not inductive, since a grant at
the bound would exceed it; `Paid` adds what is left in the bucket to what was spent, and is (`PaidCorrect`, from which
`WindowBoundCorrect`). The refinement carries it over to the limiter as `GrantsBounded`.

`WebhooksProofs`, for any senders, keys and bounds: `OneCreatorCorrect`, `SentOnceCorrect`, `RowAgreesCorrect` and `TypeCorrect`.
`Attempts` ties what Discord has shown to the place of the sender (a second attempt has one behind it,
shown only if its answer was lost); `CreatesBlindly` says that a webhook is created over an existing row
only when reading the row failed. `OneCreator` and `RowAgrees` then hold each other up: the row
agrees because only the holder of the lock writes it.

`SessionsProofs`, from `SessionsAssumption` (a flow lives no longer than a session, 15 minutes and 24 hours, and a session no
longer than it may be idle, 7 days):

- `TypeCorrect`, `TokenOpensSessionCorrect`, `LastSeenCorrect`. What a poll returns can be judged only through the login
  that made the token, so the invariant ties rows (`RowsOwned`) and flows (`FlowsTold`) to it.
- `NoResurrectionCorrect`, `LimitRestoredCorrect`: action properties. The second counts the rows that are left
  after `Evictions`, which deletes as many as are over the limit, however many that are.
- `LostForCauseCorrect` and `FlowsKeptCorrect`: action properties, for every `Offset`. `Early` is how long before its expiry a
  session or a flow may go, and nothing where local time is not behind UTC. That the clean-up of idle sessions is never the
  earlier one rests on a session's expiry being at most `SessionDuration` after it was last seen.

`MessageRelayProofs`, for any sets of messages and bounds: `TableFollowsCorrect`, `StreamFollowsCorrect`, `AnnouncedOnceCorrect` and
`TypeCorrect`. The properties speak of messages about which nothing is under way; what was stored or told by
then follows only from what held while something was. `TableOrdered` and `StreamOrdered` say it: as long as no event
overtook another and no fault befell the message, exactly the versions up to some k have been dealt with, and k is
what the table, or the stream, shows. That k is the message's last version once no handler is left.
`CreationTold` says of a creation not yet announced who will announce it, or which fault prevents it.

The second part of the module is about `History`, from `HistoryAssumption` (a page holds at least one message; `Zone` is any function to the integers) and for any messages,
limits, faults and deletions: `HistoryCorrect`, `PagesCompleteCorrect` and `CaughtUpCorrect`. `HistoryInv` adds to the relay's invariant:

- `BoundsStamped`: a message that has, or had, a row never gets another timestamp. Whatever the relay does between two pages, the
  pages already read are cut where they were (`TimesStay`).
- `ReadSoFar`: of what the terminal has nothing lies ahead of the next page's bounds (`Ahead`) but what `GivenAgain` names, so no page
  repeats anything else; and what it is owed (which is in the table, `OwedStored`) is there already, has the time of something that is, or lies ahead. The step of interest is
  `ReadPage`, in either direction (`NextPageAhead`): a message the page left out either has the time of its last one or is ahead of the new bound.
  The three ways of asking differ in the text they compare with: by id the order is that of the rows' texts throughout, by time
  the bound's text is not the row's.
- `Followed`, with `StoredByCreation`: what comes to the table after the reading began was announced to the terminal, or the request
  that posted it is about to; a person's message that is not stored yet has no handler past its announcement, but for those in `gap`.

`RelayOn` says what any step of the relay can do to a terminal's view (`StepOn`), so that the terminal's invariant need not look at its
actions one by one.

`GuildCatalogProofs`, from `CatalogAssumption`: `CatalogFollowsCorrect`, `NeverDeniedCorrect`, `NeverVanishesCorrect` and `TypeCorrect`. `RunOK` says of an
onReady at work that what it has collected and has still to ask for covers what is at Discord but for what
`raced` names; `GuildsOK` and `ChannelsOK` say the same of the tables once they are replaced, counting what
a goroutine is about to store (`Naming`, `Coming`). These hold while no two onReadys overlap (`AloneOK`). `SteadyOK` and the last part of `TaskOK`
follow an undisturbed check from its first look to its last. `NeverVanishes` needs `RunOK` for the two steps that
take rows away; that there are no others is the lemma `RowsTaken`.

`PresenceProofs`, from `PresenceAssumption`, for any number of requests: `ShownIsStoredCorrect`, `AnswersAccountedCorrect` and `TypeCorrect`.
`ShownIsStored` speaks of moments when no request is at work. The invariant says of the others that, as long as no status
was stored between the two steps of another request, one request at most is about to announce (`OneAnnouncer`), that it announces
what the row holds (`AnnouncesRow`), and that the row has been announced when there is none (`Announced`). An error
of the store disturbs none of this, because the request then announces nothing.

`MigrationProofs`: `VersionHonestCorrect`, `FailsOnlyByFaultCorrect`, `VersionNeverFallsCorrect` and `TypeCorrect`. `Progress` says that while migrate
is at work, what the statements before `pos` make is in the schema, but for the column of the ignored error: this run
made it, or one that was interrupted, or the release that wrote the version `Start` has read. `VersionHonest` needs it at
`Persist`, the one step at which the version rises.

Only model-checked: liveness (`ConnectionsEnd`, `EventuallyDelivered`, `EverySendEnds`, `EventuallyConsistent`), because fairness and
`ENABLED` are out of the prover's reach. Every other property of a run that should pass is stated by a theorem.

## Where code and documents disagree

Two runs fail and should, each on one property that quotes the repository:

1. `webhook_retry`: "purge and retry once" (client.go 135) is not enough when a second request puts
   the deleted webhook back into the cache between purge and deletion of the row.
2. `sessions_west`: "CleanupDeviceFlows removes expired device flows" (sqlite.go 908), but `expires_at` is written
   in local time (main.go 256) and compared with UTC (sqlite.go 913). West of UTC by the 15 minutes of a flow
   or more, the next clean-up deletes a flow that was just started, and nobody there can log in while
   one comes in between. Sessions (sqlite.go 837, 845) end early by the same difference, several hours out of 24.

Seen while modelling, without a run:

- hub.go 61 counts an evicted client down a second time, so the "total" that is logged, and `ClientCount`,
  drift downwards; hub.go 80 marks an evicted client in `closedSend`, and line 58 takes the mark away only if
  the client is still registered, which after an eviction it is not: marks stay for ever. `CountDrifts` states both.
- "Return session token once, then clear it." (server.go 240) is not done: `Poll` changes nothing, and every poll is answered with the token.
- `getOrCreateWebhook` reads the row without the key (`GetWebhook`, sqlite.go 603), although its comments say "Check DB for a token
  persisted from a previous run" (client.go 280) and "If an encrypted token exists and encryptionKeyHex is provided, it decrypts it"
  (sqlite.go 600): an encrypted row comes back with an empty token, which is cached (`ReadRow`, `StoredToken`).
- GetChannelMessages with `before` returns the row at its bound again on a host whose zone is not UTC, if Discord made its timestamp (sqlite.go
  334-336): a terminal that asks on from the last message it was given gets that one once more and, with a limit of 1, nothing else for ever.
  GetMessages compares the texts of two rows and does not.
- away, coding, away within five seconds is answered "status updated" three times and leaves coding.
- A message that is deleted or edited before its creation was stored keeps its row or its old text
  for ever: `crossed` in `MessageRelay`, with no fault needed.
- A file is stored but never announced (server.go 483-512), and an unfurled link announces an update with an empty
  content and no user (handlers.go 105-110).
- When the row that a `before` or `after` names is deleted, GetHistory answers an empty page and `has_more` false, as at the end
  of the history; messages with the timestamp of a page's last one are skipped.
- GetChannelMessages with `since` orders from new to old, so a page is the newest part, while GetHistory with `after` gives the oldest.
- A guild that is joined while onReady asks for channels is deleted again by ReplaceGuilds; a guild whose
  channels cannot be fetched loses them; a guild that is left stays listed until the next READY; syncGuild stores channels but never the guild.
- A READY event may carry a guild without its name, and ReplaceGuilds then blanks the name that onGuildCreate stored.
- The error of the ALTER of version 6 is ignored whatever it is (sqlite.go 180): after a failure the version says 6
  and the column is missing for good.
- `SaveSession` evicts by `last_seen_at` among all rows, expired ones included (sqlite.go 772-783),
  so an active session may go while an expired one stays until the next clean-up.
- limiter.go 53 says "2/min" for files; a burst of two and a gain of two per minute is four in the first
  minute. `MessagePerMinute = 100` (line 11) is used nowhere, and 5 per second is not the more
  restrictive of the two limits that line 52 names.
- `postOAuthCallback` is never registered with the router (main.go 283-285 says it should be),
  so in this commit no flow leaves `pending`.
- With two requests at once a status can be stored in one order and announced in
  the other, which is what `crossed` records in `Presence`.
- Two announcements of the users online can be enqueued in the other order than they
  were read, and one may be dropped when the buffer is full.

## What is left out

Setup configuration, encryption itself, configuration, audit and the record types are not
modelled: they are single reads and writes or pure functions that interact with nothing.
The users table is not modelled: onGuildMemberAdd and onGuildMemberRemove announce and then write one row,
in any order, like the message handlers. Typing and reaction events change nothing and are
events of the hub. The routing table is not modelled either: a handler main forgets to register is no behaviour of the state.
Of the modelled parts: the text of messages; HTTP headers, parsing and status codes beyond
success and failure; ping and pong except for a ping that fails; `SetOnline` and `SetOffline`, which have
no caller; mentions and names
(`resolveMentions`, `channelName`), which the relay looks up at Discord for the text of an event; a restart in `Presence`, after which `last` is empty and the first status is
stored like any first one; several channels in `Webhooks` and several users in `Presence`, which
share nothing but a mutex; random collisions of tokens and device codes.

## Plan

Done, in this order: `Feed`, `WebsocketHub` and its proofs, `Webhooks`, `TokenBucket`,
`RateLimiter`, `Sessions`, `Presence`, `MessageRelay`, `History`, `GuildCatalog`, `Migration`; then the theorems of
`RateLimiterProofs`, `MigrationProofs`, `WebhooksProofs`, `SessionsProofs`, `MessageRelayProofs`, `GuildCatalogProofs`,
`PresenceProofs`; of the hub, `CountDrifts`; of `History`, `PagesComplete` and `CaughtUp`.

Open: the users table, and a restart while a terminal reads the history.

## How to run

    tlc -workers 2 -config HubSafe.cfg MCWebsocketHub
    tlapm WebsocketHubProofs.tla

`PROJECT.json` lists the module and configuration of each run. The largest takes about a
minute and a half.
