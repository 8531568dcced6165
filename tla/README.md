# Verification of the Chimely notification inbox

TLA+ models of the Chimely server in `src/server`, of its admin application in
`src/server/admin`, of the headless client in `src/packages/client` and of the
React widget in `src/packages/react`, the configurations that model-check them
with TLC, and proofs of the central invariants checked by TLAPS. Paths below
are relative to the repository's root `src/`.

Chimely keeps an in-app inbox per subscriber. Items come from two sources:
*direct* notifications (one row per recipient) and *broadcasts* (one row per
environment, visible to subscribers who existed when it was written). The
badge must be cheap, so unread and unseen direct items are counted in a
maintained `subscriber_counters` row and never recounted on the read path;
"mark all read", "mark all seen" and "archive all" are watermarks on that row;
and an item whose state differs from its watermark carries an override.
Everything asynchronous goes through one Postgres `jobs` table.

## 1. Inventory

| Component | Code | State | Operations | Hard behaviour |
|---|---|---|---|---|
| Inbox rows and counters | `server/src/api/inbox.rs` | `notifications` (read_at, unread_at, archived_at, unarchived_at), `broadcast_reads`, `broadcast_archives`, `subscriber_counters` | read, unread, archive, unarchive per source; read-all, seen-all, archive-all; list, counts, ETag | interleaving with creates and deliveries, watermark boundaries, override collection |
| Management API | `api/management.rs` | `notifications`, `broadcasts`, `idempotency_keys`, `jobs` | create (immediate, scheduled), broadcast, subscriber upsert, move | a transaction's `now()` against its commit, retries under one key, statement snapshots |
| Preferences | `api/preferences.rs` | `preferences` | get, write | counters kept under the old mutes until a rebuild job runs |
| Worker loop | `worker.rs`, `jobs.rs` | `jobs` (payload, run_at, attempts, progress_cursor) | sweep, claim, fail, park; hint, deliver, timeline, archive_read, counter_rebuild | several workers, crashes between chunks, retries, coalescing |
| Hint plane | `pubsub.rs` | debounce keys in Redis or in process, fan-in channels | publish, subscribe, try_acquire_debounce | publish outside the transaction, suppressed hints, lost keys |
| Dead letters | `dlq.rs` | `dead_letters` | list, replay, replay all | effects of a job that comes back |
| Status timeline | `timeline.rs` | `notification_status_log` | append, append_delivered, window chunks | exactly-once without a unique key |
| SSE stream | `api/sse.rs` | connection counts, receiver | connect, resume, expire, drain | subscribe before check, slot release |
| Authentication | `auth.rs` | `subscribers`, API keys, two HMAC slots, sessions | verify, ensure_subscriber, login, rotate | rotation windows, first contact |
| Admin plane | `api/admin.rs`, `roles.rs` | `admin_users`, `admin_sessions`, environments | roster, composer, DLQ, environments | last enabled admin, logins against resets |
| Root bootstrap | `bootstrap.rs`, `main.rs` | the root account and its sessions | ensure_admin at every boot | replicas that boot at once, crashes between statements |
| Rate limiter | `ratelimit.rs` | token buckets | check | fractional refill, bucket collection |
| Partition maintenance | `partitions.rs` | monthly partitions, idempotency keys | run, run_daily | headroom, retention against live counters |
| Metrics sampler | `metrics_sampler.rs` | gauges | sample, counter_drift | sampling between two steps |
| Headless client | `packages/client/src/client.ts` | snapshot, etag, cursor, generations, stream | connect, refresh, fetchMore, setFilter, mutations | coalescing, optimistic rollback, stale answers |
| React widget | `packages/react/src` | popover, tabs, list with fill loop and pill, panel, owned client | render, effects, clicks, scrolling | effects that run late, overlapping writes, paging under tabs |
| Admin application | `server/admin/src` | query cache, dialogs, session gate | queries, mutations, navigation | lost answers, stale lists, a session that ends meanwhile |
| Docs, benches, examples | `docs`, `bench` | none | | |

How they interact: a management or subscriber handler changes rows and, in the
same transaction, inserts a job (transactional outbox). A worker claims it,
applies its effect and deletes it in one transaction. A hint job publishes a
message that says no more than "something changed"; every replica fans it in
to its SSE streams, and the client answers with a REST refetch of the list and
the badge.

What makes each component correct:

- *Inbox*: the maintained counters equal a recount at all times; the badge
  equals the length of the list; watermarks and overrides behave like one read
  flag and one archived flag per item; a change of what a client sees is always
  announced.
- *Deliver*: each row is counted exactly once, when it becomes due, whatever
  its subscriber does to it before; every accepted notification gets there.
- *Archive-read*: what was read when the request came is archived or has been
  marked unread since; nothing unread is archived.
- *Preferences, move, dead letters*: the counters are exact again as soon as no
  rebuild job is queued; moved items keep their state; both parties are told.
- *Worker and hint plane*: no hint lost, delivered_hint
  written once, and everyone hears in the end.
- *Timeline*: one row per (notification, status), none missing at rest, none
  that tells what did not happen.
- *List validator*: a 304 is answered only if the page is what it was.
- *SSE stream*: a stream that is idle has told its tab of every change; its
  slot is given back however it ends; a shutdown ends every stream.
- *Locks*: sorted and single-row transactions never deadlock, and a job that
  is the victim of a deadlock is done in the end.
- *Client*: the snapshot converges to the server's state; a stale answer never
  stays. *Widget*: the pill, the badge, the empty state and the toggles tell
  the truth, and the list fills.
- *Admin*: an enabled admin always remains, sessions belong to the password in
  force, a restart restores the root admin; a page shows its user's own work.
- *Rate limiter*: at most burst plus rate times elapsed, whatever is forgotten.
- *Partitions*: every insertable month exists.

`PROJECT.json` lists the hazards with their lines and the properties that would
catch them; the few that no property covers say why.

## 2. Modules

| Module | Models | Built on |
|---|---|---|
| `Inbox` | creates, broadcasts, the deliver job, all subscriber mutations, list and badge | |
| `AbstractInbox` | an inbox with one read and one archived flag per item: the promise | |
| `InboxRefinement` | the mapping that shows `Inbox` implements `AbstractInbox` | `Inbox` |
| `ArchiveRead` | the archive-read job, chunk by chunk, among all actions of the core | `Inbox` |
| `InboxUpkeep` | preference writes, counter rebuild, move, parking and replay of deliver jobs | `Inbox` |
| `HintPipeline` | several workers on hint jobs: claim, coalesce, debounce, publish, defer, fail, crash, park, replay | |
| `Timeline` | the status rows: appends, watermark windows, the chunked job, late commits, moves, crashes | |
| `LockOrder` | which rows each kind of transaction locks, in which order; deadlock detection and retries | |
| `ListEtag` | the validator of the list and one reader who polls | `ArchiveRead`, `InboxUpkeep` |
| `SseStream` | replicas, channels, streams, the resume check, the connection cap, shutdown | |
| `TokenBucket`, `RateLimiter` | buckets that are never forgotten, and the two limiters that implement them | |
| `ClientSync` | the headless client: stream, refreshes, paging, views, optimistic mutations, against a server that changes | |
| `PreferencePanel`, `OwnedClient` | the preferences panel; the life of the client a component owns | |
| `InboxWidget` | the widget: popover, tabs, list, pill, badge, clicks | `PreferencePanel`, `OwnedClient` |
| `AdminRoster` | admin users, the roster lock, sessions, logins, resets | |
| `AdminConsole` | the admin application and the environments, keys, letters and broadcasts behind its pages | `AdminRoster` |
| `AdminBoot` | the boots of the replicas and the root account | `AdminRoster` |
| `...Proofs` | theorems: `InboxProofs` (`Inbox` and its refinement, `ArchiveRead`, `InboxUpkeep`, `ListEtag`), `HintPipelineProofs`, `TimelineProofs`, `SseStreamProofs`, `AdminProofs` (`AdminRoster`, `AdminBoot`, `AdminConsole`), `RequestProofs` (`RateLimiter`, `LockOrder`), `ClientProofs` (`ClientSync`), `WidgetProofs` (`InboxWidget`, `PreferencePanel`, `OwnedClient`) | TLAPS |
| `MC...` | instances for TLC | |

### Inbox: state and atomicity

One environment. A nullable timestamp the code tests only for NULL is the set
of rows where it is not NULL (`read_at`, `unread_at`, `archived_at`,
`unarchived_at`); the timestamps that are compared (`visible_at`, a broadcast's
`created_at`, the three watermarks) are instants of a small clock `now`.
`counters[s]` is the `subscriber_counters` row, `jobs` and `offset` the deliver
jobs and their cursors, `hints` the target sets of queued hint jobs.

Postgres runs READ COMMITTED. Every subscriber mutation locks its counters row
first (`SELECT .. FOR UPDATE`) and keeps the lock to COMMIT, and everything
that changes that subscriber's counted rows takes the same lock, so such a
transaction is one step, taken when it holds the lock. `now()` is the BEGIN of
a transaction: for creating notifications and broadcasts, where it becomes a
row's place on the time line, BEGIN and COMMIT are two steps and rollback is a
third, so rows may commit out of the order of their timestamps and below a
watermark that has moved meanwhile. In the mutations a stale `now()` in
`visible_at <= now()` can only hide a row and turn the call into a 404.
`mark_all_read` and `archive_all` use `clock_timestamp()` under the lock, which
is `now` here.

A deliver job handles `DeliverChunk` ids per claim (500 in the code) and each
claim is a step. `PendingDeliver(n)` is the guard `pending_deliver`: n belongs
to a job whose cursor has not passed it.

### ArchiveRead

Adds the queued jobs with phase and keyset cursor. `owed` is a history
variable: what was read and in the inbox when the request came, minus what has
been archived or turned unread since.

### InboxUpkeep

Adds rebuild jobs, dead letters and two lags that are zero in the core:
`RecountLag` (the time between a recount's BEGIN, whose `now()` it uses, and
its lock) and `UpdateWaits` (the counters UPDATE of a multi-recipient create
evaluates `preferences` in its statement snapshot and may then wait for a row).
A preference write changes one (subscriber, category) pair; only disabled rows
matter, so `preferences` is the set `muted`. Three interleavings leave a counter
wrong until its next recount: a recount that drops a row committed after its
BEGIN, a create whose counters UPDATE read mutes that a recount has already
replaced, and a replayed deliver job whose rows were flipped by hand while it
was parked. `skewed` names the subscribers they hit; ExactAtRest claims
exactness for everybody else, and a recount clears the name.

### HintPipeline

A job keeps the name of the change that queued it. A worker's transaction is
several steps (claim, absorb duplicates, acquire a key, publish, finish) because
the keys and the publish are outside Postgres; the rows it has locked are
`Locks(w)`. `Fail` is the rollback, `FailJob` the transaction that records it,
with the unlocked gap between them. `Crash` drops everything uncommitted. Times
are remaining ticks, so the clock is unbounded. Among due jobs the code takes
the oldest; the model takes any, which allows more. `unheard` is a history
variable: pairs of a subscriber and a committed change that no publish reaching
that subscriber has followed.

### ClientSync

The server is the smallest one the client can tell apart from the real one:
items numbered in list order, each read or not and archived or not, a seen
mark, and a flag for a change whose hint is still to be published. A request
is in flight from its sending to its answer, and what it reads is fixed
somewhere between the two; page and counts are two requests, as in
`doRefresh`. A validator is the view it was computed for, or `Old` once
anything has changed; that every change moves it is the server's own promise
(inbox.rs:1820-1828, but see section 4). The two generation counters of the
client are modelled by their effect: the view generation marks the list
requests in flight as stale, the stream generation makes the old source and
its events disappear. `failed` and `adrift` are history variables that name the
three reasons for which a client at rest may show something old: its last
refresh failed, an answer computed before the last refresh (a late page, the
counts of a whole-inbox call) was applied after it, or an action moved a count
and turned out to be void, so that no hint follows. Left out: delays and
retry overrides, the resume token (a reconnect refreshes in any case), error
values, `lastRefreshNewItemIds`.

### Timeline

`log` is the table as triples. Every transaction takes an instant of its own.
The per-item read and the timeline job are two steps each (what they read under
the counters row, what they append and commit), because "two writers can never
observe the same status as missing" is a claim about the span between the two;
everything else commits in one step. `was` records which notifications have
ever been seen or read as the inbox shows it, `late` those that committed at or
below a watermark, `moved` those that changed their subscriber. Left out: the
debounce before a publish (HintPipeline), parked timeline jobs, partition drops.

### LockOrder

A transaction is a *program*: the subscriber keys it upserts, the counters rows
it locks, the preference rows it writes. `Statement` gives the order of the
statements, `Sorted` says where an ORDER BY stands before FOR UPDATE; where the
code leaves the order to the plan or to the request, any order is taken. A
transaction picks a row and holds on until it is free; `Abort` is Postgres'
deadlock detection. Counters rows a transaction inserts itself belong to keys
it holds, row locks taken under a counters row, foreign-key share locks and
SKIP LOCKED claims meet nobody, so they are left out. Attempts are not
counted: a job that loses ten deadlocks in a row would be parked.

### ListEtag

Composes the core, the archive-read job and the preference writes, recounts and
moves of `InboxUpkeep` with one reader who keeps a page and its validator. The validator is computed in a statement of its own before the list
query, so a change may come between. `updated_at` is different after every
write, so `moved` says whether the row was written since. ValidatorTruthful
excepts by name what committed below the latest item the validator names
(`Overtaken`: a broadcast, or a scheduled item its deliver job has still to
count) and the time between the chunks of an archive-read job, the last of which
touches the counters row.

### SseStream

A change stamps what it writes at BEGIN, commits later, and its hint is
published later still. A replica's channel has one queue per receiver, which
drops the oldest hint when it is full (`Capacity`) and reports a lag. A stream
is connecting (guard and receiver taken, resume check to come), open or being
ended; the slot is released by the guard. `Plain` tabs are bare EventSources,
which fetch on an event only; the others fetch whenever they connect, as the
SDK does. Keep-alive is `Notice`: a connection whose client has left is noticed
at a ping. RestsUpToDate excepts a change overtaken by the tab's last event and
a replica that was detached at a publish.

### TokenBucket and RateLimiter

Contents are counted in units of which `Unit` make a token, a tick adds `Rate`
units, so fractional refill is exact. `RateLimiter` stores a content and an
instant per key, as the code does; `TokenBucket` refills every key each tick and
forgets nothing. The refinement maps a stored bucket to what it holds now and a
missing one to a full one. WithinAllowance is stated for any window: an
observer may begin one at any time (`NewWindow`). Redis may lose its data (the
bucket starts over) or fail to answer (the request passes): both are allowed for
by name. A burst is at least one token; a rate of zero switches a limit off in
the code and is left out, as are steps of the Redis clock.

### InboxWidget, PreferencePanel, OwnedClient

React renders and runs the effects of a discrete event before the next event,
so an event with its effects is one step; the fill effect, the sentinel of the
IntersectionObserver and answers are steps of their own. The client is reduced
to what it does to the snapshot. A mutation is three steps of the code: `Mutate`
captures the snapshot and patches it (client.ts, the lines before the `try`),
`Serve` is the handler on the server, `Answered` or `Fails` what follows the
`await`. A failure may come before or after the server has done its part, and puts
back what was captured: the whole list and the counts, over every page, refresh and
patch since (`RolledBack`), only the counts for `markAllSeen`, which is such a call
too, made by the rising edge of the popover; then it asks for a refresh. `calls`
holds the mutations in flight, whose number a mix bounds. `PreferencePanel` has overlapping writes with
optimistic toggles and rollbacks; `crossed` names the panel whose answers came
in another order than the server's writes. `OwnedClient` has mount and unmount
(twice under strict mode), the replacement of the hash and a client that gives
up. `Budgets` bounds, kind by kind, how much of each sort of event a behaviour
has: a behaviour is one of several mixes. `hole` names a list in which a served item
may be missing, or be shown as read, until the list is reset: a page was fetched
from the cursor of a list that has been reset since; an item entered the view
(archived while the archived ones are shown, or unmuted) at a place among the loaded
ones, which neither the first page nor a later one brings (`HoleAfter`); an item was
un-read while a refresh showed it read again; or a failed mutation brought back a
list over a page that was loaded since, or with items read that the server holds
unread (`Overwritten`). What is newer than everything that comes back is no hole:
the refresh that follows the failure fetches it again, and since the list does not
hold it then, it counts as an arrival. `missed` names a popover whose seen-all has
failed, and `news` is "crossing" while all that has arrived came during one.

### AdminRoster, AdminConsole, AdminBoot

A role change, a disabling and a deletion are authorised, wait for the advisory
lock, read, and write; a login checks the password and inserts its session
later. What an update writes to `role` and `disabled_at`, and whether it ends the
sessions, follows from the row it has read at its guard (`Read`, `NewRole`,
`NewDisabled`, `NewlyDisabled`). Among the writers under the lock that row cannot
change, but a boot takes no lock: it may enable the root account between the read and
the write, and an update that has read it disabled then disables it again and ends
nothing (`Relapses`). The sessions opened in between are marked `overtaken`, as the
logins a reset has overtaken are. `AdminConsole` is the browser over it: queries and calls are answered in
two steps (what the server does, what lands), lost, or turned away. It carries
the query cache with its staleness, the dialogs with the password they show, the
rotation of the HMAC secret with a backend that signs, idempotent broadcasts,
paged notifications and the dead letters. A notification is its place in the keyset
order over (visible_at, id), and arrives at any free place (`NotificationArrives`): one
that is due at once comes below those scheduled for later, which the browser lists
too, and a create that commits late below those that have overtaken it. A page
carries, as history, what there was of its filter when it was read (`there`). The
email of a new user is typed (`EditEmail`), at any time until the answer is in. The
purge of idempotency keys after 30 days (partitions.rs) is left out: a key that comes
again after that makes a second broadcast. Flags name what the application is
known not to show (`raced`, `crossed`, `doubled`, `lapsed`, `overtaken`).
`AdminBoot` has each statement of `ensure_admin` as a step, several replicas and
crashes; `disturbed` names a boot whose row was changed between its read and its
write.

### AbstractInbox and the refinement

`AbstractInbox` has no watermark, no override row and no clock: a subscriber
has a set of items, each with an unread, an archived and an unseen flag; an
action on one item changes that item's flag, an action on the whole inbox that
flag of every item in it, and items may arrive but never leave.
`InboxRefinement` reads the flags off the rows with the predicates of the list
query (`EffectivelyRead`, `EffectivelyArchived`, their broadcast counterparts
and the seen watermark). `KeepsPromise` is the refinement: every step of `Inbox`
is one abstract action or changes no flag. An abstract stutter is always
allowed, so the refinement alone would accept a mark-all-read that leaves an
item unread; `ActionsDoAllTheyPromise` says that each handler's step is the
abstract action of its own name, in full.

## 3. Runs

Each run has the configuration `MC<module>.cfg` of the MC module named here.

| Run | Module, instance | Properties | What it shows |
|---|---|---|---|
| `core` | `MCInboxRefinement`: a request to 2 subscribers, counted in chunks of 1, and 1 broadcast, 2 transactions open at once, instants 1 and 2, 1 subscriber acting, fair worker | CountersExact, CountsMatchList, OverridesAreExceptions, KeepsPromise, ActionsDoAllTheyPromise, HintsCoverChanges, AcceptedIsCounted | counters equal a recount, badge and list agree, the abstract inbox is implemented for both sources at once, changes are announced, what is accepted is counted in the end |
| `archive` | `MCArchiveRead`: 2 overlapping broadcasts, perhaps muted, a subscriber born at instant 2 of 3, chunk 1, fair worker | NothingForgotten, ArchiveReadEnds | the cursor over rows that commit late, phase after phase; the job ends and is announced |
| `list_etag` | `MCListEtag`: 1 direct item, 1 broadcast, 2 subscribers, an archive-read job, preference writes, moves, 1 reader | ValidatorTruthful, ArchiveReadKeepsUnread | a 304 is true but for the named cases; the job archives nothing that was marked unread meanwhile |
| `upkeep` | `MCInboxUpkeep`: 2 subscribers, a create for both, a flip or a parked job, both lags | ExactAtRest, MovesKeepState, UpkeepHintsCoverChanges | flips among creates, deliveries, replays and reads; the notification of a passive subscriber moves to one who reads, archives and mutes (`MovesLookTheSame` covers two who do); clients are told whatever happens to the counters |
| `hint_pipeline` | `MCHintPipeline`: 2 workers, 2 equal hints for 2 subscribers, 2 faults, 2 attempts | NoHintLost, DeliveredOnce, EventuallyHeard | coalescing, debounce and failure do not lose or repeat |
| `timeline` | `MCTimeline`: 2 notifications of 1 subscriber, or 1 moving between 2; chunk 1 | OneRowPerStatus, NothingMissing, NothingInvented | timelines are complete and true when the jobs are done |
| `lock_order` | `MCLockOrder`: any 3 of 14 programs, 3 subscribers, one unborn | OrderedNeverStuck, EverybodyEnds | what cannot deadlock; a victim that is a job is done in the end |
| `sse` | `MCSseStream`: 2 tabs, 2 replicas, 2 changes, channel and cap of 1, 2 faults, fairness | StreamsKeepAccount, EveryChangeFetched | an idle stream has told everything; slots are given back; lags lose nothing |
| `limiter` | `MCRateLimiter`: a slow key with a large burst, a fast one with a small, 6 ticks, swept at 2, either backend | AnswersAreRight, ForgettingIsInvisible | the allowance and Retry-After; neither the sweep nor the expiry can be noticed |
| `client_sync` | `MCClientSync`: pages of 1 item, 1 or 2 items, 2 views, 1 mutation at a time, 1 change from outside, 2 user actions, 1 fault | AtRestInSync, StatusTellsTruth, EventuallyInSync | the snapshot converges, whatever is coalesced, answered with 304, rolled back, discarded or missed between two streams |
| `widget` | `MCInboxWidget`: up to 3 items, pages of 1, a viewport of 2, 2 tabs or none, 2 categories, 1 or 2 mutations in flight, 1 fault, 2 writes, 2 hashes | WidgetTellsTruth, PanelTellsTruth, CredentialInForce, PillCountsArrivals, ListFills | what the user is shown is so, but for the holes a rollback, a late page or an un-read leaves |
| `admin_console` | `MCAdminConsole`: 3 people, 2 sessions, 2 calls, 3 places of rows, one free, pages of 1; or 2 replicas, one call and one login at a time, with 3 boots and 2 changes or 2 boots and 3 changes | LastAdmin, EvictedAtRest, RestartRestores, ConsoleTellsTruth, RetriesAreSafe | administrators at once, an update under a boot, a page among lost and late answers, what a restart restores |

Every property has a mutant in `PROJECT.json`, a plausible mistake in one
definition that makes the run find it violated; the mutated forms stand beside
the definitions they replace ("Mutant: ..."). The modules' type invariants
(`TypeOK` and its like) document the shape of the state; those of every module
with theorems are proved for every instance, on their own or as part of the
inductive invariant (of `ConsoleTypeOK` the parts the proofs need).

Bounds. With the epoch, where the watermarks start, two instants are enough for
a timestamp to be below, at or above a watermark and for a watermark to move
past a row that is still uncommitted or scheduled (`core`, whose second
subscriber is there to make the request's deliver job take two claims); in
`archive` the third lets one broadcast fall before a late subscriber and one
after. Two rows (or broadcasts) and a chunk of one give every
position of a cursor: before, between and after. In `hint_pipeline` two equal
two-target jobs let one worker hold the other's duplicate, publish to one
target and put off the other, and turn into different payloads; two faults let
a job fail twice and be parked. In `client_sync` a page of one item and a
second item that arrives give a page that keeps the loaded tail and one that
resets it, two user actions a mutation before or after a view switch, a fetch
or new credentials, and one fault an action rolled back, a refresh that fails
or a stream that is reopened; with `MaxAttempts` 2 that stream reconnects
(giving up after the last attempt is not reached with one fault). Its `Ops` are
one call on an item and one on the whole inbox; the others are modelled and
were checked in instances that take longer than a run should.

Several runs choose in the initial state what their behaviours are about, so
that one run covers cases that would multiply each other: flips or parked jobs
in `upkeep`, windows or moves in `timeline`, which change follows which in
`sse`, the backend in `limiter`, the budgets of user actions, outside changes
and failures in `widget` and `admin_console` (`Mixes`), and console or boots in
the latter. In `widget` one mutation that may fail meets a header, a page, a refresh
or an arrival, two in flight bring back lists one over the other or cross a
seen-all; in `admin_console` the boots with 3 changes let an update read the root
account disabled, a boot enable it, a login come in and the update write
(`StaleMix`). The mixes in the MC modules say which kinds meet in one behaviour;
every action of the modules is taken in some mix.

In the timeline two notifications and a chunk of one give a job that stops
between two rows, and the instants a scheduled row that becomes due after a
watermark, a read and an unread around a job, and a create overtaken by a
read-all. In `lock_order` three transactions give cycles of two and of three;
they are interchangeable, so each combination of programs is taken in one
order. In the streams a channel of one hint makes every second hint a lag
and a cap of one makes every second tab of a replica a refusal. In the limiter
six ticks let the slow bucket fill up from empty and be dropped.

Deadlock is checked, except where everything may be finished
(`CHECK_DEADLOCK FALSE` in the configurations whose requests, faults, user
actions or instants run out: such a system comes to rest).

### Fairness

`FairSpec` of `Inbox` asks for weak fairness of the worker and of the clock:
`worker::run` loops until shutdown, sleeps at most its poll interval when
nothing was processed, and a failing sweep is logged and repeated. Handlers
are never assumed fair: nobody has to send a request, and an open transaction
may stay open, except that what is claimed about an accepted notification
starts at its commit. Per-subscriber fairness of rebuild and archive jobs
rests on the claim order (oldest `run_at` first, one job per environment and
sweep). In `HintPipeline` each worker's next step and the clock are weakly
fair; failures, crashes and lost keys are not, and their number is bounded by
MaxFaults: with failures for ever a job would be parked, which the property
allows. `ClientSync` has one fair step, `Progress`: as long as a request, an
answer or a hint is under way, something of it happens; users, faults,
connecting and reconnecting are not fair, so `EventuallyInSync` promises something only of a
client that stays connected.

The widget's fairness is the browser's: the observer reports, effects run,
requests are answered and hints arrive, as long as the page is there; the user
is not fair. In `SseStream` a worker publishes what is committed (a failing
publish is retried), Redis subscriptions are renewed, a dead connection is
noticed at a ping and stream tasks run; tabs need not come back. In
`LockOrder` each lock is strongly fair, since Postgres queues the waiters of a
row in the order they came, and a cycle is detected in the end.

## 4. Seen while modelling

What the code does and a reader of its comments might not expect. Where a property
would be about one of these, it makes an exception of it by name.

In the workers, the timeline and the streams:

- `recount_subscriber` (worker.rs:888) bounds both counts by
  `visible_at <= now()`. A create that began and committed after the recount's
  BEGIN but before its lock is counted by its own UPDATE and dropped by the
  recount (`skewed`). `mark_all_read` takes `clock_timestamp()` for this reason.
- `ensure_admin` rotates the root password and evicts the sessions in two
  transactions (bootstrap.rs:146). A crash between them is repaired by no later
  boot, which finds the password as it should be (`interrupted`).
- The validator (inbox.rs:1828) takes the latest broadcast only. One that began
  earlier and commits after it changes the page and moves no input, so the
  client is answered 304 and keeps the old page.
- `changed_since` (api/sse.rs:221) compares the instants at which transactions
  began. A slow one that is published while the tab is away is not seen by the
  resume check. The SDK fetches on every connection and is not hurt.
- A publish counts as done when one replica received it (pubsub.rs:146); a
  replica that is reattaching to Redis at that moment never tells its streams
  (`gap`).
- A timeline job selects by the owner of the moment (timeline.rs:150). A
  notification that moves, unread, into a subscriber whose read-all is still
  being walked gets a read row (`moved`).
- A create that began before a read-all and commits after its job is read
  without a row (timeline.rs:149, `late`).

On the rest of the server:

- The pending guard looks for deliver jobs in `jobs` only (inbox.rs:1592). While
  a job is parked its rows are visible; marking one read and unread again adds
  it to the counter by hand, and the replay adds it once more, although dlq.rs
  promises effects that are exactly-once as far as can be observed. With the
  create that waits for a row after it has read the mutes (management.rs:206)
  and the recount above, this is the third case of `skewed`.
- The drift gauge (metrics_sampler.rs:146) skips subscribers with a mute, so it
  samples one whose last mute was lifted before the rebuild job ran, and reads
  non-zero although nothing is wrong.
- The comment of `fail_job` (worker.rs:251-256) says a failed job cannot be
  claimed again before its backoff is in place; between the rollback in
  `process_one` and the UPDATE it can (the code's own "Raced away" branch). In
  `HintPipeline` this happens, and NoHintLost and DeliveredOnce hold
  nevertheless.
- A notification moved before its hint is published belongs to none of the
  hint's targets and never gets its delivered_hint row (`moved` in `Timeline`).
  An unread item that moves below a later read-all of the target is not in the
  job's window of its own subscriber any more. A read row may carry the later
  instant of a per-item read where a read-all had read the item before.
- An archive-read job writes an explicit archived override for a broadcast that
  lies below the archive watermark and was unarchived by hand (worker.rs, the
  broadcast phase), where `archive_broadcast` would delete the override row.
  It is redundant and harmless; OverridesAreExceptions is therefore checked in
  `core`, which has no archive-read job.
- A scheduled item that commits after it is due, and the chunks of an
  archive-read job before its last, change a page without moving the validator,
  until the deliver job or the last chunk does. Dropping a partition does so too.
- `updated_at` of a counters row can go backwards: a slow transaction writes its
  BEGIN over a later stamp.
- Creates with several recipients lock keys and counters rows in an order of the
  request or the plan, and a preference write locks in the opposite order of a
  move to its subscriber, so two such requests may deadlock; Postgres fails one,
  which the caller sees as an error and may repeat.
- A root account deleted between the read of a boot and its UPDATE is reported
  as reconciled and is not there (`disturbed`). An update that has read that account
  disabled, waits, and writes after the boot disables it again without ending the
  sessions opened meanwhile (admin.rs:1931-1937; `Relapses`); they are not live while
  it is disabled, and live again when it is enabled.

In the clients:

- `doFetchMore` (client.ts:569) checks that the view is still the same but not
  that the list is. A refresh that resets the list while a fetch with the old
  cursor is in flight leaves a gap that no later refresh closes, the one
  `mergeFirstPage` resets the list to avoid (`hole` in the widget).
- Sharing an item with the first page does not make the kept tail contiguous
  (client.ts:550-567): an item that enters the view older than the first page and
  newer than the cursor, because its category is unmuted, it is archived while the
  archived view is shown or another device restores it, is on no page the client
  still asks for (also `hole`). The proof of the empty state found this one.
- The answer of markAllRead, archiveAll or markAllSeen carries counts of its own
  transaction. If it is handled after a refresh that read later counts, the
  badge shows the older ones until the next hint (`adrift`).
- Pages loaded with fetchMore are never reloaded. Acting on an item of such a
  page that another device has changed moves the badge, the server answers
  that nothing changed and queues no hint, so the badge stays wrong (`adrift`).
- A mutation that fails after a view switch restores the list it saw, so items
  of the old view appear in the new one until the refresh it triggers; those
  older than the first page may stay.
- The same rollback drops a page that was loaded while the mutation was in flight
  (client.ts:271-275, and the like at 298, 330, 359, 383 and 420), and `hasMore` and
  the cursor stay: the rows are on no page still to come, and a tab can be falsely
  empty (`Overwritten`). An item it dropped that the next refresh merges is counted
  behind the pill, although the user has seen it.
- The badge stays on when a seen-all fails (client.ts:441), as intended, and
  nothing repeats the call until the popover is opened again (`missed`); what
  arrives while it runs may be counted as seen or not ("crossing").
- Widget: a header menu left open behind the preferences panel swallows the
  first Escape; a list without tabs shows "No notifications" for a moment before
  its first load and after a change of view; two preference writes answered out of order leave a
  toggle stale (`crossed`).
- Admin application: a password dialog closed while its request is pending and
  opened again announces a password that was not set, and one whose email is edited
  meanwhile announces it for another address (users.tsx:172-173; `lapsed`); a
  notification that comes in below the rows already passed is on no page to come; two rotations
  in a row drop the older secret, although environment-detail.tsx:276 tells the
  user that sessions keep working (`doubled`), and a rotation whose answer was
  lost invites the second; completing from a stale page retires a secret in use, and the late answer of a
  rotation makes the banner announce as new a secret that another rotation has
  replaced since (`crossed`); an account created while the first list is loading is not shown
  (`raced`); a composer without a key makes a new one at every attempt, so that
  a retry after a lost answer is a second broadcast; a logout that fails leaves
  the cookie, and a late 401 of an old session ends a newer one.

## 5. Proofs

TLAPS proves, for every value of the constants that satisfies the named
assumptions of the modules (which TLC evaluates in every run):

| Theorem | Module | Statement |
|---|---|---|
| `TypeCorrect` | `InboxProofs` | every state is well typed; in particular no counter leaves the naturals |
| `OverridesExceptional` | | no override repeats what a watermark says, no two contradict each other |
| `CountersNeverDrift` | | the maintained unread and unseen counters equal a recount |
| `BadgeIsList` | | they equal what the list of the subscriber shows |
| `PromiseKept` | | every step is a step of `AbstractInbox` or changes no flag: the refinement |
| `ActionsPromised` | | every handler's step is the abstract action of its name, in full |
| `ChangesAreHinted` | | what changes a subscriber's view, the clock included, queues a hint or is a due deliver job's |
| `JobsForgetNothing` | | an archive-read job archives all it was asked to |
| `RestsExact` | | counters with no recount queued are exact, but for the three ways to put them off |
| `MovesLookTheSame` | | a moved item is as read and as archived as it was |
| `UpkeepIsHinted` | | preference writes, recounts and moves announce what they change |
| `MatchesAreTrue` | | a validator that matches stands for the page it came with |
| `ArchivingKeepsUnread` | | an archive-read job leaves unread lists and counters as they are |
| `HintsKept`, `WrittenOnce` | `HintPipelineProofs` | no target is left out; a delivered row is written once |
| `OneRow`, `ToldHappened`, `HappenedTold` | `TimelineProofs` | one row of a status; nothing invented; nothing missing |
| `AccountKept` | `SseStreamProofs` | connection counts, and what an idle open stream has told |
| `LastAdminAlways`, `SessionsCurrentAlways` | `AdminProofs` | an enabled admin is left; live sessions belong to the password in force |
| `LastAdminOverBoots` | | an enabled admin is left with boots that write without the lock |
| `RestartRestoresAlways`, `EvictedAlways` | | what a replica that is up has restored; whose sessions a rotation leaves alive, with updates that write what they have read |
| `ConsoleIsRoster`, `ConsoleLastAdmin` | | the console and all around it take only the roster's steps: the refinement, and what follows from it |
| `RetriesSafe` | | the backend that follows the page signs with an accepted secret; one broadcast per key |
| `OwnWorkIsShown`, `PasswordsShownWork`, `PagesCover`, `ConsoleTruth` | | what a page at rest shows was told; what it says is set was set; paging passes all that was there |
| `LimiterTyped`, `AllowanceHolds`, `RetryAlwaysEnough`, `AnswersAlwaysRight`, `LimiterImplementsBuckets` | `RequestProofs` | the allowance of a window, Retry-After, and the implementation of buckets that are never forgotten, for both backends |
| `NeverStuck` | | ordered transactions never wait for each other in a circle |
| `ClientInvariant`, `RestInSync`, `StatusTruth` | `ClientProofs` | what a client holds is current or on its way; at rest it shows the server's page and counts; the status is the stream's |
| `WidgetTruth`, `PillArrivals` | `WidgetProofs` | pill, empty state and badge are true under mutations in flight and rollbacks, but for the named holes; only what a refresh merges goes behind the pill |
| `PanelTruth`, `CredentialAlways` | | toggles at rest show the server's rows; no stream under an old credential |

Assumptions on the constants, beside the types: recipients of a request are
distinct and requests share no ids (`RequestsAssumption`), an item is a
notification or a broadcast and not both (`SourcesAssumption`), a job's
targets are distinct (`ChangesAssumption`), and sets whose members are counted
are finite (`FiniteAssumption`, tabs in `StreamAssumption`). No bound of the runs
is used as one: the caps on instants, faults and attempts only disable actions.

*Inbox, counters.* `CountersExact` is not inductive. Its strengthening,
`DeliverInv /\ Exact`, adds facts about the rows:

- `RowsInv`: no watermark lies in the future, only committed rows have flags and
  only committed broadcasts have override rows, the rows of an open transaction
  are not committed, and overrides are exceptions;
- `DeliverInv`: a queued deliver job's rows are committed, the rows of a request
  share one position on the time line, an open immediate request does not lie in
  the future, and a committed row that does is still ahead of a job's cursor;
- `Exact`: the counters equal the cardinalities of the recount's two sets, per
  subscriber.

Each action then changes the two sets by at most one row per subscriber
(recipients of a request are distinct), the lemmas on cardinalities
(`DisjointCount`, `AtMostOne` and the ones beside them) turn that into plus or
minus one, and the watermark actions recount. There is one lemma per action.
For the badge, the query's two terms for broadcasts (`TermAbove` and `TermBelow`
the watermark) are disjoint and make up the unread broadcasts of the list.

*Inbox, the promise.* `PromiseInv` is `RowsInv` with `CreatedPast` (no broadcast is
created in the future). With no watermark and no visible row in the future
either, a watermark that moves to now covers all that is in the inbox
and nothing that is still to come, and an override that says the opposite of the
watermark is the only thing that can set one item apart; that the other
flags, and the other subscribers, stay as they are is most of the work. For the
hints, `Untouched` says that a step leaves alone all that a subscriber's list
and badge are computed from, and `Told` that it does or announces itself.

*ArchiveRead.* NothingForgotten is about a job's end and has to be carried
through its life: `OwedAhead` says that whatever is still owed lies ahead of the
cursor of a job that owes it, in this phase or the next. A chunk takes the
first keys of its window, so nothing it leaves is behind the cursor it
saves; and it ends its phase only when it was short, in which case the window
is empty. Rows commit late, but what was not in the inbox at the request is not
owed. The theorem covers the phase over direct items, which the run's instance
(broadcasts only) does not. The invariant rests on facts weaker than `RowsInv`, because
OverridesAreExceptions fails once archive-read jobs run (section 4).

*InboxUpkeep.* The core's invariants are stated per subscriber in `InboxProofs`
(`ExactOf`, `CountedStands`), so that they carry over to actions that leave
some subscribers' counters wrong. `RestInv` is ExactAtRest in terms of the
recount's sets. `ParkedInv` is what holds of a parked job as `DeliverInv` does of
a queued one: its rows stand, and whom it has still to count is `skewed`. A preference
write makes its subscriber unsettled and nobody else; a recount makes them
settled, and exact when it saw all that it should (`RecountExact`, by way of
`Skews`); a move recounts the two it touches under the preferences they have
from then on, and for anybody else no row changes. A create that waited counts
with the preferences of its snapshot: exact for the recipients for whom these
are the current ones, and the others are skewed. For MovesKeepState the columns a
move writes are evaluated against the new owner's watermarks (`MoveKeeps`); the hints
need only `Untouched`, as in the core.

*ListEtag.* ValidatorTruthful is carried by `HeldInv` (the reader was shown the items
the validator names, or a later one) and by `Undisturbed`: as long as a step does
not write the reader's counters row, their rows, marks, mutes and watermarks
stand, and a row that becomes theirs waits for its deliver job. Time may pass and
broadcasts may commit. Then an item that comes to be listed is either younger
than the latest one named, so the validator matches no more, or `Overtaken`;
`LatestOf` says that the latest exists and is unique in the keyset order. The
run's instance has one row of each kind, where nothing is overtaken: that case is
the theorem's. For ArchiveReadKeepsUnread it is enough that a chunk takes read
items only.

*HintPipeline.* `PipeInv` holds what locks and claims are, and `Split`, the
account of a worker's job: each target is still to be tried, published in this
attempt, or put off. `HintInv` says that who has not heard is `Pending` in a job
that is queued, claimed or parked; a step of a worker makes it `NoWorse`, since a
coalesced duplicate leaves only with the commit that finishes the job which
absorbed it, and a failure restores both. `Once` counts, for each notification,
the jobs that announce it and the row: one in all.

*Timeline.* For OneRow the strengthening says that what a job has scanned and
what a read request has prepared belongs to the subscriber whose counters row
it holds, and that no two hold the same row; so what was missing is missing at
the commit. `PassedInv` and `MarkedInv` say why a row below a watermark was
seen or read. For NothingMissing, `CoveredInv` says that what was marked and has no
row lies in the window of a queued job, ahead of its cursor, and `ScanInv`
that a chunk scans in order; a create that commits late lies below a
watermark whose job may be through, the exception `late` names.

*SseStream.* `SlotInv` counts the streams of a replica and subscriber: a slot is taken
with the guard and given back when it is dropped, a refusal takes none. For the
second half an open stream is up to date, or something is `OnItsWay`: in
its queue, its lag, a publish still to come, or an answer the resume check owes.
`LastWriteInv` says which change the stored `updated_at` belongs to,
which need not be the latest, since it may go backwards.

*AdminRoster.* LastAdmin is not inductive: a writer acts on what its guard read.
`LockHeld` says who holds the lock, `WriterSafe` that whoever is about to leave the
target no enabled admin has another one; a login must keep what it read in
the same way (`SessionsBut`). Neither says that the row read is still the row: a boot
may change it, and only ever to an enabled admin (`BootKeepsAdmins`), which is why
`LastAdminOverBoots` holds although an update may undo it. The theorems are about `AdminRoster`'s own
specification, which the console refines (`ConsoleIsRoster`).

*AdminBoot.* `BootShape` says which statement a replica is at, `Seen` that what an
undisturbed boot has read is still true when it acts on it. For EvictedAtRest
`EvictInv` says that a session is current, or overtaken, unless its account is
`Awaiting` the second transaction of a boot, in progress or crashed. A commit evicts
whom it newly disables and marks whom it disables again.

*AdminConsole.* The browser has some forty actions, so each is shown once to make
one of a few *moves*, and the invariants are shown of the moves: what a step does
to a cached query (`EntryMove`: kept, stale, asked, marked, served, failed, landed,
dropped), to the HMAC secrets (`Move`), to the accounts of versions and passwords
(`Accounts`), to a dialog (`FormMove`), to the gate (`GateMove`) and to the list
(`ListMove`). For the secrets, `SecretsInOrder` says that until a second rotation
overlaps or one is not shown the secrets are numbered in their order, that what is
shown or under way to the page is the current or the previous one, that a banner
with the previous one is what the backend has, and that a completion under way
names an older secret or finds nothing else shown anywhere. Proving it showed that
the late answer of a rotation belongs to the exceptions: within the bounds the run
then had TLC could not meet it. For OwnWorkShown, `EntryKeeps` says the same of the answer
under way as of the data at rest: at least the version told of, unless an
invalidation found a fetch it could not replace. For PasswordShownWorks, `Secure`
ties the request to the email and the password its dialog holds until it is closed or
edited, and
`GateKeeps` says that a browser nobody is in has no request of a page left; the 401
of a query, the reload and the logout all rest on it. For PagesCoverList, `PageFits` says
that a page has every row there was when it was read from its cursor down to the next
one, and `PassedFits` that what was passed has no gap among the rows there were for
each page; that a page of the server is such a page comes from the greatest and least
element of a set and `TopPart`.

*RateLimiter.* A stored bucket and its age determine what the abstract bucket
holds (`Grown` is additive in the ticks), and a bucket that is dropped is full in
the abstraction. Every step of the limiter is then a step of `TokenBucket`, and
the allowance follows from an inductive bound on what a window has let through.
For Retry-After the invariant is a debt (`AllOwed`): what a bucket holds and what
the rest of the wait brings is one token at least; a tick turns wait into content.

*LockOrder.* Along a wait between ordered transactions the rank of the row that is
wanted grows (keys, counters rows by subscriber, preferences), because what a
transaction holds ranks below what it wants; two moves cannot meet at the
preferences of a subscriber without having met at its counters row. A stuck set
would have no highest rank.

*ClientSync.* At rest nothing is left to say of what is in flight, so the invariant
`SyncInv` follows it there. `TagTruthful`: a validator that is still current vouches
for the list, or the page was moved by a late answer, or an action of this client
that will have an effect, and will age the validator with it, is still to be applied. It
rests on what a first page is (`FirstPage`, `ListFacts`), on a page that is merged
with or without its tail (`MergedList`), on a page of the same view that is appended
(`AppendedList`) and on an action the server has nothing to do for, which can only
be about an item below the first page (`OptimisticVoid`). `RefreshShape` says that a
refresh in flight is for this view, or its answer is stale and another one follows,
and that its validator is as old as its page. `ListComing` and
`CountsComing`: while the stream is open, what is out of date is announced, hinted
at, being fetched or noted to be fetched again, but for the exceptions the property
names; `AnswersLate` is the part of it about the answers of whole-inbox calls. A refresh
that is asked for keeps all of these at once (`FetchAsked`, `ComingAsked`), which is
every reason the code has for calling `refresh`. Elsewhere the stream is not open, or
a change is to be announced. The status needs only that hints come down
an open stream and that who has failed `MaxAttempts` times has given up (`StreamInv`).

*InboxWidget.* `ListForm` and `ListChange` are about the list alone: a step empties
it, renders it with the next snapshot or leaves its rows as they are, so that what
is pending is visible, counted and, if new, merged by a refresh in this step; 35
actions reduce to these three. For the empty state, which is not inductive,
`ClientInv` says what the client and its mutations hold. `CursorInv` ties the cursor
to `hasMore` and to the page in flight unless the list was reset. `CoverInv`: unless
there is a hole, a row of the view is loaded, or reached by a page to come
(`Reached`), or about to leave it by a mutation not served yet (`Leaving`), or announced
and not older than anything the client holds or may bring back (`Announced`, `Held`),
so that the next first page has it. `ReadInv`: an item read here and not there has such a
mutation under way (`Reading`). The two say why a rollback is harmless but for what
`Overwritten` names: what it takes away is above all it brings back. `CallFacts` is about
a mutation that is called, `ServeStep` about one that is served, `RollbackFacts` and
`FailsStep` about one that fails; most other steps are `Minor`. A first page keeps the
invariant whether the tail is kept or dropped, by what a page is (`PageFacts`, from the
least and the greatest element of a set of naturals and the counting lemma `TopPart`).
`BadgeInv` says what the seen mark and the badge differ by, and while which call.

*PreferencePanel.* An answer in flight is `Told`: its rows are the server's if its
version is. As long as the panel is there, the newest answer has been handled or
is on its way (`LatestComes`), or the load will bring it (`LoadComes`).
*OwnedClient.* `OwnInv`: the stream and one of those tried are signed with the
hash of the client, which is that of the prop.

Model-checked only: liveness (`AcceptedIsCounted`, `ArchiveReadEnds`,
`EventuallyHeard`, `EventuallyInSync`, `EveryChangeFetched`, `ListFills`,
`EverybodyEnds`), which is out of the prover's reach. Every safety invariant and
action property of the runs is a theorem. `TypeCorrect`, `SessionsCurrentAlways`,
`LimiterTyped`, `ClientTypes` and `ClientInvariant` are proved and part of no run's
list.

## 6. What could come next

- Idempotency snapshots of creates (those of broadcasts are in `AdminConsole`).
- Partitions: month arithmetic and headroom against scheduled rows.

## 7. Not modelled

HTTP routing, parsing, validation, configuration, OpenAPI generation, telemetry
and id encoding: no state that several actors share. The metrics sampler only
reads. Partition maintenance is one sequential job under an advisory lock over
calendar months; dropping a month leaves the counters of its unread rows as
they were, which no reader can tell from a count that is late. The API key
lookup and the hashes of authentication (v1, v2, expiry). Rendering, dates,
icons, styles and localisation of the widget; masking, copying, theme and toasts
of the admin application. Real time: durations are instants or ticks. Resume
tokens and retry delays of the client. The dev-quickstart environment of
`bootstrap::run`. `docs/design/cancel-retract.md` describes a feature the code
does not have.
