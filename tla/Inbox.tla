------------------------------- MODULE Inbox -------------------------------
(***************************************************************************)
(* The core of the Chimely server: one environment's inbox rows, broadcast *)
(* rows and maintained counters in Postgres, the management handlers that  *)
(* write them, the subscriber handlers that flip them, and the worker's    *)
(* deliver and hint jobs.                                                  *)
(*                                                                         *)
(* Every subscriber mutation locks its subscriber_counters row in its      *)
(* first statement and holds it to COMMIT; what it reads afterwards is     *)
(* fresh.  Such a transaction is one step here, taken at its lock.  The    *)
(* two transactions whose BEGIN matters, because now() is pinned there and *)
(* becomes a row's position on the time line (creating notifications and   *)
(* creating a broadcast), are two steps: begin and commit.                 *)
(*                                                                         *)
(* A nullable timestamp that the code only tests for NULL (read_at and its *)
(* siblings) is the set of the rows in which it is not NULL.               *)
(***************************************************************************)
EXTENDS Integers, Sequences, FiniteSets

CONSTANTS
    Subs,                 \* subscribers
    Notifs,               \* ids of direct notifications
    Broadcasts,           \* ids of broadcasts
    Requests,             \* create-notifications requests
    Categories,           \* notification categories
    NotificationIds,      \* the ids a request inserts, in recipient order
    RecipientOf,          \* the subscriber a notification is addressed to
    CategoryOf,           \* the category of a notification or a broadcast
    SubscriberCreatedAt,  \* subscribers.created_at
    InitialMutes,         \* the possible contents of preferences at the start
    DeliverChunk,         \* notifications one claim of a deliver job counts
    MaxTime,              \* bound: the last instant of the database clock
    MaxInFlight,          \* bound: create transactions open at once
    Acting                \* bound: the subscribers whose clients send requests

Ids(r) == {NotificationIds[r][i] : i \in DOMAIN NotificationIds[r]}

\* Recipients are de-duplicated before the transaction, and every inserted
\* row has a fresh id.
ASSUME RequestsAssumption ==
    /\ NotificationIds \in [Requests -> Seq(Notifs)]
    /\ RecipientOf \in [Notifs -> Subs]
    /\ \A r \in Requests : NotificationIds[r] # << >>
    /\ \A r \in Requests : \A i, j \in DOMAIN NotificationIds[r] :
          i # j => RecipientOf[NotificationIds[r][i]] # RecipientOf[NotificationIds[r][j]]
    /\ \A r, q \in Requests : r # q => Ids(r) \cap Ids(q) = {}

ASSUME DataAssumption ==
    /\ CategoryOf \in [Notifs \cup Broadcasts -> Categories]
    /\ SubscriberCreatedAt \in [Subs -> Nat]
    /\ InitialMutes \subseteq SUBSET (Subs \X Categories)

ASSUME BoundsAssumption ==
    /\ DeliverChunk \in Nat \ {0}
    /\ MaxTime \in Nat \ {0}
    /\ MaxInFlight \in Nat
    /\ Acting \subseteq Subs

ASSUME FiniteAssumption ==
    /\ IsFiniteSet(Notifs)
    /\ IsFiniteSet(Broadcasts)

VARIABLES
    now,                \* the database clock
    creating,           \* requests whose transaction is open
    scheduled,          \* requests that carry a deliver_at
    stored,             \* notifications whose transaction has committed
    subscriber_id,      \* notifications.subscriber_id
    visible_at,         \* notifications.visible_at
    read_at, unread_at, archived_at, unarchived_at,
    counters,           \* subscriber_counters rows
    jobs,               \* requests with a deliver job in the jobs table
    offset,             \* progress_cursor.offset of the deliver jobs
    announcing,         \* broadcasts whose transaction is open
    announced,          \* broadcasts whose transaction has committed
    created_at,         \* broadcasts.created_at
    broadcast_reads,    \* broadcast_reads.read, or "none" without a row
    broadcast_archives, \* broadcast_archives.archived, or "none"
    muted,              \* preferences rows with enabled = false
    hints               \* targets of the queued hint jobs

createVars == <<creating, scheduled, stored>>
rowVars == <<visible_at, read_at, unread_at, archived_at, unarchived_at>>
jobVars == <<jobs, offset>>
broadcastVars == <<announcing, announced, created_at>>
overrideVars == <<broadcast_reads, broadcast_archives>>
fixedVars == <<subscriber_id, muted>>
vars == <<now, createVars, rowVars, counters, jobVars, broadcastVars,
          overrideVars, fixedVars, hints>>

Times == 0 .. MaxTime
Override == {"none", "true", "false"}
CountersRow == [unread : Nat, unseen : Nat,
                read_watermark : Times, seen_watermark : Times,
                archive_watermark : Times]

TypeOK ==
    /\ now \in Times
    /\ creating \subseteq Requests
    /\ scheduled \subseteq Requests
    /\ stored \subseteq Notifs
    /\ subscriber_id \in [Notifs -> Subs]
    /\ visible_at \in [Notifs -> Times]
    /\ read_at \subseteq Notifs
    /\ unread_at \subseteq Notifs
    /\ archived_at \subseteq Notifs
    /\ unarchived_at \subseteq Notifs
    /\ counters \in [Subs -> CountersRow]
    /\ jobs \subseteq Requests
    /\ offset \in [Requests -> Nat]
    /\ announcing \subseteq Broadcasts
    /\ announced \subseteq Broadcasts
    /\ created_at \in [Broadcasts -> Times]
    /\ broadcast_reads \in [Subs \X Broadcasts -> Override]
    /\ broadcast_archives \in [Subs \X Broadcasts -> Override]
    /\ muted \subseteq Subs \X Categories
    /\ hints \subseteq SUBSET Subs

Init ==
    /\ now = 1               \* the watermarks start at the epoch, 0
    /\ creating = {}
    /\ scheduled = {}
    /\ stored = {}
    /\ subscriber_id = RecipientOf
    /\ visible_at = [n \in Notifs |-> 0]
    /\ read_at = {} /\ unread_at = {}
    /\ archived_at = {} /\ unarchived_at = {}
    /\ counters = [s \in Subs |-> [unread |-> 0, unseen |-> 0,
                                   read_watermark |-> 0, seen_watermark |-> 0,
                                   archive_watermark |-> 0]]
    /\ jobs = {}
    /\ offset = [r \in Requests |-> 0]
    /\ announcing = {}
    /\ announced = {}
    /\ created_at = [b \in Broadcasts |-> 0]
    /\ broadcast_reads = [p \in Subs \X Broadcasts |-> "none"]
    /\ broadcast_archives = [p \in Subs \X Broadcasts |-> "none"]
    /\ muted \in InitialMutes
    /\ hints = {}

----------------------------------------------------------------------------
(* Reading the rows *)

One(p) == IF p THEN 1 ELSE 0

Exists(s) == SubscriberCreatedAt[s] <= now

Visible(n) == n \in stored /\ visible_at[n] <= now

EffectivelyRead(n) ==
    \/ n \in read_at
    \/ n \notin unread_at /\ visible_at[n] <= counters[subscriber_id[n]].read_watermark

EffectivelyArchived(n) ==
    \/ n \in archived_at
    \/ /\ n \notin unarchived_at
       /\ visible_at[n] <= counters[subscriber_id[n]].archive_watermark

\* `hidden' is the contents of the preferences table as a statement saw it.
Muted(n, hidden) == <<subscriber_id[n], CategoryOf[n]>> \in hidden

BroadcastVisible(s, b) == b \in announced /\ created_at[b] >= SubscriberCreatedAt[s]

BroadcastRead(s, b) ==
    IF broadcast_reads[s, b] = "none"
    THEN created_at[b] <= counters[s].read_watermark
    ELSE broadcast_reads[s, b] = "true"

BroadcastArchived(s, b) ==
    IF broadcast_archives[s, b] = "none"
    THEN created_at[b] <= counters[s].archive_watermark
    ELSE broadcast_archives[s, b] = "true"

\* A deliver job still owns the notification: its counter bump has not run.
PendingDeliver(n) ==
    \E r \in jobs : \E i \in DOMAIN NotificationIds[r] :
        i > offset[r] /\ NotificationIds[r][i] = n

----------------------------------------------------------------------------
(* The management plane: notifications and broadcasts are created *)

Recipients(r) == {subscriber_id[n] : n \in Ids(r)}

\* BEGIN of create_notifications_txn.  now() is taken here and becomes the
\* visible_at of an immediate request; a deliver_at was in the future when it
\* was validated, just before.
BeginCreate(r) ==
    /\ r \notin creating
    /\ Ids(r) \cap stored = {}
    /\ Cardinality(creating) + Cardinality(announcing) < MaxInFlight
    /\ \A s \in Recipients(r) : Exists(s)
    /\ creating' = creating \cup {r}
    /\ \/ /\ scheduled' = scheduled
          /\ visible_at' = [n \in Notifs |-> IF n \in Ids(r) THEN now ELSE visible_at[n]]
       \/ \E deliver_at \in now .. MaxTime :
             /\ scheduled' = scheduled \cup {r}
             /\ visible_at' = [n \in Notifs |-> IF n \in Ids(r) THEN deliver_at
                                                               ELSE visible_at[n]]
    /\ UNCHANGED <<now, stored, read_at, unread_at, archived_at, unarchived_at,
                   counters, jobVars, broadcastVars, overrideVars, fixedVars, hints>>

CreateUnread(n, hidden) ==
    /\ visible_at[n] > counters[subscriber_id[n]].read_watermark
    /\ visible_at[n] > counters[subscriber_id[n]].archive_watermark
    /\ ~Muted(n, hidden)

\* Mutant: the watermark is not read again under the row lock.
CreateUnseenBlindly(n, hidden) == ~Muted(n, hidden)

CreateUnseen(n, hidden) ==
    /\ visible_at[n] > counters[subscriber_id[n]].seen_watermark
    /\ ~Muted(n, hidden)

Bump(row, unread, unseen) == [row EXCEPT !.unread = @ + unread, !.unseen = @ + unseen]

\* The rest of an immediate create: the counters UPDATE waits for the row
\* locks, re-reads the watermarks and bumps; then COMMIT shows the rows.
CommitImmediate(r, hidden) ==
    /\ r \in creating
    /\ r \notin scheduled
    /\ creating' = creating \ {r}
    /\ stored' = stored \cup Ids(r)
    /\ counters' = [s \in Subs |-> Bump(counters[s],
          One(\E n \in Ids(r) : subscriber_id[n] = s /\ CreateUnread(n, hidden)),
          One(\E n \in Ids(r) : subscriber_id[n] = s /\ CreateUnseen(n, hidden)))]
    /\ hints' = hints \cup {Recipients(r)}
    /\ UNCHANGED <<now, scheduled, rowVars, jobVars, broadcastVars, overrideVars,
                   fixedVars>>

\* The rest of a scheduled create: no bump, a deliver job instead.
CommitScheduled(r) ==
    /\ r \in creating
    /\ r \in scheduled
    /\ creating' = creating \ {r}
    /\ stored' = stored \cup Ids(r)
    /\ jobs' = jobs \cup {r}
    /\ offset' = [offset EXCEPT ![r] = 0]
    /\ UNCHANGED <<now, scheduled, rowVars, counters, broadcastVars, overrideVars,
                   fixedVars, hints>>

\* The transaction is rolled back: a lost connection, a crash, or a concurrent
\* request with the same idempotency key.  The caller may try again.
RollbackCreate(r) ==
    /\ r \in creating
    /\ creating' = creating \ {r}
    /\ scheduled' = scheduled \ {r}
    /\ visible_at' = [n \in Notifs |-> IF n \in Ids(r) THEN 0 ELSE visible_at[n]]
    /\ UNCHANGED <<now, stored, read_at, unread_at, archived_at, unarchived_at,
                   counters, jobVars, broadcastVars, overrideVars, fixedVars, hints>>

BeginBroadcast(b) ==
    /\ b \notin announcing \cup announced
    /\ Cardinality(creating) + Cardinality(announcing) < MaxInFlight
    /\ announcing' = announcing \cup {b}
    /\ created_at' = [created_at EXCEPT ![b] = now]
    /\ UNCHANGED <<now, createVars, rowVars, counters, jobVars, announced,
                   overrideVars, fixedVars, hints>>

\* Mutant: the row without the hint.
CommitBroadcastSilently(b) ==
    /\ b \in announcing
    /\ announcing' = announcing \ {b}
    /\ announced' = announced \cup {b}
    /\ UNCHANGED <<now, createVars, rowVars, counters, jobVars, created_at,
                   overrideVars, fixedVars, hints>>

\* One row and one environment-wide hint, however many subscribers there are.
CommitBroadcast(b) ==
    /\ b \in announcing
    /\ announcing' = announcing \ {b}
    /\ announced' = announced \cup {b}
    /\ hints' = hints \cup {Subs}
    /\ UNCHANGED <<now, createVars, rowVars, counters, jobVars, created_at,
                   overrideVars, fixedVars>>

RollbackBroadcast(b) ==
    /\ b \in announcing
    /\ announcing' = announcing \ {b}
    /\ created_at' = [created_at EXCEPT ![b] = 0]
    /\ UNCHANGED <<now, createVars, rowVars, counters, jobVars, announced,
                   overrideVars, fixedVars, hints>>

----------------------------------------------------------------------------
(* The worker: deliver jobs and hints *)

RunAt(r) == visible_at[NotificationIds[r][1]]

\* Mutant: the saved cursor is not read, so that every claim counts the first
\* chunk.
NextOffsetFromStart(r) ==
    IF DeliverChunk < Len(NotificationIds[r]) THEN DeliverChunk ELSE Len(NotificationIds[r])

NextOffset(r) ==
    IF offset[r] + DeliverChunk < Len(NotificationIds[r])
    THEN offset[r] + DeliverChunk ELSE Len(NotificationIds[r])

Chunk(r) ==
    {NotificationIds[r][i] : i \in {i \in DOMAIN NotificationIds[r] :
                                        offset[r] < i /\ i <= NextOffset(r)}}

DeliverUnread(n) ==
    /\ n \notin read_at
    /\ n \in unread_at \/ visible_at[n] > counters[subscriber_id[n]].read_watermark
    /\ n \notin archived_at
    /\ n \in unarchived_at \/ visible_at[n] > counters[subscriber_id[n]].archive_watermark
    /\ ~Muted(n, muted)

DeliverUnseen(n) ==
    /\ visible_at[n] > counters[subscriber_id[n]].seen_watermark
    /\ ~Muted(n, muted)

\* One claim of a due deliver job: count the chunk, then either save the
\* cursor (Continue) or delete the job and announce all its notifications
\* (Done), in the same transaction.
ProcessDeliver(r) ==
    /\ r \in jobs
    /\ RunAt(r) <= now
    /\ counters' = [s \in Subs |-> Bump(counters[s],
          Cardinality({n \in Chunk(r) : subscriber_id[n] = s /\ DeliverUnread(n)}),
          Cardinality({n \in Chunk(r) : subscriber_id[n] = s /\ DeliverUnseen(n)}))]
    /\ \/ /\ NextOffset(r) < Len(NotificationIds[r])
          /\ offset' = [offset EXCEPT ![r] = NextOffset(r)]
          /\ UNCHANGED <<jobs, hints>>
       \/ /\ NextOffset(r) = Len(NotificationIds[r])
          /\ jobs' = jobs \ {r}
          /\ offset' = [offset EXCEPT ![r] = 0]
          /\ hints' = hints \cup {Recipients(r)}
    /\ UNCHANGED <<now, createVars, rowVars, broadcastVars, overrideVars, fixedVars>>

\* Every queued hint with these targets is published and deleted.
PublishHint(targets) ==
    /\ targets \in hints
    /\ hints' = hints \ {targets}
    /\ UNCHANGED <<now, createVars, rowVars, counters, jobVars, broadcastVars,
                   overrideVars, fixedVars>>

----------------------------------------------------------------------------
(* The subscriber plane: one item *)

Plus(s, p) == [counters EXCEPT ![s].unread = @ + One(p)]

Minus(s, p) == [counters EXCEPT ![s].unread = IF p /\ @ > 0 THEN @ - 1 ELSE @]

\* Mutant: an item the deliver job has not counted is taken off all the same.
ReadDecrementsUncounted(n) ==
    /\ visible_at[n] > counters[subscriber_id[n]].read_watermark \/ n \in unread_at
    /\ ~EffectivelyArchived(n)
    /\ ~Muted(n, muted)

ReadDecrements(n) ==
    /\ visible_at[n] > counters[subscriber_id[n]].read_watermark \/ n \in unread_at
    /\ ~PendingDeliver(n)
    /\ ~EffectivelyArchived(n)
    /\ ~Muted(n, muted)

MarkNotificationRead(n) ==
    /\ Visible(n)
    /\ n \notin read_at
    /\ read_at' = read_at \cup {n}
    /\ unread_at' = unread_at \ {n}
    /\ counters' = Minus(subscriber_id[n], ReadDecrements(n))
    /\ hints' = hints \cup {{subscriber_id[n]}}
    /\ UNCHANGED <<now, createVars, visible_at, archived_at, unarchived_at, jobVars,
                   broadcastVars, overrideVars, fixedVars>>

UnreadIncrements(n) ==
    /\ ~PendingDeliver(n)
    /\ ~EffectivelyArchived(n)
    /\ ~Muted(n, muted)

\* At or below the watermark an override column keeps the item out of it.
OverrideBelow(overrides, n, watermark) ==
    IF visible_at[n] <= watermark THEN overrides \cup {n} ELSE overrides \ {n}

MarkNotificationUnread(n) ==
    /\ Visible(n)
    /\ EffectivelyRead(n)
    /\ read_at' = read_at \ {n}
    /\ unread_at' = OverrideBelow(unread_at, n, counters[subscriber_id[n]].read_watermark)
    /\ counters' = Plus(subscriber_id[n], UnreadIncrements(n))
    /\ hints' = hints \cup {{subscriber_id[n]}}
    /\ UNCHANGED <<now, createVars, visible_at, archived_at, unarchived_at, jobVars,
                   broadcastVars, overrideVars, fixedVars>>

\* Archiving takes an unread item out of the count and unarchiving puts it
\* back.  Read, pending and muted items were never in it.
ArchiveMovesCount(n) ==
    /\ n \notin read_at
    /\ n \in unread_at \/ visible_at[n] > counters[subscriber_id[n]].read_watermark
    /\ ~PendingDeliver(n)
    /\ ~Muted(n, muted)

ArchiveNotification(n) ==
    /\ Visible(n)
    /\ ~EffectivelyArchived(n)
    /\ archived_at' = archived_at \cup {n}
    /\ unarchived_at' = unarchived_at \ {n}
    /\ counters' = Minus(subscriber_id[n], ArchiveMovesCount(n))
    /\ hints' = hints \cup {{subscriber_id[n]}}
    /\ UNCHANGED <<now, createVars, visible_at, read_at, unread_at, jobVars,
                   broadcastVars, overrideVars, fixedVars>>

UnarchiveNotification(n) ==
    /\ Visible(n)
    /\ EffectivelyArchived(n)
    /\ archived_at' = archived_at \ {n}
    /\ unarchived_at' = OverrideBelow(unarchived_at, n,
                                     counters[subscriber_id[n]].archive_watermark)
    /\ counters' = Plus(subscriber_id[n], ArchiveMovesCount(n))
    /\ hints' = hints \cup {{subscriber_id[n]}}
    /\ UNCHANGED <<now, createVars, visible_at, read_at, unread_at, jobVars,
                   broadcastVars, overrideVars, fixedVars>>

\* Above the watermark an explicit row decides; at or below it the watermark
\* does, unless a row says otherwise.  The handlers of the four broadcast
\* flips differ in the table, the watermark and the direction.
Flip(row, above, on) ==
    IF above THEN (IF on THEN "true" ELSE IF row = "true" THEN "none" ELSE row)
    ELSE (IF on THEN (IF row = "false" THEN "none" ELSE row) ELSE "false")

FlipBroadcastRead(s, b, on) ==
    LET above == created_at[b] > counters[s].read_watermark
        row   == broadcast_reads[s, b]
    IN  /\ Exists(s) /\ BroadcastVisible(s, b)
        /\ Flip(row, above, on) # row
        /\ broadcast_reads' = [broadcast_reads EXCEPT ![<<s, b>>] = Flip(row, above, on)]
        /\ hints' = hints \cup {{s}}
        /\ UNCHANGED <<now, createVars, rowVars, counters, jobVars, broadcastVars,
                       broadcast_archives, fixedVars>>

FlipBroadcastArchive(s, b, on) ==
    LET above == created_at[b] > counters[s].archive_watermark
        row   == broadcast_archives[s, b]
    IN  /\ Exists(s) /\ BroadcastVisible(s, b)
        /\ Flip(row, above, on) # row
        /\ broadcast_archives' = [broadcast_archives EXCEPT ![<<s, b>>] = Flip(row, above, on)]
        /\ hints' = hints \cup {{s}}
        /\ UNCHANGED <<now, createVars, rowVars, counters, jobVars, broadcastVars,
                       broadcast_reads, fixedVars>>

MarkBroadcastRead(s, b) == FlipBroadcastRead(s, b, TRUE)
MarkBroadcastUnread(s, b) == FlipBroadcastRead(s, b, FALSE)
ArchiveBroadcast(s, b) == FlipBroadcastArchive(s, b, TRUE)
UnarchiveBroadcast(s, b) == FlipBroadcastArchive(s, b, FALSE)

----------------------------------------------------------------------------
(* The subscriber plane: the whole inbox, through a watermark *)

\* Mutant: an item of this very instant is not below the new watermark.
StrictlyBelow(s, n) == subscriber_id[n] = s /\ n \in stored /\ visible_at[n] < now

Below(s, n) == subscriber_id[n] = s /\ n \in stored /\ visible_at[n] <= now

\* Mutant: the same off-by-one for broadcasts.
CollectStrictly(overrides, s) ==
    [p \in Subs \X Broadcasts |->
        IF p[1] = s /\ created_at[p[2]] < now THEN "none" ELSE overrides[p]]

Collect(overrides, s) ==
    [p \in Subs \X Broadcasts |->
        IF p[1] = s /\ created_at[p[2]] <= now THEN "none" ELSE overrides[p]]

\* The watermark is clock_timestamp() under the lock.  Overrides at or below
\* it are redundant and collected.
MarkAllRead(s) ==
    /\ Exists(s)
    /\ counters' = [counters EXCEPT ![s].read_watermark = now, ![s].unread = 0]
    /\ unread_at' = {n \in unread_at : ~Below(s, n)}
    /\ broadcast_reads' = Collect(broadcast_reads, s)
    /\ hints' = hints \cup {{s}}
    /\ UNCHANGED <<now, createVars, visible_at, read_at, archived_at, unarchived_at,
                   jobVars, broadcastVars, broadcast_archives, fixedVars>>

MarkAllSeen(s) ==
    /\ Exists(s)
    /\ counters' = [counters EXCEPT ![s].seen_watermark = now, ![s].unseen = 0]
    /\ hints' = hints \cup {{s}}
    /\ UNCHANGED <<now, createVars, rowVars, jobVars, broadcastVars, overrideVars,
                   fixedVars>>

\* Mutant: what is archived is marked read as well.
AdvanceBoth(s) == [counters EXCEPT ![s].archive_watermark = now,
                                   ![s].read_watermark = now, ![s].unread = 0]

AdvanceArchive(s) == [counters EXCEPT ![s].archive_watermark = now, ![s].unread = 0]

ArchiveAll(s) ==
    /\ Exists(s)
    /\ counters' = AdvanceArchive(s)
    /\ archived_at' = {n \in archived_at : ~Below(s, n)}
    /\ unarchived_at' = {n \in unarchived_at : ~Below(s, n)}
    /\ broadcast_archives' = Collect(broadcast_archives, s)
    /\ hints' = hints \cup {{s}}
    /\ UNCHANGED <<now, createVars, visible_at, read_at, unread_at, jobVars,
                   broadcastVars, broadcast_reads, fixedVars>>

----------------------------------------------------------------------------
(* The specification *)

Tick ==
    /\ now < MaxTime
    /\ now' = now + 1
    /\ UNCHANGED <<createVars, rowVars, counters, jobVars, broadcastVars,
                   overrideVars, fixedVars, hints>>

Management ==
    \/ \E r \in Requests : \/ BeginCreate(r)
                           \/ CommitImmediate(r, muted)
                           \/ CommitScheduled(r)
                           \/ RollbackCreate(r)
    \/ \E b \in Broadcasts : \/ BeginBroadcast(b)
                             \/ CommitBroadcast(b)
                             \/ RollbackBroadcast(b)

Worker ==
    \/ \E r \in Requests : ProcessDeliver(r)
    \/ \E targets \in hints : PublishHint(targets)

Subscriber ==
    \E s \in Acting :
        \/ MarkAllRead(s)
        \/ MarkAllSeen(s)
        \/ ArchiveAll(s)
        \/ \E n \in Notifs :
              /\ subscriber_id[n] = s
              /\ \/ MarkNotificationRead(n)
                 \/ MarkNotificationUnread(n)
                 \/ ArchiveNotification(n)
                 \/ UnarchiveNotification(n)
        \/ \E b \in Broadcasts : \/ MarkBroadcastRead(s, b)
                                 \/ MarkBroadcastUnread(s, b)
                                 \/ ArchiveBroadcast(s, b)
                                 \/ UnarchiveBroadcast(s, b)

Next == Tick \/ Management \/ Worker \/ Subscriber

\* The worker loops for ever and time passes; nobody else has to act.
Fairness ==
    /\ WF_vars(Tick)
    /\ \A r \in Requests : WF_vars(ProcessDeliver(r))
    /\ \A targets \in SUBSET Subs : WF_vars(PublishHint(targets))

Spec == Init /\ [][Next]_vars

FairSpec == Spec /\ Fairness

----------------------------------------------------------------------------
(* What a subscriber is shown *)

ListDirect(s, filter) ==
    {n \in Notifs :
        /\ Visible(n) /\ subscriber_id[n] = s
        /\ filter = "unread" => ~EffectivelyRead(n)
        /\ EffectivelyArchived(n) <=> filter = "archived"
        /\ ~Muted(n, muted)}

BroadcastMuted(s, b) == <<s, CategoryOf[b]>> \in muted

ListBroadcast(s, filter) ==
    {b \in Broadcasts :
        /\ BroadcastVisible(s, b)
        /\ filter = "unread" => ~BroadcastRead(s, b)
        /\ BroadcastArchived(s, b) <=> filter = "archived"
        /\ ~BroadcastMuted(s, b)}

\* Mutant: without the explicit unread overrides below the watermark.
UnreadCountAbove(s) ==
    counters[s].unread
    + Cardinality({b \in announced :
          /\ BroadcastVisible(s, b) /\ ~BroadcastArchived(s, b) /\ ~BroadcastMuted(s, b)
          /\ created_at[b] > counters[s].read_watermark
          /\ broadcast_reads[s, b] # "true"})

\* The badge: the maintained counter, the broadcasts above the watermark that
\* are not explicitly read, and the explicit unread overrides below it.
UnreadCount(s) ==
    LET countable(b) == ~BroadcastArchived(s, b) /\ ~BroadcastMuted(s, b)
    IN  counters[s].unread
        + Cardinality({b \in announced : /\ BroadcastVisible(s, b) /\ countable(b)
                                         /\ created_at[b] > counters[s].read_watermark
                                         /\ broadcast_reads[s, b] # "true"})
        + Cardinality({b \in announced : /\ BroadcastVisible(s, b) /\ countable(b)
                                         /\ created_at[b] <= counters[s].read_watermark
                                         /\ broadcast_reads[s, b] = "false"})

UnseenCount(s) ==
    counters[s].unseen
    + Cardinality({b \in announced : /\ BroadcastVisible(s, b) /\ ~BroadcastMuted(s, b)
                                     /\ created_at[b] > counters[s].seen_watermark})

----------------------------------------------------------------------------
(* Properties *)

\* The maintained counters never drift: at every moment they are what a
\* recount over the subscriber's visible rows gives, the rows a deliver job
\* still owns excepted (worker.rs, process_deliver; metrics_sampler.rs,
\* counter_drift).
CountersExact ==
    \A s \in Subs :
        /\ counters[s].unread =
              Cardinality({n \in ListDirect(s, "unread") : ~PendingDeliver(n)})
        /\ counters[s].unseen =
              Cardinality({n \in Notifs :
                  /\ Visible(n) /\ subscriber_id[n] = s /\ ~PendingDeliver(n)
                  /\ visible_at[n] > counters[s].seen_watermark
                  /\ ~Muted(n, muted)})

\* The badge agrees with the list: what fetch_counts adds up from the counter
\* and two bounded broadcast terms is the length of the unread list across
\* both sources, and the unseen count is that of the items above the seen
\* watermark.
CountsMatchList ==
    \A s \in Subs :
        /\ UnreadCount(s) =
              Cardinality({n \in ListDirect(s, "unread") : ~PendingDeliver(n)})
              + Cardinality(ListBroadcast(s, "unread"))
        /\ UnseenCount(s) =
              Cardinality({n \in ListDirect(s, "default") \cup ListDirect(s, "archived") :
                  ~PendingDeliver(n) /\ visible_at[n] > counters[s].seen_watermark})
              + Cardinality({b \in ListBroadcast(s, "default") \cup ListBroadcast(s, "archived") :
                  created_at[b] > counters[s].seen_watermark})

\* An override row exists only where it overrides something: no row carries
\* both a flag and its opposite, and what a watermark already says is not
\* stored again.  This is what bounds the exception rows the two collections
\* and the second broadcast term scan.
OverridesAreExceptions ==
    /\ read_at \cap unread_at = {}
    /\ archived_at \cap unarchived_at = {}
    /\ \A n \in unread_at : visible_at[n] <= counters[subscriber_id[n]].read_watermark
    /\ \A n \in unarchived_at : visible_at[n] <= counters[subscriber_id[n]].archive_watermark
    /\ \A s \in Subs, b \in Broadcasts :
          /\ broadcast_reads[s, b] = "true" => created_at[b] > counters[s].read_watermark
          /\ broadcast_reads[s, b] = "false" => created_at[b] <= counters[s].read_watermark
          /\ broadcast_archives[s, b] = "true" => created_at[b] > counters[s].archive_watermark
          /\ broadcast_archives[s, b] = "false" => created_at[b] <= counters[s].archive_watermark

\* Everything a subscriber's client would render.
Shown(s) ==
    [items  |-> {<<n, EffectivelyRead(n), EffectivelyArchived(n)>> :
                    n \in ListDirect(s, "default") \cup ListDirect(s, "archived")}
                \cup
                {<<b, BroadcastRead(s, b), BroadcastArchived(s, b)>> :
                    b \in ListBroadcast(s, "default") \cup ListBroadcast(s, "archived")},
     unread |-> UnreadCount(s),
     unseen |-> UnseenCount(s)]

\* The worker still has to tell the subscriber's clients something.
Announced(s) ==
    \/ \E targets \in hints : s \in targets
    \/ \E r \in jobs : s \in Recipients(r) /\ RunAt(r) <= now

\* A client that refetches on every hint misses nothing: a step that changes
\* what a subscriber is shown, the mere passing of time included, leaves a
\* hint for them queued or a due deliver job that will queue one.
HintsCoverChanges == [][\A s \in Subs : Shown(s)' # Shown(s) => Announced(s)']_vars

\* Every accepted notification is in the end visible and counted, the
\* scheduled ones and the later chunks of a large request included.
AcceptedIsCounted ==
    \A n \in Notifs : n \in stored ~> Visible(n) /\ ~PendingDeliver(n)
=============================================================================
