---------------------------- MODULE InboxProofs ----------------------------
(***************************************************************************)
(* Proofs about Inbox for every number of subscribers, notifications,      *)
(* broadcasts and requests, every chunk size and every horizon of time;    *)
(* and, from "An archive-read job forgets nothing" on, about what goes on  *)
(* around the core: the archive-read job, the other writers of the         *)
(* counters, and the ETag of a list.                                       *)
(***************************************************************************)
EXTENDS InboxRefinement, ListEtag, FiniteSetTheorems, TLAPS

----------------------------------------------------------------------------
(* Operators *)

LEMMA OneType == ASSUME NEW p PROVE One(p) \in {0, 1}
BY DEF One

LEMMA NotifSubsetFinite ==
    ASSUME NEW S \in SUBSET Notifs
    PROVE  IsFiniteSet(S) /\ Cardinality(S) \in Nat
BY FiniteAssumption, FS_Subset, FS_CardinalityType DEF FiniteAssumption

LEMMA BumpType ==
    ASSUME NEW row \in CountersRow, NEW a \in Nat, NEW b \in Nat
    PROVE  Bump(row, a, b) \in CountersRow
<1>1. row.unread + a \in Nat /\ row.unseen + b \in Nat
    BY DEF CountersRow
<1> QED
    BY <1>1 DEF CountersRow, Bump

\* A counters row stays one when its two counts stay natural numbers.
LEMMA PlusType ==
    ASSUME TypeOK, NEW s \in Subs, NEW p
    PROVE  Plus(s, p) \in [Subs -> CountersRow]
BY OneType DEF TypeOK, Plus, CountersRow

LEMMA MinusType ==
    ASSUME TypeOK, NEW s \in Subs, NEW p
    PROVE  Minus(s, p) \in [Subs -> CountersRow]
BY DEF TypeOK, Minus, CountersRow

LEMMA AddedHintType ==
    ASSUME hints \subseteq SUBSET Subs, NEW targets \in SUBSET Subs
    PROVE  hints \cup {targets} \subseteq SUBSET Subs
OBVIOUS

LEMMA FlipType ==
    ASSUME NEW row \in Override, NEW above, NEW on
    PROVE  Flip(row, above, on) \in Override
BY DEF Flip, Override

LEMMA CollectType ==
    ASSUME NEW overrides \in [Subs \X Broadcasts -> Override], NEW s \in Subs
    PROVE  Collect(overrides, s) \in [Subs \X Broadcasts -> Override]
BY DEF Collect, Override

LEMMA RequestFacts ==
    ASSUME NEW r \in Requests
    PROVE  /\ NotificationIds[r] \in Seq(Notifs)
           /\ Len(NotificationIds[r]) \in Nat \ {0}
           /\ Ids(r) \subseteq Notifs
           /\ NotificationIds[r][1] \in Notifs
BY RequestsAssumption DEF RequestsAssumption, Ids

LEMMA RecipientsType ==
    ASSUME TypeOK, NEW r \in Requests
    PROVE  Recipients(r) \in SUBSET Subs
BY RequestFacts DEF Recipients, TypeOK

LEMMA ChunkType ==
    ASSUME NEW r \in Requests
    PROVE  Chunk(r) \subseteq Ids(r) /\ Chunk(r) \subseteq Notifs
BY RequestFacts DEF Chunk, Ids

----------------------------------------------------------------------------
(* Type correctness *)

LEMMA TypeInit == Init => TypeOK
BY RequestsAssumption, DataAssumption, BoundsAssumption
   DEF RequestsAssumption, DataAssumption, BoundsAssumption, Init, TypeOK, Times,
       CountersRow, Override

LEMMA TypeCommit ==
    ASSUME TypeOK, NEW r \in Requests, NEW hidden, CommitImmediate(r, hidden)
    PROVE  TypeOK'
<1> USE DEF TypeOK
<1>1. counters' \in [Subs -> CountersRow]
    BY BumpType DEF CommitImmediate, One
<1>2. stored' \subseteq Notifs
    BY RequestFacts DEF CommitImmediate
<1>3. hints' \subseteq SUBSET Subs
    BY RecipientsType, AddedHintType DEF CommitImmediate
<1> QED
    BY <1>1, <1>2, <1>3 DEF CommitImmediate, rowVars, jobVars, broadcastVars, overrideVars,
       fixedVars

LEMMA TypeManagement == TypeOK /\ Management => TypeOK'
<1> SUFFICES ASSUME TypeOK, Management PROVE TypeOK'
    OBVIOUS
<1>2. ASSUME NEW r \in Requests, CommitImmediate(r, muted) PROVE TypeOK'
    BY <1>2, TypeCommit
<1> USE DEF TypeOK
<1>1. ASSUME NEW r \in Requests, BeginCreate(r) PROVE TypeOK'
    BY <1>1 DEF BeginCreate, Times, jobVars, broadcastVars, overrideVars, fixedVars
<1>3. ASSUME NEW r \in Requests, CommitScheduled(r) PROVE TypeOK'
    BY <1>3, RequestFacts DEF CommitScheduled, rowVars, broadcastVars, overrideVars,
       fixedVars
<1>4. ASSUME NEW r \in Requests, RollbackCreate(r) PROVE TypeOK'
    BY <1>4, BoundsAssumption DEF RollbackCreate, Times, jobVars, broadcastVars,
       overrideVars, fixedVars, BoundsAssumption
<1>5. ASSUME NEW b \in Broadcasts, BeginBroadcast(b) PROVE TypeOK'
    BY <1>5 DEF BeginBroadcast, createVars, rowVars, jobVars, overrideVars, fixedVars
<1>6. ASSUME NEW b \in Broadcasts, CommitBroadcast(b) PROVE TypeOK'
    BY <1>6 DEF CommitBroadcast, createVars, rowVars, jobVars, overrideVars, fixedVars
<1>7. ASSUME NEW b \in Broadcasts, RollbackBroadcast(b) PROVE TypeOK'
    BY <1>7, BoundsAssumption DEF RollbackBroadcast, createVars, rowVars, jobVars,
       overrideVars, fixedVars, Times, BoundsAssumption
<1> QED
    BY <1>1, <1>2, <1>3, <1>4, <1>5, <1>6, <1>7 DEF Management

LEMMA TypeWorker == TypeOK /\ Worker => TypeOK'
<1> SUFFICES ASSUME TypeOK, Worker PROVE TypeOK'
    OBVIOUS
<1>1. ASSUME NEW r \in Requests, ProcessDeliver(r) PROVE TypeOK'
    <2>1. counters' \in [Subs -> CountersRow]
        <3>1. \A s \in Subs :
                 /\ Cardinality({n \in Chunk(r) : subscriber_id[n] = s /\ DeliverUnread(n)}) \in Nat
                 /\ Cardinality({n \in Chunk(r) : subscriber_id[n] = s /\ DeliverUnseen(n)}) \in Nat
            <4>1. \A s \in Subs :
                     /\ {n \in Chunk(r) : subscriber_id[n] = s /\ DeliverUnread(n)} \in SUBSET Notifs
                     /\ {n \in Chunk(r) : subscriber_id[n] = s /\ DeliverUnseen(n)} \in SUBSET Notifs
                BY ChunkType
            <4> QED
                BY <4>1, NotifSubsetFinite
        <3> QED
            BY <1>1, <3>1, BumpType DEF ProcessDeliver, TypeOK
    <2>2. NextOffset(r) \in Nat
        BY RequestFacts, BoundsAssumption DEF NextOffset, TypeOK, BoundsAssumption
    <2>3. offset' \in [Requests -> Nat] /\ jobs' \subseteq Requests
        <3>1. offset' = offset \/ offset' = [offset EXCEPT ![r] = NextOffset(r)]
                              \/ offset' = [offset EXCEPT ![r] = 0]
            BY <1>1 DEF ProcessDeliver
        <3>2. jobs' = jobs \/ jobs' = jobs \ {r}
            BY <1>1 DEF ProcessDeliver
        <3> QED
            BY <2>2, <3>1, <3>2 DEF TypeOK
    <2>4. hints' \subseteq SUBSET Subs
        <3>1. hints' = hints \/ hints' = hints \cup {Recipients(r)}
            BY <1>1 DEF ProcessDeliver
        <3> QED
            BY <3>1, RecipientsType, AddedHintType DEF TypeOK
    <2> QED
        BY <1>1, <2>1, <2>3, <2>4 DEF ProcessDeliver, TypeOK, createVars, rowVars,
           broadcastVars, overrideVars, fixedVars
<1>2. ASSUME NEW targets \in hints, PublishHint(targets) PROVE TypeOK'
    BY <1>2 DEF PublishHint, TypeOK, createVars, rowVars, jobVars, broadcastVars,
       overrideVars, fixedVars
<1> QED
    BY <1>1, <1>2 DEF Worker

LEMMA TypeItem ==
    ASSUME TypeOK, NEW n \in Notifs,
           \/ MarkNotificationRead(n) \/ MarkNotificationUnread(n)
           \/ ArchiveNotification(n) \/ UnarchiveNotification(n)
    PROVE  TypeOK'
<1>1. CASE MarkNotificationRead(n)
    BY <1>1, MinusType DEF MarkNotificationRead, TypeOK, createVars, jobVars,
       broadcastVars, overrideVars, fixedVars
<1>2. CASE MarkNotificationUnread(n)
    BY <1>2, PlusType DEF MarkNotificationUnread, OverrideBelow, TypeOK, createVars,
       jobVars, broadcastVars, overrideVars, fixedVars
<1>3. CASE ArchiveNotification(n)
    BY <1>3, MinusType DEF ArchiveNotification, TypeOK, createVars, jobVars,
       broadcastVars, overrideVars, fixedVars
<1>4. CASE UnarchiveNotification(n)
    BY <1>4, PlusType DEF UnarchiveNotification, OverrideBelow, TypeOK, createVars,
       jobVars, broadcastVars, overrideVars, fixedVars
<1> QED
    BY <1>1, <1>2, <1>3, <1>4

LEMMA TypeBroadcastItem ==
    ASSUME TypeOK, NEW s \in Subs, NEW b \in Broadcasts, NEW on \in BOOLEAN,
           FlipBroadcastRead(s, b, on) \/ FlipBroadcastArchive(s, b, on)
    PROVE  TypeOK'
<1>1. CASE FlipBroadcastRead(s, b, on)
    <2>1. broadcast_reads' \in [Subs \X Broadcasts -> Override]
        <3>1. PICK value \in Override : broadcast_reads' = [broadcast_reads EXCEPT ![<<s, b>>] = value]
            BY <1>1, FlipType DEF FlipBroadcastRead, TypeOK
        <3> QED
            BY <3>1 DEF TypeOK
    <2> QED
        BY <1>1, <2>1 DEF FlipBroadcastRead, TypeOK, createVars, rowVars, jobVars,
           broadcastVars, fixedVars
<1>2. CASE FlipBroadcastArchive(s, b, on)
    <2>1. broadcast_archives' \in [Subs \X Broadcasts -> Override]
        <3>1. PICK value \in Override : broadcast_archives' = [broadcast_archives EXCEPT ![<<s, b>>] = value]
            BY <1>2, FlipType DEF FlipBroadcastArchive, TypeOK
        <3> QED
            BY <3>1 DEF TypeOK
    <2> QED
        BY <1>2, <2>1 DEF FlipBroadcastArchive, TypeOK, createVars, rowVars, jobVars,
           broadcastVars, fixedVars
<1> QED
    BY <1>1, <1>2

LEMMA TypeSubscriber == TypeOK /\ Subscriber => TypeOK'
<1> SUFFICES ASSUME TypeOK, NEW s \in Subs,
                    \/ MarkAllRead(s) \/ MarkAllSeen(s) \/ ArchiveAll(s)
                    \/ \E n \in Notifs :
                          \/ MarkNotificationRead(n) \/ MarkNotificationUnread(n)
                          \/ ArchiveNotification(n) \/ UnarchiveNotification(n)
                    \/ \E b \in Broadcasts, on \in BOOLEAN :
                          FlipBroadcastRead(s, b, on) \/ FlipBroadcastArchive(s, b, on)
             PROVE  TypeOK'
    BY BoundsAssumption DEF Subscriber, MarkBroadcastRead, MarkBroadcastUnread,
       ArchiveBroadcast, UnarchiveBroadcast, BoundsAssumption
<1>1. CASE MarkAllRead(s)
    <2>1. counters' \in [Subs -> CountersRow]
        BY <1>1 DEF MarkAllRead, TypeOK, CountersRow
    <2>2. broadcast_reads' \in [Subs \X Broadcasts -> Override]
        BY <1>1, CollectType DEF MarkAllRead, TypeOK
    <2>3. hints' \subseteq SUBSET Subs /\ unread_at' \subseteq Notifs
        BY <1>1, AddedHintType DEF MarkAllRead, TypeOK
    <2>4. UNCHANGED <<now, createVars, visible_at, read_at, archived_at, unarchived_at,
                      jobVars, broadcastVars, broadcast_archives, fixedVars>>
        BY <1>1 DEF MarkAllRead
    <2> QED
        BY <2>1, <2>2, <2>3, <2>4 DEF TypeOK, createVars, jobVars, broadcastVars, fixedVars
<1>2. CASE MarkAllSeen(s)
    <2>1. counters' \in [Subs -> CountersRow]
        BY <1>2 DEF MarkAllSeen, TypeOK, CountersRow
    <2>2. hints' \subseteq SUBSET Subs
        BY <1>2, AddedHintType DEF MarkAllSeen, TypeOK
    <2> QED
        BY <1>2, <2>1, <2>2 DEF MarkAllSeen, TypeOK, createVars, rowVars, jobVars,
           broadcastVars, overrideVars, fixedVars
<1>3. CASE ArchiveAll(s)
    <2>1. counters' \in [Subs -> CountersRow]
        BY <1>3 DEF ArchiveAll, AdvanceArchive, TypeOK, CountersRow
    <2>2. broadcast_archives' \in [Subs \X Broadcasts -> Override]
        BY <1>3, CollectType DEF ArchiveAll, TypeOK
    <2>3. hints' \subseteq SUBSET Subs
        BY <1>3, AddedHintType DEF ArchiveAll, TypeOK
    <2>4. archived_at' \subseteq Notifs /\ unarchived_at' \subseteq Notifs
        BY <1>3 DEF ArchiveAll, TypeOK
    <2>5. UNCHANGED <<now, createVars, visible_at, read_at, unread_at, jobVars,
                      broadcastVars, broadcast_reads, fixedVars>>
        BY <1>3 DEF ArchiveAll
    <2> QED
        BY <2>1, <2>2, <2>3, <2>4, <2>5 DEF TypeOK, createVars, jobVars, broadcastVars,
           fixedVars
<1> QED
    BY <1>1, <1>2, <1>3, TypeItem, TypeBroadcastItem

LEMMA TypeStep == TypeOK /\ [Next]_vars => TypeOK'
<1> SUFFICES ASSUME TypeOK, [Next]_vars PROVE TypeOK'
    OBVIOUS
<1>1. CASE Tick
    BY <1>1, BoundsAssumption DEF BoundsAssumption, Tick, TypeOK, Times, createVars, rowVars, jobVars, broadcastVars,
       overrideVars, fixedVars
<1>2. CASE UNCHANGED vars
    BY <1>2 DEF TypeOK, vars, createVars, rowVars, jobVars, broadcastVars,
       overrideVars, fixedVars
<1> QED
    BY <1>1, <1>2, TypeManagement, TypeWorker, TypeSubscriber DEF Next

\* In every reachable state the variables have the types of their columns; in
\* particular no count is ever negative, although the handlers subtract
\* (inbox.rs, mark_notification_read, archive_notification).
THEOREM TypeCorrect == Spec => []TypeOK
BY TypeInit, TypeStep, PTL DEF Spec

----------------------------------------------------------------------------
(* What a subscriber's request and a worker's step never write *)

LEMMA SubscriberLeaves ==
    ASSUME Subscriber
    PROVE  UNCHANGED <<now, createVars, visible_at, jobVars, broadcastVars, fixedVars>>
<1>1. PICK s \in Subs :
          \/ MarkAllRead(s) \/ MarkAllSeen(s) \/ ArchiveAll(s)
          \/ \E n \in Notifs : \/ MarkNotificationRead(n) \/ MarkNotificationUnread(n)
                             \/ ArchiveNotification(n) \/ UnarchiveNotification(n)
          \/ \E b \in Broadcasts, on \in BOOLEAN :
                FlipBroadcastRead(s, b, on) \/ FlipBroadcastArchive(s, b, on)
    BY BoundsAssumption DEF Subscriber, MarkBroadcastRead, MarkBroadcastUnread, ArchiveBroadcast,
       UnarchiveBroadcast, BoundsAssumption
<1>2. CASE MarkAllRead(s) \/ MarkAllSeen(s) \/ ArchiveAll(s)
    BY <1>2 DEF MarkAllRead, MarkAllSeen, ArchiveAll, rowVars
<1>3. ASSUME NEW n \in Notifs,
             \/ MarkNotificationRead(n) \/ MarkNotificationUnread(n)
             \/ ArchiveNotification(n) \/ UnarchiveNotification(n)
      PROVE  UNCHANGED <<now, createVars, visible_at, jobVars, broadcastVars, fixedVars>>
    BY <1>3 DEF MarkNotificationRead, MarkNotificationUnread, ArchiveNotification,
       UnarchiveNotification
<1>4. ASSUME NEW b \in Broadcasts, NEW on \in BOOLEAN,
             FlipBroadcastRead(s, b, on) \/ FlipBroadcastArchive(s, b, on)
      PROVE  UNCHANGED <<now, createVars, visible_at, jobVars, broadcastVars, fixedVars>>
    BY <1>4 DEF FlipBroadcastRead, FlipBroadcastArchive, rowVars
<1> QED
    BY <1>1, <1>2, <1>3, <1>4

LEMMA WorkerLeaves ==
    ASSUME Worker
    PROVE  /\ UNCHANGED <<now, createVars, rowVars, broadcastVars, overrideVars, fixedVars>>
           /\ jobs' \subseteq jobs
BY DEF Worker, ProcessDeliver, PublishHint, jobVars

----------------------------------------------------------------------------
(* The rows *)

\* No watermark is in the future: it is clock_timestamp() under the row lock.
WatermarksPast ==
    \A s \in Subs : /\ counters[s].read_watermark <= now
                    /\ counters[s].seen_watermark <= now
                    /\ counters[s].archive_watermark <= now

\* Only a row that is committed has flags, and only a broadcast that is
\* committed has override rows.
FlagsOnStored ==
    /\ read_at \subseteq stored /\ unread_at \subseteq stored
    /\ archived_at \subseteq stored /\ unarchived_at \subseteq stored

OverridesOnAnnounced ==
    \A s \in Subs, b \in Broadcasts \ announced :
        broadcast_reads[<<s, b>>] = "none" /\ broadcast_archives[<<s, b>>] = "none"

\* An open transaction's rows are not committed.
OpenUnstored ==
    /\ \A r \in creating : Ids(r) \cap stored = {}
    /\ announcing \cap announced = {}

RowsInv ==
    /\ TypeOK
    /\ WatermarksPast
    /\ FlagsOnStored
    /\ OverridesOnAnnounced
    /\ OpenUnstored
    /\ OverridesAreExceptions

\* What a single-item action leaves of the counters row.
WatermarksStand ==
    \A s \in Subs : /\ counters'[s].read_watermark = counters[s].read_watermark
                    /\ counters'[s].seen_watermark = counters[s].seen_watermark
                    /\ counters'[s].archive_watermark = counters[s].archive_watermark

LEMMA PlusFields ==
    ASSUME TypeOK, NEW s \in Subs, NEW p, counters' = Plus(s, p)
    PROVE  /\ WatermarksStand
           /\ \A t \in Subs : /\ counters'[t].unseen = counters[t].unseen
                              /\ counters'[t].unread =
                                    IF t = s THEN counters[t].unread + One(p) ELSE counters[t].unread
BY DEF Plus, TypeOK, CountersRow, WatermarksStand

LEMMA MinusFields ==
    ASSUME TypeOK, NEW s \in Subs, NEW p, counters' = Minus(s, p)
    PROVE  /\ WatermarksStand
           /\ \A t \in Subs : /\ counters'[t].unseen = counters[t].unseen
                              /\ counters'[t].unread =
                                    IF t = s /\ p /\ counters[t].unread > 0
                                    THEN counters[t].unread - 1 ELSE counters[t].unread
BY DEF Minus, TypeOK, CountersRow, WatermarksStand

LEMMA BumpFields ==
    ASSUME NEW row \in CountersRow, NEW a \in Nat, NEW b \in Nat
    PROVE  /\ Bump(row, a, b).unread = row.unread + a
           /\ Bump(row, a, b).unseen = row.unseen + b
           /\ Bump(row, a, b).read_watermark = row.read_watermark
           /\ Bump(row, a, b).seen_watermark = row.seen_watermark
           /\ Bump(row, a, b).archive_watermark = row.archive_watermark
BY DEF CountersRow, Bump

LEMMA CommitFields ==
    ASSUME TypeOK, NEW r \in Requests, NEW hidden, CommitImmediate(r, hidden)
    PROVE  /\ WatermarksStand
           /\ \A s \in Subs :
                 /\ counters'[s].unread = counters[s].unread
                       + One(\E n \in Ids(r) : subscriber_id[n] = s /\ CreateUnread(n, hidden))
                 /\ counters'[s].unseen = counters[s].unseen
                       + One(\E n \in Ids(r) : subscriber_id[n] = s /\ CreateUnseen(n, hidden))
<1> DEFINE a(s) == One(\E n \in Ids(r) : subscriber_id[n] = s /\ CreateUnread(n, hidden))
           b(s) == One(\E n \in Ids(r) : subscriber_id[n] = s /\ CreateUnseen(n, hidden))
<1>1. \A s \in Subs : counters'[s] = Bump(counters[s], a(s), b(s))
    BY DEF CommitImmediate
<1>2. \A s \in Subs : a(s) \in Nat /\ b(s) \in Nat /\ counters[s] \in CountersRow
    BY DEF One, TypeOK
<1> HIDE DEF a, b
<1>3. \A s \in Subs : /\ counters'[s].unread = counters[s].unread + a(s)
                      /\ counters'[s].unseen = counters[s].unseen + b(s)
                      /\ counters'[s].read_watermark = counters[s].read_watermark
                      /\ counters'[s].seen_watermark = counters[s].seen_watermark
                      /\ counters'[s].archive_watermark = counters[s].archive_watermark
    BY <1>1, <1>2, BumpFields
<1> QED
    BY <1>3 DEF a, b, WatermarksStand

LEMMA DeliverFields ==
    ASSUME TypeOK, NEW r \in Requests, ProcessDeliver(r)
    PROVE  /\ WatermarksStand
           /\ \A s \in Subs :
                 /\ counters'[s].unread = counters[s].unread
                       + Cardinality({n \in Chunk(r) : subscriber_id[n] = s /\ DeliverUnread(n)})
                 /\ counters'[s].unseen = counters[s].unseen
                       + Cardinality({n \in Chunk(r) : subscriber_id[n] = s /\ DeliverUnseen(n)})
<1> DEFINE A(s) == {n \in Chunk(r) : subscriber_id[n] = s /\ DeliverUnread(n)}
           B(s) == {n \in Chunk(r) : subscriber_id[n] = s /\ DeliverUnseen(n)}
<1>1. \A s \in Subs : counters'[s] = Bump(counters[s], Cardinality(A(s)), Cardinality(B(s)))
    BY DEF ProcessDeliver
<1>2. \A s \in Subs : A(s) \in SUBSET Notifs /\ B(s) \in SUBSET Notifs
    BY ChunkType
<1> HIDE DEF A, B
<1>3. \A s \in Subs : /\ Cardinality(A(s)) \in Nat /\ Cardinality(B(s)) \in Nat
                      /\ counters[s] \in CountersRow
    BY <1>2, NotifSubsetFinite DEF TypeOK
<1>4. \A s \in Subs : /\ counters'[s].unread = counters[s].unread + Cardinality(A(s))
                      /\ counters'[s].unseen = counters[s].unseen + Cardinality(B(s))
                      /\ counters'[s].read_watermark = counters[s].read_watermark
                      /\ counters'[s].seen_watermark = counters[s].seen_watermark
                      /\ counters'[s].archive_watermark = counters[s].archive_watermark
    BY <1>1, <1>3, BumpFields
<1> QED
    BY <1>4 DEF A, B, WatermarksStand

LEMMA RowsInit == Init => RowsInv
<1> SUFFICES ASSUME Init PROVE RowsInv
    OBVIOUS
<1>1. WatermarksPast /\ FlagsOnStored /\ OpenUnstored
    BY DEF Init, WatermarksPast, FlagsOnStored, OpenUnstored
<1>2. OverridesOnAnnounced
    BY DEF Init, OverridesOnAnnounced
<1>3. OverridesAreExceptions
    BY DEF Init, OverridesAreExceptions
<1> QED
    BY <1>1, <1>2, <1>3, TypeInit DEF RowsInv

\* The rows of a request that is not committed have no flags, so moving their
\* visible_at disturbs no override.
LEMMA RowsPositioned ==
    ASSUME RowsInv, TypeOK', NEW r \in Requests, Ids(r) \cap stored = {},
           \A n \in Notifs \ Ids(r) : visible_at'[n] = visible_at[n],
           creating' \subseteq creating \cup {r},
           UNCHANGED <<now, stored, read_at, unread_at, archived_at, unarchived_at,
                       counters, subscriber_id, broadcastVars, overrideVars>>
    PROVE  RowsInv'
<1> USE DEF RowsInv, broadcastVars, overrideVars
<1>1. WatermarksPast' /\ FlagsOnStored' /\ OverridesOnAnnounced'
    BY DEF WatermarksPast, FlagsOnStored, OverridesOnAnnounced
<1>2. OpenUnstored'
    BY DEF OpenUnstored
<1>3. \A n \in stored : n \in Notifs \ Ids(r)
    BY DEF TypeOK
<1>4. OverridesAreExceptions'
    BY <1>3 DEF OverridesAreExceptions, FlagsOnStored
<1> QED
    BY <1>1, <1>2, <1>4

\* Committed rows and quiet queues: nothing the invariant speaks of moves but
\* the sets of open and committed transactions.
LEMMA RowsCommitted ==
    ASSUME RowsInv, TypeOK', stored \subseteq stored', creating' \subseteq creating,
           \A r \in creating' : Ids(r) \cap stored' = {},
           now <= now', WatermarksStand,
           UNCHANGED <<rowVars, subscriber_id, broadcastVars, overrideVars>>
    PROVE  RowsInv'
<1> USE DEF RowsInv, rowVars, broadcastVars, overrideVars
<1>1. WatermarksPast'
    BY DEF WatermarksPast, WatermarksStand, TypeOK, Times, CountersRow
<1>2. FlagsOnStored' /\ OverridesOnAnnounced' /\ OpenUnstored'
    BY DEF FlagsOnStored, OverridesOnAnnounced, OpenUnstored
<1>3. OverridesAreExceptions'
    BY DEF OverridesAreExceptions, WatermarksStand, TypeOK
<1> QED
    BY <1>1, <1>2, <1>3

\* A broadcast that is not committed has no override rows.
LEMMA RowsBroadcast ==
    ASSUME RowsInv, TypeOK', NEW b \in Broadcasts, b \notin announced,
           \A c \in Broadcasts \ {b} : created_at'[c] = created_at[c],
           announced' = announced, announcing' \subseteq announcing \cup {b},
           UNCHANGED <<now, createVars, rowVars, counters, subscriber_id, overrideVars>>
    PROVE  RowsInv'
<1> USE DEF RowsInv, rowVars, createVars, overrideVars
<1>1. WatermarksPast' /\ FlagsOnStored' /\ OverridesOnAnnounced' /\ OpenUnstored'
    BY DEF WatermarksPast, FlagsOnStored, OverridesOnAnnounced, OpenUnstored
<1>2. ASSUME NEW s \in Subs, NEW c \in Broadcasts
      PROVE  /\ broadcast_reads'[<<s, c>>] = "true" => created_at'[c] > counters'[s].read_watermark
             /\ broadcast_reads'[<<s, c>>] = "false" => created_at'[c] <= counters'[s].read_watermark
             /\ broadcast_archives'[<<s, c>>] = "true" => created_at'[c] > counters'[s].archive_watermark
             /\ broadcast_archives'[<<s, c>>] = "false" => created_at'[c] <= counters'[s].archive_watermark
    BY DEF OverridesOnAnnounced, OverridesAreExceptions
<1>3. OverridesAreExceptions'
    BY <1>2 DEF OverridesAreExceptions
<1> QED
    BY <1>1, <1>3

LEMMA RowsCommit ==
    ASSUME RowsInv, NEW r \in Requests, NEW hidden, CommitImmediate(r, hidden)
    PROVE  RowsInv'
<1>0. TypeOK /\ TypeOK' /\ OpenUnstored
    BY TypeCommit DEF RowsInv
<1>1. WatermarksStand
    BY <1>0, CommitFields
<1>2. \A q \in creating' : Ids(q) \cap stored' = {}
    BY <1>0, RequestsAssumption DEF CommitImmediate, OpenUnstored, RequestsAssumption, TypeOK
<1>3. /\ stored \subseteq stored' /\ creating' \subseteq creating
      /\ UNCHANGED <<now, rowVars, subscriber_id, broadcastVars, overrideVars>>
    BY DEF CommitImmediate, fixedVars
<1>4. now <= now'
    BY <1>0, <1>3 DEF TypeOK, Times
<1> QED
    BY <1>0, <1>1, <1>2, <1>3, <1>4, RowsCommitted

LEMMA RowsManagement == RowsInv /\ Management => RowsInv'
<1> SUFFICES ASSUME RowsInv, Management PROVE RowsInv'
    OBVIOUS
<1>0. TypeOK /\ TypeOK' /\ OpenUnstored
    BY TypeManagement DEF RowsInv
<1>1. ASSUME NEW r \in Requests, BeginCreate(r) PROVE RowsInv'
    <2>1. \A n \in Notifs \ Ids(r) : visible_at'[n] = visible_at[n]
        BY <1>1 DEF BeginCreate
    <2> QED
        BY <1>0, <1>1, <2>1, RowsPositioned DEF BeginCreate, fixedVars
<1>2. ASSUME NEW r \in Requests, CommitImmediate(r, muted) PROVE RowsInv'
    BY <1>2, RowsCommit
<1>3. ASSUME NEW r \in Requests, CommitScheduled(r) PROVE RowsInv'
    <2>1. WatermarksStand
        BY <1>3 DEF CommitScheduled, WatermarksStand
    <2>2. \A q \in creating' : Ids(q) \cap stored' = {}
        BY <1>0, <1>3, RequestsAssumption
           DEF CommitScheduled, OpenUnstored, RequestsAssumption, TypeOK
    <2>3. /\ stored \subseteq stored' /\ creating' \subseteq creating /\ now <= now'
          /\ UNCHANGED <<rowVars, subscriber_id, broadcastVars, overrideVars>>
        BY <1>0, <1>3 DEF CommitScheduled, fixedVars, TypeOK, Times
    <2> QED
        BY <1>0, <2>1, <2>2, <2>3, RowsCommitted
<1>4. ASSUME NEW r \in Requests, RollbackCreate(r) PROVE RowsInv'
    <2>1. \A n \in Notifs \ Ids(r) : visible_at'[n] = visible_at[n]
        BY <1>4 DEF RollbackCreate
    <2>2. Ids(r) \cap stored = {}
        BY <1>0, <1>4 DEF RollbackCreate, OpenUnstored
    <2> QED
        BY <1>0, <1>4, <2>1, <2>2, RowsPositioned DEF RollbackCreate, fixedVars
<1>5. ASSUME NEW b \in Broadcasts, BeginBroadcast(b) PROVE RowsInv'
    <2>1. \A c \in Broadcasts \ {b} : created_at'[c] = created_at[c]
        BY <1>0, <1>5 DEF BeginBroadcast, TypeOK
    <2> QED
        BY <1>0, <1>5, <2>1, RowsBroadcast DEF BeginBroadcast, fixedVars
<1>6. ASSUME NEW b \in Broadcasts, CommitBroadcast(b) PROVE RowsInv'
    <2>1. WatermarksPast' /\ FlagsOnStored'
        BY <1>6 DEF CommitBroadcast, RowsInv, WatermarksPast, FlagsOnStored, createVars, rowVars
    <2>2. OverridesOnAnnounced' /\ OpenUnstored'
        BY <1>6 DEF CommitBroadcast, RowsInv, OverridesOnAnnounced, OpenUnstored, createVars,
           overrideVars
    <2>3. OverridesAreExceptions'
        BY <1>6 DEF CommitBroadcast, RowsInv, OverridesAreExceptions, rowVars, overrideVars,
           fixedVars
    <2> QED
        BY <1>0, <2>1, <2>2, <2>3 DEF RowsInv
<1>7. ASSUME NEW b \in Broadcasts, RollbackBroadcast(b) PROVE RowsInv'
    <2>1. \A c \in Broadcasts \ {b} : created_at'[c] = created_at[c]
        BY <1>0, <1>7 DEF RollbackBroadcast, TypeOK
    <2>2. b \notin announced
        BY <1>0, <1>7 DEF RollbackBroadcast, OpenUnstored
    <2> QED
        BY <1>0, <1>7, <2>1, <2>2, RowsBroadcast DEF RollbackBroadcast, fixedVars
<1> QED
    BY <1>1, <1>2, <1>3, <1>4, <1>5, <1>6, <1>7 DEF Management

LEMMA RowsWorker == RowsInv /\ Worker => RowsInv'
<1> SUFFICES ASSUME RowsInv, Worker PROVE RowsInv'
    OBVIOUS
<1>0. TypeOK /\ TypeOK' /\ OpenUnstored
    BY TypeWorker DEF RowsInv
<1>1. ASSUME NEW r \in Requests, ProcessDeliver(r) PROVE RowsInv'
    <2>1. WatermarksStand
        BY <1>0, <1>1, DeliverFields
    <2>2. /\ UNCHANGED <<now, createVars, rowVars, subscriber_id, broadcastVars, overrideVars>>
        BY <1>1 DEF ProcessDeliver, fixedVars
    <2> QED
        BY <1>0, <2>1, <2>2, RowsCommitted DEF createVars, OpenUnstored, TypeOK, Times
<1>2. ASSUME NEW targets \in hints, PublishHint(targets) PROVE RowsInv'
    <2>1. WatermarksStand
        BY <1>2 DEF PublishHint, WatermarksStand
    <2> QED
        BY <1>0, <1>2, <2>1, RowsCommitted
           DEF PublishHint, createVars, fixedVars, OpenUnstored, TypeOK, Times
<1> QED
    BY <1>1, <1>2 DEF Worker

\* An action on one item: the flags of that item move, the watermarks stand.
LEMMA RowsItem ==
    ASSUME RowsInv, NEW n \in Notifs,
           \/ MarkNotificationRead(n) \/ MarkNotificationUnread(n)
           \/ ArchiveNotification(n) \/ UnarchiveNotification(n)
    PROVE  RowsInv'
<1>0. TypeOK /\ TypeOK' /\ n \in stored /\ subscriber_id[n] \in Subs
    BY TypeItem DEF RowsInv, MarkNotificationRead, MarkNotificationUnread,
       ArchiveNotification, UnarchiveNotification, Visible, TypeOK
<1>1. WatermarksStand
    BY <1>0, PlusFields, MinusFields DEF MarkNotificationRead, MarkNotificationUnread,
       ArchiveNotification, UnarchiveNotification
<1>2. UNCHANGED <<now, createVars, visible_at, subscriber_id, broadcastVars, overrideVars>>
    BY DEF MarkNotificationRead, MarkNotificationUnread, ArchiveNotification,
       UnarchiveNotification, fixedVars
<1>3. WatermarksPast' /\ OverridesOnAnnounced' /\ OpenUnstored'
    BY <1>0, <1>1, <1>2 DEF RowsInv, WatermarksPast, WatermarksStand, OverridesOnAnnounced,
       OpenUnstored, createVars, broadcastVars, overrideVars
<1>4. \A s \in Subs, b \in Broadcasts :
        /\ broadcast_reads'[<<s, b>>] = "true" => created_at'[b] > counters'[s].read_watermark
        /\ broadcast_reads'[<<s, b>>] = "false" => created_at'[b] <= counters'[s].read_watermark
        /\ broadcast_archives'[<<s, b>>] = "true" => created_at'[b] > counters'[s].archive_watermark
        /\ broadcast_archives'[<<s, b>>] = "false" => created_at'[b] <= counters'[s].archive_watermark
    BY <1>1, <1>2 DEF RowsInv, OverridesAreExceptions, WatermarksStand, broadcastVars,
       overrideVars
<1>5. CASE MarkNotificationRead(n)
    <2>1. FlagsOnStored'
        BY <1>0, <1>2, <1>5 DEF MarkNotificationRead, RowsInv, FlagsOnStored, createVars
    <2>2. OverridesAreExceptions'
        BY <1>0, <1>1, <1>2, <1>4, <1>5
           DEF MarkNotificationRead, RowsInv, OverridesAreExceptions, WatermarksStand, TypeOK
    <2> QED
        BY <1>0, <1>3, <2>1, <2>2 DEF RowsInv
<1>6. CASE MarkNotificationUnread(n)
    <2>1. FlagsOnStored'
        BY <1>0, <1>2, <1>6
           DEF MarkNotificationUnread, OverrideBelow, RowsInv, FlagsOnStored, createVars
    <2>2. /\ read_at' \cap unread_at' = {}
          /\ archived_at' \cap unarchived_at' = {}
        BY <1>6 DEF MarkNotificationUnread, OverrideBelow, RowsInv, OverridesAreExceptions
    <2>3. \A m \in Notifs :
            /\ m \in unread_at' => visible_at[m] <= counters[subscriber_id[m]].read_watermark
            /\ m \in unarchived_at' => visible_at[m] <= counters[subscriber_id[m]].archive_watermark
        BY <1>0, <1>6 DEF MarkNotificationUnread, OverrideBelow, RowsInv, OverridesAreExceptions
    <2>4. OverridesAreExceptions'
        BY <1>0, <1>1, <1>2, <1>4, <2>2, <2>3 DEF OverridesAreExceptions, WatermarksStand, TypeOK
    <2> QED
        BY <1>0, <1>3, <2>1, <2>4 DEF RowsInv
<1>7. CASE ArchiveNotification(n)
    <2>1. FlagsOnStored'
        BY <1>0, <1>2, <1>7 DEF ArchiveNotification, RowsInv, FlagsOnStored, createVars
    <2>2. OverridesAreExceptions'
        BY <1>0, <1>1, <1>2, <1>4, <1>7
           DEF ArchiveNotification, RowsInv, OverridesAreExceptions, WatermarksStand, TypeOK
    <2> QED
        BY <1>0, <1>3, <2>1, <2>2 DEF RowsInv
<1>8. CASE UnarchiveNotification(n)
    <2>1. FlagsOnStored'
        BY <1>0, <1>2, <1>8
           DEF UnarchiveNotification, OverrideBelow, RowsInv, FlagsOnStored, createVars
    <2>2. /\ read_at' \cap unread_at' = {}
          /\ archived_at' \cap unarchived_at' = {}
        BY <1>8 DEF UnarchiveNotification, OverrideBelow, RowsInv, OverridesAreExceptions
    <2>3. \A m \in Notifs :
            /\ m \in unread_at' => visible_at[m] <= counters[subscriber_id[m]].read_watermark
            /\ m \in unarchived_at' => visible_at[m] <= counters[subscriber_id[m]].archive_watermark
        BY <1>0, <1>8 DEF UnarchiveNotification, OverrideBelow, RowsInv, OverridesAreExceptions
    <2>4. OverridesAreExceptions'
        BY <1>0, <1>1, <1>2, <1>4, <2>2, <2>3 DEF OverridesAreExceptions, WatermarksStand, TypeOK
    <2> QED
        BY <1>0, <1>3, <2>1, <2>4 DEF RowsInv
<1> QED
    BY <1>5, <1>6, <1>7, <1>8

\* Flip leaves "true" only above the watermark and "false" only at or below it.
LEMMA RowsBroadcastItem ==
    ASSUME RowsInv, NEW s \in Subs, NEW b \in Broadcasts, NEW on \in BOOLEAN,
           FlipBroadcastRead(s, b, on) \/ FlipBroadcastArchive(s, b, on)
    PROVE  RowsInv'
<1>0. TypeOK /\ TypeOK' /\ b \in announced
    BY TypeBroadcastItem DEF RowsInv, FlipBroadcastRead, FlipBroadcastArchive, BroadcastVisible
<1>1. UNCHANGED <<now, createVars, rowVars, counters, subscriber_id, broadcastVars>>
    BY DEF FlipBroadcastRead, FlipBroadcastArchive, fixedVars
<1>2. WatermarksPast' /\ FlagsOnStored' /\ OpenUnstored'
    BY <1>1 DEF RowsInv, WatermarksPast, FlagsOnStored, OpenUnstored, createVars, rowVars,
       broadcastVars
<1>3. \A p \in Subs \X Broadcasts : p # <<s, b>> =>
        broadcast_reads'[p] = broadcast_reads[p] /\ broadcast_archives'[p] = broadcast_archives[p]
    BY <1>0 DEF FlipBroadcastRead, FlipBroadcastArchive, TypeOK
<1>4. OverridesOnAnnounced'
    BY <1>0, <1>1, <1>3 DEF RowsInv, OverridesOnAnnounced, broadcastVars
<1>5. /\ broadcast_reads'[<<s, b>>] = "true" => created_at[b] > counters[s].read_watermark
      /\ broadcast_reads'[<<s, b>>] = "false" => created_at[b] <= counters[s].read_watermark
      /\ broadcast_archives'[<<s, b>>] = "true" => created_at[b] > counters[s].archive_watermark
      /\ broadcast_archives'[<<s, b>>] = "false" => created_at[b] <= counters[s].archive_watermark
    <2>1. /\ broadcast_reads[<<s, b>>] \in Override /\ broadcast_archives[<<s, b>>] \in Override
          /\ created_at[b] \in Int /\ counters[s].read_watermark \in Int
          /\ counters[s].archive_watermark \in Int
        BY <1>0 DEF TypeOK, Times, CountersRow
    <2>2. /\ broadcast_reads[<<s, b>>] = "true" => created_at[b] > counters[s].read_watermark
          /\ broadcast_reads[<<s, b>>] = "false" => ~(created_at[b] > counters[s].read_watermark)
          /\ broadcast_archives[<<s, b>>] = "true" => created_at[b] > counters[s].archive_watermark
          /\ broadcast_archives[<<s, b>>] = "false" => ~(created_at[b] > counters[s].archive_watermark)
        <3>1. /\ broadcast_reads[<<s, b>>] = "true" => created_at[b] > counters[s].read_watermark
              /\ broadcast_reads[<<s, b>>] = "false" => created_at[b] <= counters[s].read_watermark
              /\ broadcast_archives[<<s, b>>] = "true" => created_at[b] > counters[s].archive_watermark
              /\ broadcast_archives[<<s, b>>] = "false" => created_at[b] <= counters[s].archive_watermark
            BY DEF RowsInv, OverridesAreExceptions
        <3> QED
            BY <2>1, <3>1
    <2>3. CASE FlipBroadcastRead(s, b, on)
        <3>1. broadcast_reads'[<<s, b>>] =
                Flip(broadcast_reads[<<s, b>>], created_at[b] > counters[s].read_watermark, on)
            BY <1>0, <2>3 DEF FlipBroadcastRead, TypeOK
        <3>2. broadcast_archives' = broadcast_archives
            BY <2>3 DEF FlipBroadcastRead
        <3> QED
            BY <2>1, <2>2, <3>1, <3>2 DEF Flip, Override
    <2>4. CASE FlipBroadcastArchive(s, b, on)
        <3>1. broadcast_archives'[<<s, b>>] =
                Flip(broadcast_archives[<<s, b>>], created_at[b] > counters[s].archive_watermark, on)
            BY <1>0, <2>4 DEF FlipBroadcastArchive, TypeOK
        <3>2. broadcast_reads' = broadcast_reads
            BY <2>4 DEF FlipBroadcastArchive
        <3> QED
            BY <2>1, <2>2, <3>1, <3>2 DEF Flip, Override
    <2> QED
        BY <2>3, <2>4
<1>6. OverridesAreExceptions'
    BY <1>1, <1>3, <1>5 DEF RowsInv, OverridesAreExceptions, rowVars, broadcastVars
<1> QED
    BY <1>0, <1>2, <1>4, <1>6 DEF RowsInv

\* A watermark that moves to now takes with it every override it has passed.
LEMMA CollectFacts ==
    ASSUME NEW overrides \in [Subs \X Broadcasts -> Override], NEW s \in Subs,
           NEW t \in Subs, NEW b \in Broadcasts
    PROVE  Collect(overrides, s)[<<t, b>>] =
              IF t = s /\ created_at[b] <= now THEN "none" ELSE overrides[<<t, b>>]
BY DEF Collect

LEMMA RowsMarkAllRead ==
    ASSUME RowsInv, NEW s \in Subs, MarkAllRead(s), TypeOK'
    PROVE  RowsInv'
<1>0. TypeOK /\ TypeOK'
    BY DEF RowsInv
<1>1. UNCHANGED <<now, createVars, visible_at, read_at, archived_at, unarchived_at,
                  broadcastVars, broadcast_archives, subscriber_id>>
    BY DEF MarkAllRead, fixedVars
<1>2. \A t \in Subs :
        /\ counters'[t].read_watermark = IF t = s THEN now ELSE counters[t].read_watermark
        /\ counters'[t].seen_watermark = counters[t].seen_watermark
        /\ counters'[t].archive_watermark = counters[t].archive_watermark
    BY <1>0 DEF MarkAllRead, TypeOK, CountersRow
<1>3. unread_at' = {n \in unread_at : ~Below(s, n)}
    BY DEF MarkAllRead
<1>4. \A t \in Subs, b \in Broadcasts : broadcast_reads'[<<t, b>>] =
        IF t = s /\ created_at[b] <= now THEN "none" ELSE broadcast_reads[<<t, b>>]
    <2>1. broadcast_reads' = Collect(broadcast_reads, s) /\ broadcast_reads \in [Subs \X Broadcasts -> Override]
        BY <1>0 DEF MarkAllRead, TypeOK
    <2> QED
        BY <2>1, CollectFacts
<1>5. /\ now \in Int
      /\ \A n \in Notifs : visible_at[n] \in Int /\ subscriber_id[n] \in Subs
      /\ \A b \in Broadcasts : created_at[b] \in Int
      /\ \A t \in Subs : counters[t].read_watermark \in Int
    BY <1>0 DEF TypeOK, Times, CountersRow
<1>6. WatermarksPast'
    BY <1>1, <1>2, <1>5 DEF RowsInv, WatermarksPast
<1>7. FlagsOnStored' /\ OpenUnstored'
    BY <1>1, <1>3 DEF RowsInv, FlagsOnStored, OpenUnstored, createVars, broadcastVars
<1>8. OverridesOnAnnounced'
    BY <1>1, <1>4 DEF RowsInv, OverridesOnAnnounced, broadcastVars
<1>9. \A n \in unread_at' : visible_at'[n] <= counters'[subscriber_id'[n]].read_watermark
    <2>1. ASSUME NEW n \in unread_at'
          PROVE  visible_at[n] <= counters'[subscriber_id[n]].read_watermark
        <3>1. n \in unread_at /\ n \in Notifs /\ n \in stored /\ ~Below(s, n)
            BY <1>0, <1>3 DEF RowsInv, FlagsOnStored, TypeOK
        <3>2. visible_at[n] <= counters[subscriber_id[n]].read_watermark
            BY <3>1 DEF RowsInv, OverridesAreExceptions
        <3>3. counters[subscriber_id[n]].read_watermark <= now
            BY <1>5, <3>1 DEF RowsInv, WatermarksPast
        <3> QED
            BY <1>2, <1>5, <3>1, <3>2, <3>3
    <2> QED
        BY <1>1, <2>1
<1>10. ASSUME NEW t \in Subs, NEW b \in Broadcasts
       PROVE  /\ broadcast_reads'[<<t, b>>] = "true" => created_at[b] > counters'[t].read_watermark
              /\ broadcast_reads'[<<t, b>>] = "false" => created_at[b] <= counters'[t].read_watermark
    <2>1. /\ broadcast_reads[<<t, b>>] = "true" => created_at[b] > counters[t].read_watermark
          /\ broadcast_reads[<<t, b>>] = "false" => created_at[b] <= counters[t].read_watermark
        BY DEF RowsInv, OverridesAreExceptions
    <2>2. counters[t].read_watermark <= now
        BY DEF RowsInv, WatermarksPast
    <2>3. /\ broadcast_reads'[<<t, b>>] =
                IF t = s /\ created_at[b] <= now THEN "none" ELSE broadcast_reads[<<t, b>>]
          /\ counters'[t].read_watermark = IF t = s THEN now ELSE counters[t].read_watermark
        BY <1>2, <1>4
    <2>4. created_at[b] \in Int /\ now \in Int /\ counters[t].read_watermark \in Int
        BY <1>5
    <2> QED
        BY <2>1, <2>2, <2>3, <2>4
<1>11. OverridesAreExceptions'
    BY <1>1, <1>2, <1>3, <1>5, <1>9, <1>10
       DEF RowsInv, OverridesAreExceptions, TypeOK, broadcastVars
<1> QED
    BY <1>0, <1>6, <1>7, <1>8, <1>11 DEF RowsInv

LEMMA RowsArchiveAll ==
    ASSUME RowsInv, NEW s \in Subs, ArchiveAll(s), TypeOK'
    PROVE  RowsInv'
<1>0. TypeOK /\ TypeOK'
    BY DEF RowsInv
<1>1. UNCHANGED <<now, createVars, visible_at, read_at, unread_at, broadcastVars,
                  broadcast_reads, subscriber_id>>
    BY DEF ArchiveAll, fixedVars
<1>2. \A t \in Subs :
        /\ counters'[t].archive_watermark = IF t = s THEN now ELSE counters[t].archive_watermark
        /\ counters'[t].seen_watermark = counters[t].seen_watermark
        /\ counters'[t].read_watermark = counters[t].read_watermark
    BY <1>0 DEF ArchiveAll, AdvanceArchive, TypeOK, CountersRow
<1>3. /\ archived_at' = {n \in archived_at : ~Below(s, n)}
      /\ unarchived_at' = {n \in unarchived_at : ~Below(s, n)}
    BY DEF ArchiveAll
<1>4. \A t \in Subs, b \in Broadcasts : broadcast_archives'[<<t, b>>] =
        IF t = s /\ created_at[b] <= now THEN "none" ELSE broadcast_archives[<<t, b>>]
    <2>1. broadcast_archives' = Collect(broadcast_archives, s) /\ broadcast_archives \in [Subs \X Broadcasts -> Override]
        BY <1>0 DEF ArchiveAll, AdvanceArchive, TypeOK
    <2> QED
        BY <2>1, CollectFacts
<1>5. /\ now \in Int
      /\ \A n \in Notifs : visible_at[n] \in Int /\ subscriber_id[n] \in Subs
      /\ \A b \in Broadcasts : created_at[b] \in Int
      /\ \A t \in Subs : counters[t].archive_watermark \in Int
    BY <1>0 DEF TypeOK, Times, CountersRow
<1>6. WatermarksPast'
    BY <1>1, <1>2, <1>5 DEF RowsInv, WatermarksPast
<1>7. FlagsOnStored' /\ OpenUnstored'
    BY <1>1, <1>3 DEF RowsInv, FlagsOnStored, OpenUnstored, createVars, broadcastVars
<1>8. OverridesOnAnnounced'
    BY <1>1, <1>4 DEF RowsInv, OverridesOnAnnounced, broadcastVars
<1>9. \A n \in unarchived_at' : visible_at'[n] <= counters'[subscriber_id'[n]].archive_watermark
    <2>1. ASSUME NEW n \in unarchived_at'
          PROVE  visible_at[n] <= counters'[subscriber_id[n]].archive_watermark
        <3>1. n \in unarchived_at /\ n \in Notifs /\ n \in stored /\ ~Below(s, n)
            BY <1>0, <1>3 DEF RowsInv, FlagsOnStored, TypeOK
        <3>2. visible_at[n] <= counters[subscriber_id[n]].archive_watermark
            BY <3>1 DEF RowsInv, OverridesAreExceptions
        <3>3. counters[subscriber_id[n]].archive_watermark <= now
            BY <1>5, <3>1 DEF RowsInv, WatermarksPast
        <3> QED
            BY <1>2, <1>5, <3>1, <3>2, <3>3
    <2> QED
        BY <1>1, <2>1
<1>10. ASSUME NEW t \in Subs, NEW b \in Broadcasts
       PROVE  /\ broadcast_archives'[<<t, b>>] = "true" => created_at[b] > counters'[t].archive_watermark
              /\ broadcast_archives'[<<t, b>>] = "false" => created_at[b] <= counters'[t].archive_watermark
    <2>1. /\ broadcast_archives[<<t, b>>] = "true" => created_at[b] > counters[t].archive_watermark
          /\ broadcast_archives[<<t, b>>] = "false" => created_at[b] <= counters[t].archive_watermark
        BY DEF RowsInv, OverridesAreExceptions
    <2>2. counters[t].archive_watermark <= now
        BY DEF RowsInv, WatermarksPast
    <2>3. /\ broadcast_archives'[<<t, b>>] =
                IF t = s /\ created_at[b] <= now THEN "none" ELSE broadcast_archives[<<t, b>>]
          /\ counters'[t].archive_watermark = IF t = s THEN now ELSE counters[t].archive_watermark
        BY <1>2, <1>4
    <2>4. created_at[b] \in Int /\ now \in Int /\ counters[t].archive_watermark \in Int
        BY <1>5
    <2> QED
        BY <2>1, <2>2, <2>3, <2>4
<1>11. OverridesAreExceptions'
    BY <1>1, <1>2, <1>3, <1>5, <1>9, <1>10
       DEF RowsInv, OverridesAreExceptions, TypeOK, broadcastVars
<1> QED
    BY <1>0, <1>6, <1>7, <1>8, <1>11 DEF RowsInv

LEMMA RowsMarkAllSeen ==
    ASSUME RowsInv, NEW s \in Subs, MarkAllSeen(s), TypeOK'
    PROVE  RowsInv'
<1>1. UNCHANGED <<now, createVars, rowVars, broadcastVars, overrideVars, subscriber_id>>
    BY DEF MarkAllSeen, fixedVars
<1>2. \A t \in Subs :
        /\ counters'[t].seen_watermark = IF t = s THEN now ELSE counters[t].seen_watermark
        /\ counters'[t].read_watermark = counters[t].read_watermark
        /\ counters'[t].archive_watermark = counters[t].archive_watermark
    BY DEF MarkAllSeen, RowsInv, TypeOK, CountersRow
<1>3. WatermarksPast'
    <2>1. now <= now
        BY DEF RowsInv, TypeOK, Times
    <2> QED
        BY <1>1, <1>2, <2>1 DEF RowsInv, WatermarksPast
<1>4. FlagsOnStored' /\ OpenUnstored' /\ OverridesOnAnnounced'
    BY <1>1 DEF RowsInv, FlagsOnStored, OpenUnstored, OverridesOnAnnounced, createVars,
       rowVars, broadcastVars, overrideVars
<1>5. OverridesAreExceptions'
    BY <1>1, <1>2 DEF RowsInv, OverridesAreExceptions, TypeOK, rowVars, broadcastVars,
       overrideVars
<1> QED
    BY <1>3, <1>4, <1>5 DEF RowsInv

LEMMA RowsStep == RowsInv /\ [Next]_vars => RowsInv'
<1> SUFFICES ASSUME RowsInv, [Next]_vars PROVE RowsInv'
    OBVIOUS
<1>0. TypeOK /\ TypeOK'
    BY TypeStep DEF RowsInv
<1>1. CASE Subscriber
    <2> SUFFICES ASSUME NEW s \in Subs,
                        \/ MarkAllRead(s) \/ MarkAllSeen(s) \/ ArchiveAll(s)
                        \/ \E n \in Notifs :
                              \/ MarkNotificationRead(n) \/ MarkNotificationUnread(n)
                              \/ ArchiveNotification(n) \/ UnarchiveNotification(n)
                        \/ \E b \in Broadcasts, on \in BOOLEAN :
                              FlipBroadcastRead(s, b, on) \/ FlipBroadcastArchive(s, b, on)
                 PROVE  RowsInv'
        BY <1>1, BoundsAssumption DEF Subscriber, MarkBroadcastRead, MarkBroadcastUnread,
           ArchiveBroadcast, UnarchiveBroadcast, BoundsAssumption
    <2> QED
        BY <1>0, RowsItem, RowsBroadcastItem, RowsMarkAllRead, RowsMarkAllSeen, RowsArchiveAll
<1>2. CASE Tick
    <2>1. now <= now' /\ WatermarksStand
        BY <1>0, <1>2 DEF Tick, TypeOK, Times, WatermarksStand
    <2> QED
        BY <1>0, <1>2, <2>1, RowsCommitted
           DEF Tick, RowsInv, OpenUnstored, createVars, fixedVars
<1>3. CASE UNCHANGED vars
    <2>1. now <= now' /\ WatermarksStand
        BY <1>0, <1>3 DEF vars, TypeOK, Times, WatermarksStand
    <2> QED
        BY <1>0, <1>3, <2>1, RowsCommitted
           DEF vars, RowsInv, OpenUnstored, createVars, fixedVars
<1> QED
    BY <1>1, <1>2, <1>3, RowsManagement, RowsWorker DEF Next

\* In every reachable state no row carries a flag and its opposite, and an
\* override row exists only where it says something the watermark does not:
\* mark_all_read, archive_all and the four broadcast flips collect every row
\* they make redundant (inbox.rs).
THEOREM OverridesExceptional == Spec => []OverridesAreExceptions
<1>1. RowsInv => OverridesAreExceptions
    BY DEF RowsInv
<1> QED
    BY <1>1, RowsInit, RowsStep, PTL DEF Spec

----------------------------------------------------------------------------
(***************************************************************************)
(* The maintained counters are exact in every reachable state.  The        *)
(* argument: every notification is counted by exactly one of three         *)
(* book-keepers, the transaction that creates it, its deliver job, or      *)
(* nobody because it is hidden, read or archived; which of them it is can  *)
(* be read off the rows, the jobs table and the clock (DeliverInv).        *)
(***************************************************************************)


InUnread(n) ==
    /\ Visible(n) /\ ~EffectivelyRead(n) /\ ~EffectivelyArchived(n)
    /\ ~Muted(n, muted) /\ ~PendingDeliver(n)

InUnseen(n) ==
    /\ Visible(n) /\ visible_at[n] > counters[subscriber_id[n]].seen_watermark
    /\ ~Muted(n, muted) /\ ~PendingDeliver(n)

UnreadSet(s) == {n \in Notifs : subscriber_id[n] = s /\ InUnread(n)}
UnseenSet(s) == {n \in Notifs : subscriber_id[n] = s /\ InUnseen(n)}

ExactOf(s) ==
    /\ counters[s].unread = Cardinality(UnreadSet(s))
    /\ counters[s].unseen = Cardinality(UnseenSet(s))

Exact == \A s \in Subs : ExactOf(s)

\* A row that is not committed is its recipient's; a deliver job's rows are
\* committed; the rows of a request share one
\* position on the time line; an immediate request's position is not in the
\* future; and a committed row whose time has not come is a deliver job's.
DeliverInv ==
    /\ RowsInv
    /\ \A n \in Notifs \ stored : subscriber_id[n] = RecipientOf[n]
    /\ \A r \in jobs : Ids(r) \subseteq stored
    /\ \A r \in jobs \cup creating : \A n \in Ids(r) : visible_at[n] = RunAt(r)
    /\ \A r \in creating \ scheduled : RunAt(r) <= now
    /\ \A n \in stored : visible_at[n] > now => PendingDeliver(n)

LEMMA ExactIsCountersExact == Exact => CountersExact
<1> SUFFICES ASSUME Exact, NEW s \in Subs
             PROVE  /\ counters[s].unread =
                         Cardinality({n \in ListDirect(s, "unread") : ~PendingDeliver(n)})
                    /\ counters[s].unseen =
                         Cardinality({n \in Notifs :
                             /\ Visible(n) /\ subscriber_id[n] = s /\ ~PendingDeliver(n)
                             /\ visible_at[n] > counters[s].seen_watermark
                             /\ ~Muted(n, muted)})
    BY DEF CountersExact
<1>1. {n \in ListDirect(s, "unread") : ~PendingDeliver(n)} = UnreadSet(s)
    BY DEF ListDirect, UnreadSet, InUnread
<1>2. {n \in Notifs : /\ Visible(n) /\ subscriber_id[n] = s /\ ~PendingDeliver(n)
                      /\ visible_at[n] > counters[s].seen_watermark
                      /\ ~Muted(n, muted)} = UnseenSet(s)
    BY DEF UnseenSet, InUnseen
<1> QED
    BY <1>1, <1>2 DEF Exact, ExactOf

----------------------------------------------------------------------------
(* Which rows a deliver job still owns *)

\* PendingDeliver for any contents of the jobs table.
OwnedBy(queue, cursor, n) ==
    \E r \in queue : \E i \in DOMAIN NotificationIds[r] :
        i > cursor[r] /\ NotificationIds[r][i] = n

LEMMA PendingIsOwned ==
    ASSUME NEW n
    PROVE  /\ PendingDeliver(n) <=> OwnedBy(jobs, offset, n)
           /\ PendingDeliver(n)' <=> OwnedBy(jobs', offset', n)
BY DEF PendingDeliver, OwnedBy

\* An id has one place in one request.
LEMMA OnePlace ==
    ASSUME NEW r \in Requests, NEW q \in Requests,
           NEW i \in DOMAIN NotificationIds[r], NEW j \in DOMAIN NotificationIds[q],
           NotificationIds[r][i] = NotificationIds[q][j]
    PROVE  r = q /\ i = j
<1>1. NotificationIds[r][i] \in Ids(r) /\ NotificationIds[q][j] \in Ids(q)
    BY DEF Ids
<1>2. r = q
    BY <1>1, RequestsAssumption DEF RequestsAssumption
<1> QED
    BY <1>2, RequestsAssumption DEF RequestsAssumption

LEMMA OwnedAt ==
    ASSUME NEW queue \in SUBSET Requests, NEW cursor, NEW r \in Requests,
           NEW i \in DOMAIN NotificationIds[r]
    PROVE  OwnedBy(queue, cursor, NotificationIds[r][i]) <=> r \in queue /\ i > cursor[r]
BY OnePlace DEF OwnedBy

LEMMA OwnedElsewhere ==
    ASSUME NEW queue \in SUBSET Requests, NEW cursor, NEW later \in SUBSET Requests,
           NEW onward, NEW r \in Requests, NEW n, n \notin Ids(r),
           \A q \in Requests \ {r} : (q \in later <=> q \in queue) /\ onward[q] = cursor[q]
    PROVE  OwnedBy(later, onward, n) <=> OwnedBy(queue, cursor, n)
BY DEF OwnedBy, Ids

LEMMA PendingStored ==
    ASSUME DeliverInv, NEW n, PendingDeliver(n)
    PROVE  n \in stored
BY DEF DeliverInv, PendingDeliver, Ids

\* A claim of a deliver job takes its chunk, and only that, off the job.
LEMMA DeliverPending ==
    ASSUME TypeOK, TypeOK', NEW r \in Requests, ProcessDeliver(r), NEW n \in Notifs
    PROVE  /\ n \in Chunk(r) => PendingDeliver(n)
           /\ PendingDeliver(n)' <=> PendingDeliver(n) /\ n \notin Chunk(r)
<1>0. /\ jobs \in SUBSET Requests /\ jobs' \in SUBSET Requests /\ r \in jobs
      /\ offset \in [Requests -> Nat] /\ offset' \in [Requests -> Nat]
    BY DEF TypeOK, ProcessDeliver
<1>1. \A q \in Requests \ {r} : (q \in jobs' <=> q \in jobs) /\ offset'[q] = offset[q]
    BY <1>0 DEF ProcessDeliver
<1>2. CASE n \notin Ids(r)
    <2>1. OwnedBy(jobs', offset', n) <=> OwnedBy(jobs, offset, n)
        BY <1>0, <1>1, <1>2, OwnedElsewhere
    <2> QED
        BY <1>2, <2>1, PendingIsOwned, ChunkType
<1>3. CASE n \in Ids(r)
    <2>1. PICK i \in DOMAIN NotificationIds[r] : n = NotificationIds[r][i]
        BY <1>3 DEF Ids
    <2>2. i \in Nat /\ i <= Len(NotificationIds[r])
        BY RequestFacts
    <2>3. PendingDeliver(n) <=> i > offset[r]
        BY <1>0, <2>1, OwnedAt, PendingIsOwned
    <2>4. PendingDeliver(n)' <=> r \in jobs' /\ i > offset'[r]
        BY <1>0, <2>1, OwnedAt, PendingIsOwned
    <2>5. n \in Chunk(r) <=> offset[r] < i /\ i <= NextOffset(r)
        BY <2>1, OnePlace DEF Chunk
    <2>6. \/ r \in jobs' /\ offset'[r] = NextOffset(r)
          \/ r \notin jobs' /\ NextOffset(r) = Len(NotificationIds[r])
        BY <1>0 DEF ProcessDeliver
    <2>7. /\ NextOffset(r) \in Nat /\ offset[r] \in Nat
          /\ \/ NextOffset(r) >= offset[r] + 1
             \/ NextOffset(r) = Len(NotificationIds[r])
        BY <1>0, RequestFacts, BoundsAssumption DEF NextOffset, BoundsAssumption
    <2> QED
        BY <1>0, <2>2, <2>3, <2>4, <2>5, <2>6, <2>7, RequestFacts
<1> QED
    BY <1>2, <1>3

----------------------------------------------------------------------------
(* The book-keepers *)

LEMMA TimesAreIntegers ==
    ASSUME TypeOK
    PROVE  /\ now \in Int
           /\ \A n \in Notifs : visible_at[n] \in Int /\ subscriber_id[n] \in Subs
           /\ \A r \in Requests : RunAt(r) \in Int
           /\ \A s \in Subs : /\ counters[s].read_watermark \in Int
                              /\ counters[s].seen_watermark \in Int
                              /\ counters[s].archive_watermark \in Int
                              /\ counters[s].unread \in Nat
                              /\ counters[s].unseen \in Nat
BY RequestFacts DEF TypeOK, Times, CountersRow, RunAt

LEMMA FirstId ==
    ASSUME NEW r \in Requests
    PROVE  NotificationIds[r][1] \in Ids(r)
BY RequestFacts DEF Ids

LEMMA DeliverInit == Init => DeliverInv
<1> SUFFICES ASSUME Init PROVE DeliverInv
    OBVIOUS
<1> QED
    BY RowsInit DEF Init, DeliverInv

LEMMA DeliverStands ==
    ASSUME DeliverInv, RowsInv', now <= now',
           UNCHANGED <<createVars, visible_at, subscriber_id, jobVars>>
    PROVE  DeliverInv'
<1>1. TypeOK /\ TypeOK'
    BY DEF DeliverInv, RowsInv
<1>2. /\ now \in Int /\ now' \in Int
      /\ \A n \in Notifs : visible_at[n] \in Int
      /\ \A r \in Requests : RunAt(r) \in Int /\ RunAt(r)' = RunAt(r)
    BY <1>1, TimesAreIntegers DEF RunAt, TypeOK, Times
<1>3. \A n : PendingDeliver(n)' <=> PendingDeliver(n)
    BY DEF PendingDeliver, jobVars
<1>4. creating' = creating /\ scheduled' = scheduled /\ stored' = stored /\ jobs' = jobs
    BY DEF createVars, jobVars
<1>5. \A r \in creating' \ scheduled' : RunAt(r)' <= now'
    BY <1>1, <1>2, <1>4 DEF DeliverInv, TypeOK
<1>6. \A n \in stored' : visible_at'[n] > now' => PendingDeliver(n)'
    BY <1>1, <1>2, <1>3, <1>4 DEF DeliverInv, TypeOK
<1>7. \A r \in jobs' \cup creating' : \A n \in Ids(r) : visible_at'[n] = RunAt(r)'
    BY <1>1, <1>2, <1>4 DEF DeliverInv, TypeOK
<1> QED
    BY <1>4, <1>5, <1>6, <1>7 DEF DeliverInv

\* A request that is not committed may move its rows: no job is concerned.
LEMMA DeliverPositioned ==
    ASSUME DeliverInv, RowsInv', NEW r \in Requests, Ids(r) \cap stored = {},
           \A n \in Notifs \ Ids(r) : visible_at'[n] = visible_at[n],
           \A n \in Ids(r) : visible_at'[n] = visible_at'[NotificationIds[r][1]],
           creating' \subseteq creating \cup {r},
           creating' \ scheduled' \subseteq (creating \ scheduled) \cup {r},
           r \in creating' \ scheduled' => visible_at'[NotificationIds[r][1]] <= now,
           UNCHANGED <<now, stored, subscriber_id, jobVars>>
    PROVE  DeliverInv'
<1>1. TypeOK /\ TypeOK' /\ jobs' = jobs
    BY DEF DeliverInv, RowsInv, jobVars
<1>2. r \notin jobs
    BY FirstId DEF DeliverInv
<1>3. \A q \in Requests \ {r} : \A n \in Ids(q) :
        n \in Notifs \ Ids(r) /\ visible_at'[n] = visible_at[n]
    BY RequestFacts, RequestsAssumption DEF RequestsAssumption
<1>4. \A q \in Requests \ {r} : RunAt(q)' = RunAt(q)
    BY <1>3, FirstId DEF RunAt
<1>5. \A q \in jobs' \cup creating' : \A n \in Ids(q) : visible_at'[n] = RunAt(q)'
    <2>1. ASSUME NEW q \in jobs' \cup creating', NEW n \in Ids(q)
          PROVE  visible_at'[n] = RunAt(q)'
        <3>1. CASE q = r
            BY <3>1 DEF RunAt
        <3>2. CASE q # r
            <4>1. q \in Requests \ {r} /\ q \in jobs \cup creating
                BY <1>1, <3>2 DEF TypeOK
            <4> QED
                BY <1>3, <1>4, <4>1 DEF DeliverInv
        <3> QED
            BY <3>1, <3>2
    <2> QED
        BY <2>1
<1>6. \A q \in creating' \ scheduled' : RunAt(q)' <= now'
    <2>1. ASSUME NEW q \in creating' \ scheduled' PROVE RunAt(q)' <= now'
        <3>1. CASE q = r
            BY <3>1 DEF RunAt
        <3>2. CASE q # r
            <4>1. q \in Requests \ {r} /\ q \in creating \ scheduled
                BY <1>1, <3>2 DEF TypeOK
            <4> QED
                BY <1>4, <4>1 DEF DeliverInv
        <3> QED
            BY <3>1, <3>2
    <2> QED
        BY <2>1
<1>7. \A n : PendingDeliver(n)' <=> PendingDeliver(n)
    BY DEF PendingDeliver, jobVars
<1>8. \A n \in stored' : visible_at'[n] > now' => PendingDeliver(n)'
    BY <1>1, <1>7 DEF DeliverInv, TypeOK
<1> QED
    BY <1>1, <1>5, <1>6, <1>8 DEF DeliverInv

LEMMA DeliverCommitted ==
    ASSUME DeliverInv, RowsInv', NEW r \in Requests, NEW hidden, CommitImmediate(r, hidden)
    PROVE  DeliverInv'
<1>1. /\ TypeOK /\ r \in creating \ scheduled
      /\ creating' = creating \ {r} /\ stored' = stored \cup Ids(r)
      /\ UNCHANGED <<now, scheduled, visible_at, subscriber_id, jobs, offset>>
    BY DEF DeliverInv, RowsInv, CommitImmediate, rowVars, jobVars, fixedVars
<1>2. \A n : PendingDeliver(n)' <=> PendingDeliver(n)
    BY <1>1 DEF PendingDeliver
<1>3. \A q \in Requests : RunAt(q)' = RunAt(q)
    BY <1>1 DEF RunAt
<1>4. \A n \in Ids(r) : visible_at[n] = RunAt(r) /\ RunAt(r) <= now /\ visible_at[n] \in Int
                        /\ now \in Int
    BY <1>1, RequestFacts, TimesAreIntegers DEF DeliverInv
<1>5. \A n \in stored' : visible_at'[n] > now' => PendingDeliver(n)'
    BY <1>1, <1>2, <1>4 DEF DeliverInv
<1>6. \A q \in jobs' \cup creating' : \A n \in Ids(q) : visible_at'[n] = RunAt(q)'
    BY <1>1, <1>3 DEF DeliverInv, TypeOK
<1>7. \A q \in creating' \ scheduled' : RunAt(q)' <= now'
    BY <1>1, <1>3 DEF DeliverInv, TypeOK
<1> QED
    BY <1>1, <1>5, <1>6, <1>7 DEF DeliverInv

\* The rows of a scheduled request go over to its deliver job, all of them.
LEMMA ScheduledPending ==
    ASSUME TypeOK, NEW r \in Requests, CommitScheduled(r), NEW n \in Notifs
    PROVE  PendingDeliver(n)' <=> PendingDeliver(n) \/ n \in Ids(r)
<1>1. /\ jobs \in SUBSET Requests /\ offset \in [Requests -> Nat]
      /\ jobs' = jobs \cup {r} /\ offset' = [offset EXCEPT ![r] = 0]
    BY DEF TypeOK, CommitScheduled
<1>2. CASE n \notin Ids(r)
    <2>1. jobs' \in SUBSET Requests
        BY <1>1
    <2>2. \A q \in Requests \ {r} : (q \in jobs' <=> q \in jobs) /\ offset'[q] = offset[q]
        BY <1>1
    <2> QED
        BY <1>1, <1>2, <2>1, <2>2, OwnedElsewhere, PendingIsOwned
<1>3. CASE n \in Ids(r)
    <2>1. PICK i \in DOMAIN NotificationIds[r] : n = NotificationIds[r][i]
        BY <1>3 DEF Ids
    <2>2. i > offset'[r] /\ r \in jobs' /\ jobs' \in SUBSET Requests
        BY <1>1, RequestFacts
    <2> QED
        BY <1>3, <2>1, <2>2, OwnedAt, PendingIsOwned
<1> QED
    BY <1>2, <1>3

LEMMA DeliverScheduled ==
    ASSUME DeliverInv, RowsInv', NEW r \in Requests, CommitScheduled(r)
    PROVE  DeliverInv'
<1>1. /\ TypeOK /\ r \in creating
      /\ creating' = creating \ {r} /\ stored' = stored \cup Ids(r) /\ jobs' = jobs \cup {r}
      /\ UNCHANGED <<now, scheduled, visible_at, subscriber_id>>
    BY DEF DeliverInv, RowsInv, CommitScheduled, rowVars, fixedVars
<1>2. \A n \in Notifs : PendingDeliver(n)' <=> PendingDeliver(n) \/ n \in Ids(r)
    BY <1>1, ScheduledPending
<1>3. \A q \in Requests : RunAt(q)' = RunAt(q)
    BY <1>1 DEF RunAt
<1>4. \A n \in stored' : visible_at'[n] > now' => PendingDeliver(n)'
    BY <1>1, <1>2, RequestFacts DEF DeliverInv, TypeOK
<1>5. \A q \in jobs' \cup creating' : \A n \in Ids(q) : visible_at'[n] = RunAt(q)'
    BY <1>1, <1>3 DEF DeliverInv, TypeOK
<1>6. \A q \in creating' \ scheduled' : RunAt(q)' <= now'
    BY <1>1, <1>3 DEF DeliverInv, TypeOK
<1>7. \A q \in jobs' : Ids(q) \subseteq stored'
    BY <1>1 DEF DeliverInv
<1> QED
    BY <1>1, <1>4, <1>5, <1>6, <1>7 DEF DeliverInv

LEMMA DeliverProcessed ==
    ASSUME DeliverInv, RowsInv', NEW r \in Requests, ProcessDeliver(r)
    PROVE  DeliverInv'
<1>1. /\ TypeOK /\ TypeOK' /\ r \in jobs /\ RunAt(r) <= now /\ jobs' \subseteq jobs
      /\ UNCHANGED <<now, creating, scheduled, stored, visible_at, subscriber_id>>
    BY DEF DeliverInv, RowsInv, ProcessDeliver, createVars, rowVars, fixedVars
<1>2. \A q \in Requests : RunAt(q)' = RunAt(q)
    BY <1>1 DEF RunAt
<1>3. \A n \in Chunk(r) : ~(visible_at[n] > now)
    <2>1. \A n \in Chunk(r) : visible_at[n] = RunAt(r) /\ visible_at[n] \in Int /\ now \in Int
        BY <1>1, ChunkType, TimesAreIntegers DEF DeliverInv
    <2> QED
        BY <1>1, <2>1
<1>4. \A n \in stored' : visible_at'[n] > now' => PendingDeliver(n)'
    BY <1>1, <1>3, DeliverPending DEF DeliverInv, TypeOK
<1>5. \A q \in jobs' \cup creating' : \A n \in Ids(q) : visible_at'[n] = RunAt(q)'
    BY <1>1, <1>2 DEF DeliverInv, TypeOK
<1>6. \A q \in creating' \ scheduled' : RunAt(q)' <= now'
    BY <1>1, <1>2 DEF DeliverInv, TypeOK
<1> QED
    BY <1>1, <1>4, <1>5, <1>6 DEF DeliverInv

LEMMA DeliverStep == DeliverInv /\ [Next]_vars => DeliverInv'
<1> SUFFICES ASSUME DeliverInv, [Next]_vars PROVE DeliverInv'
    OBVIOUS
<1>0. RowsInv /\ RowsInv' /\ TypeOK /\ TypeOK' /\ now \in Int /\ now <= now
    BY RowsStep, TimesAreIntegers DEF DeliverInv, RowsInv
<1>1. CASE Tick
    <2>1. now <= now'
        BY <1>0, <1>1 DEF Tick
    <2> QED
        BY <1>0, <1>1, <2>1, DeliverStands DEF Tick, rowVars, fixedVars
<1>2. CASE Management
    <2>1. ASSUME NEW r \in Requests, BeginCreate(r) PROVE DeliverInv'
        <3>1. \A n \in Notifs \ Ids(r) : visible_at'[n] = visible_at[n]
            BY <2>1 DEF BeginCreate
        <3>2. /\ \A n \in Ids(r) : visible_at'[n] = visible_at'[NotificationIds[r][1]]
              /\ r \in creating' \ scheduled' => visible_at'[NotificationIds[r][1]] <= now
            BY <1>0, <2>1, FirstId, RequestFacts DEF BeginCreate
        <3>3. /\ Ids(r) \cap stored = {} /\ creating' \subseteq creating \cup {r}
              /\ creating' \ scheduled' \subseteq (creating \ scheduled) \cup {r}
              /\ UNCHANGED <<now, stored, subscriber_id, jobVars>>
            BY <2>1 DEF BeginCreate, fixedVars
        <3> QED
            BY <1>0, <3>1, <3>2, <3>3, DeliverPositioned
    <2>2. ASSUME NEW r \in Requests, RollbackCreate(r) PROVE DeliverInv'
        <3>1. \A n \in Notifs \ Ids(r) : visible_at'[n] = visible_at[n]
            BY <2>2 DEF RollbackCreate
        <3>2. \A n \in Ids(r) : visible_at'[n] = visible_at'[NotificationIds[r][1]]
            BY <2>2, FirstId, RequestFacts DEF RollbackCreate
        <3>3. /\ Ids(r) \cap stored = {} /\ creating' \subseteq creating \cup {r}
              /\ creating' \ scheduled' \subseteq (creating \ scheduled) \cup {r}
              /\ r \notin creating' \ scheduled'
              /\ UNCHANGED <<now, stored, subscriber_id, jobVars>>
            BY <1>0, <2>2 DEF RollbackCreate, fixedVars, RowsInv, OpenUnstored
        <3> QED
            BY <1>0, <3>1, <3>2, <3>3, DeliverPositioned
    <2>3. ASSUME NEW b \in Broadcasts,
                 BeginBroadcast(b) \/ CommitBroadcast(b) \/ RollbackBroadcast(b)
          PROVE  DeliverInv'
        BY <1>0, <2>3, DeliverStands DEF BeginBroadcast, CommitBroadcast, RollbackBroadcast,
           rowVars, fixedVars
    <2> QED
        BY <1>0, <1>2, <2>1, <2>2, <2>3, DeliverCommitted, DeliverScheduled DEF Management
<1>3. CASE Worker
    <2>1. ASSUME NEW targets \in hints, PublishHint(targets) PROVE DeliverInv'
        BY <1>0, <2>1, DeliverStands DEF PublishHint, rowVars, fixedVars
    <2> QED
        BY <1>0, <1>3, <2>1, DeliverProcessed DEF Worker
<1>4. CASE Subscriber
    <2>1. PICK s \in Acting :
              \/ MarkAllRead(s) \/ MarkAllSeen(s) \/ ArchiveAll(s)
              \/ \E n \in Notifs : \/ MarkNotificationRead(n) \/ MarkNotificationUnread(n)
                                   \/ ArchiveNotification(n) \/ UnarchiveNotification(n)
              \/ \E b \in Broadcasts : \/ MarkBroadcastRead(s, b) \/ MarkBroadcastUnread(s, b)
                                       \/ ArchiveBroadcast(s, b) \/ UnarchiveBroadcast(s, b)
        BY <1>4 DEF Subscriber
    <2>2. ASSUME MarkAllRead(s) \/ MarkAllSeen(s) \/ ArchiveAll(s)
          PROVE  UNCHANGED <<now, createVars, visible_at, subscriber_id, jobVars>>
        BY <2>2 DEF MarkAllRead, MarkAllSeen, ArchiveAll, rowVars, fixedVars
    <2>3. ASSUME NEW n \in Notifs,
                 \/ MarkNotificationRead(n) \/ MarkNotificationUnread(n)
                 \/ ArchiveNotification(n) \/ UnarchiveNotification(n)
          PROVE  UNCHANGED <<now, createVars, visible_at, subscriber_id, jobVars>>
        BY <2>3 DEF MarkNotificationRead, MarkNotificationUnread, ArchiveNotification,
           UnarchiveNotification, fixedVars
    <2>4. ASSUME NEW b \in Broadcasts,
                 \/ MarkBroadcastRead(s, b) \/ MarkBroadcastUnread(s, b)
                 \/ ArchiveBroadcast(s, b) \/ UnarchiveBroadcast(s, b)
          PROVE  UNCHANGED <<now, createVars, visible_at, subscriber_id, jobVars>>
        BY <2>4 DEF MarkBroadcastRead, MarkBroadcastUnread, ArchiveBroadcast,
           UnarchiveBroadcast, FlipBroadcastRead, FlipBroadcastArchive, rowVars, fixedVars
    <2>5. UNCHANGED <<now, createVars, visible_at, subscriber_id, jobVars>>
        BY <2>1, <2>2, <2>3, <2>4
    <2> QED
        BY <1>0, <2>5, DeliverStands
<1>5. CASE UNCHANGED vars
    BY <1>0, <1>5, DeliverStands DEF vars, rowVars, fixedVars
<1> QED
    BY <1>1, <1>2, <1>3, <1>4, <1>5 DEF Next

----------------------------------------------------------------------------
(* Counting *)

LEMMA SetsFinite ==
    ASSUME NEW s
    PROVE  /\ IsFiniteSet(UnreadSet(s)) /\ Cardinality(UnreadSet(s)) \in Nat
           /\ IsFiniteSet(UnseenSet(s)) /\ Cardinality(UnseenSet(s)) \in Nat
BY NotifSubsetFinite DEF UnreadSet, UnseenSet

LEMMA SetsStand ==
    ASSUME subscriber_id' = subscriber_id, NEW s
    PROVE  /\ (\A n \in Notifs : subscriber_id[n] = s => (InUnread(n)' <=> InUnread(n)))
                  => UnreadSet(s)' = UnreadSet(s)
           /\ (\A n \in Notifs : subscriber_id[n] = s => (InUnseen(n)' <=> InUnseen(n)))
                  => UnseenSet(s)' = UnseenSet(s)
BY DEF UnreadSet, UnseenSet

\* One notification joins the unread ones, or leaves them.
LEMMA UnreadJoins ==
    ASSUME subscriber_id' = subscriber_id, NEW n \in Notifs, NEW s, ~InUnread(n),
           \A m \in Notifs \ {n} : InUnread(m)' <=> InUnread(m)
    PROVE  Cardinality(UnreadSet(s)') =
              IF subscriber_id[n] = s /\ InUnread(n)' THEN Cardinality(UnreadSet(s)) + 1
                                                      ELSE Cardinality(UnreadSet(s))
<1>1. n \notin UnreadSet(s)
    BY DEF UnreadSet
<1>2. UnreadSet(s)' = IF subscriber_id[n] = s /\ InUnread(n)' THEN UnreadSet(s) \cup {n}
                                                             ELSE UnreadSet(s)
    BY DEF UnreadSet
<1> QED
    BY <1>1, <1>2, SetsFinite, FS_AddElement

LEMMA UnreadLeaves ==
    ASSUME subscriber_id' = subscriber_id, NEW n \in Notifs, NEW s, ~InUnread(n)',
           \A m \in Notifs \ {n} : InUnread(m)' <=> InUnread(m)
    PROVE  Cardinality(UnreadSet(s)') =
              IF subscriber_id[n] = s /\ InUnread(n) THEN Cardinality(UnreadSet(s)) - 1
                                                     ELSE Cardinality(UnreadSet(s))
<1>1. n \in UnreadSet(s) <=> subscriber_id[n] = s /\ InUnread(n)
    BY DEF UnreadSet
<1>2. UnreadSet(s)' = UnreadSet(s) \ {n}
    BY DEF UnreadSet
<1> QED
    BY <1>1, <1>2, SetsFinite, FS_RemoveElement

LEMMA UnreadPositive ==
    ASSUME NEW n \in Notifs, InUnread(n)
    PROVE  Cardinality(UnreadSet(subscriber_id[n])) > 0
<1>1. UnreadSet(subscriber_id[n]) # {}
    BY DEF UnreadSet
<1> QED
    BY <1>1, SetsFinite, FS_EmptySet

\* What the counters of a subscriber are about, the clock excepted, stands.
CountedStands(t) ==
    /\ stored' = stored
    /\ counters'[t].unread = counters[t].unread
    /\ counters'[t].unseen = counters[t].unseen
    /\ counters'[t].read_watermark = counters[t].read_watermark
    /\ counters'[t].seen_watermark = counters[t].seen_watermark
    /\ counters'[t].archive_watermark = counters[t].archive_watermark
    /\ \A n \in stored :
          /\ subscriber_id'[n] = t <=> subscriber_id[n] = t
          /\ subscriber_id[n] = t =>
                /\ visible_at'[n] = visible_at[n]
                /\ n \in read_at' <=> n \in read_at
                /\ n \in unread_at' <=> n \in unread_at
                /\ n \in archived_at' <=> n \in archived_at
                /\ n \in unarchived_at' <=> n \in unarchived_at
                /\ Muted(n, muted)' <=> Muted(n, muted)
                /\ PendingDeliver(n)' <=> PendingDeliver(n)

\* Then so do the counters: a row that only now becomes visible is a deliver
\* job's.
LEMMA ExactStands ==
    ASSUME DeliverInv, TypeOK', NEW t \in Subs, ExactOf(t), CountedStands(t), now <= now'
    PROVE  ExactOf(t)'
<1>1. TypeOK /\ now \in Int /\ now' \in Int
    BY DEF DeliverInv, RowsInv, TypeOK, Times
<1>2. ASSUME NEW n \in Notifs
      PROVE  /\ subscriber_id'[n] = t /\ InUnread(n)' <=> subscriber_id[n] = t /\ InUnread(n)
             /\ subscriber_id'[n] = t /\ InUnseen(n)' <=> subscriber_id[n] = t /\ InUnseen(n)
    <2>1. CASE n \notin stored
        BY <2>1 DEF InUnread, InUnseen, Visible, CountedStands
    <2>2. CASE n \in stored /\ subscriber_id[n] # t
        BY <2>2 DEF CountedStands
    <2>3. CASE n \in stored /\ subscriber_id[n] = t
        <3>1. /\ subscriber_id'[n] = t /\ visible_at'[n] = visible_at[n] /\ visible_at[n] \in Int
              /\ n \in stored'
              /\ PendingDeliver(n)' <=> PendingDeliver(n)
              /\ Muted(n, muted)' <=> Muted(n, muted)
            BY <1>1, <2>3, TimesAreIntegers DEF CountedStands
        <3>2. EffectivelyRead(n)' <=> EffectivelyRead(n)
            BY <2>3, <3>1 DEF EffectivelyRead, CountedStands
        <3>3. EffectivelyArchived(n)' <=> EffectivelyArchived(n)
            BY <2>3, <3>1 DEF EffectivelyArchived, CountedStands
        <3>4. ~PendingDeliver(n) => (Visible(n)' <=> Visible(n))
            BY <1>1, <2>3, <3>1 DEF Visible, DeliverInv
        <3>5. counters'[subscriber_id'[n]].seen_watermark = counters[subscriber_id[n]].seen_watermark
            BY <2>3, <3>1 DEF CountedStands
        <3> QED
            BY <2>3, <3>1, <3>2, <3>3, <3>4, <3>5 DEF InUnread, InUnseen
    <2> QED
        BY <2>1, <2>2, <2>3
<1>3. UnreadSet(t)' = UnreadSet(t) /\ UnseenSet(t)' = UnseenSet(t)
    BY <1>2 DEF UnreadSet, UnseenSet
<1> QED
    BY <1>3 DEF ExactOf, CountedStands

\* An action on one item leaves every other item, and the unseen count, alone.
LEMMA ItemFrame ==
    ASSUME DeliverInv, WatermarksStand, NEW n \in Notifs,
           \A m \in Notifs : m # n =>
              /\ m \in read_at' <=> m \in read_at
              /\ m \in unread_at' <=> m \in unread_at
              /\ m \in archived_at' <=> m \in archived_at
              /\ m \in unarchived_at' <=> m \in unarchived_at,
           UNCHANGED <<now, stored, visible_at, fixedVars, jobVars>>
    PROVE  /\ \A m \in Notifs \ {n} : InUnread(m)' <=> InUnread(m)
           /\ \A s \in Subs : UnseenSet(s)' = UnseenSet(s)
           /\ PendingDeliver(n)' <=> PendingDeliver(n)
           /\ Muted(n, muted)' <=> Muted(n, muted)
<1>1. TypeOK
    BY DEF DeliverInv, RowsInv
<1>2. \A m : PendingDeliver(m)' <=> PendingDeliver(m)
    BY DEF PendingDeliver, jobVars
<1>3. \A m : (Muted(m, muted)' <=> Muted(m, muted)) /\ (Visible(m)' <=> Visible(m))
    BY DEF Muted, Visible, fixedVars
<1>4. \A m \in Notifs : subscriber_id'[m] = subscriber_id[m] /\ subscriber_id[m] \in Subs
    BY <1>1 DEF TypeOK, fixedVars
<1>5. ASSUME NEW m \in Notifs \ {n}
      PROVE  /\ EffectivelyRead(m)' <=> EffectivelyRead(m)
             /\ EffectivelyArchived(m)' <=> EffectivelyArchived(m)
    <2>1. /\ visible_at'[m] = visible_at[m]
          /\ counters'[subscriber_id'[m]].read_watermark = counters[subscriber_id[m]].read_watermark
          /\ counters'[subscriber_id'[m]].archive_watermark = counters[subscriber_id[m]].archive_watermark
        BY <1>4 DEF WatermarksStand
    <2>2. /\ m \in read_at' <=> m \in read_at
          /\ m \in unread_at' <=> m \in unread_at
          /\ m \in archived_at' <=> m \in archived_at
          /\ m \in unarchived_at' <=> m \in unarchived_at
        OBVIOUS
    <2> QED
        BY <2>1, <2>2 DEF EffectivelyRead, EffectivelyArchived
<1>6. \A m \in Notifs : InUnseen(m)' <=> InUnseen(m)
    BY <1>2, <1>3, <1>4 DEF InUnseen, WatermarksStand
<1>7. \A s \in Subs : UnseenSet(s)' = UnseenSet(s)
    BY <1>6, SetsStand DEF fixedVars
<1>8. ASSUME NEW m \in Notifs \ {n} PROVE InUnread(m)' <=> InUnread(m)
    BY <1>2, <1>3, <1>5 DEF InUnread
<1> QED
    BY <1>2, <1>3, <1>7, <1>8

LEMMA ExactItem ==
    ASSUME DeliverInv, TypeOK', NEW t \in Subs, ExactOf(t), NEW n \in Notifs,
           \/ MarkNotificationRead(n) \/ MarkNotificationUnread(n)
           \/ ArchiveNotification(n) \/ UnarchiveNotification(n)
    PROVE  ExactOf(t)'
<1>0. /\ TypeOK /\ Visible(n) /\ subscriber_id[n] \in Subs /\ visible_at[n] \in Int
      /\ subscriber_id' = subscriber_id /\ visible_at' = visible_at
      /\ UNCHANGED <<now, stored, visible_at, fixedVars, jobVars>>
    BY TimesAreIntegers DEF DeliverInv, RowsInv, MarkNotificationRead, MarkNotificationUnread,
       ArchiveNotification, UnarchiveNotification, fixedVars, createVars
<1>1. WatermarksStand
    BY <1>0, PlusFields, MinusFields DEF MarkNotificationRead, MarkNotificationUnread,
       ArchiveNotification, UnarchiveNotification
<1>2. \A m \in Notifs : m # n =>
              /\ m \in read_at' <=> m \in read_at
              /\ m \in unread_at' <=> m \in unread_at
              /\ m \in archived_at' <=> m \in archived_at
              /\ m \in unarchived_at' <=> m \in unarchived_at
    <2>1. ASSUME NEW m \in Notifs \ {n}
          PROVE  /\ m \in read_at' <=> m \in read_at
                 /\ m \in unread_at' <=> m \in unread_at
                 /\ m \in archived_at' <=> m \in archived_at
                 /\ m \in unarchived_at' <=> m \in unarchived_at
        <3>1. CASE MarkNotificationRead(n)
            BY <3>1 DEF MarkNotificationRead
        <3>2. CASE MarkNotificationUnread(n)
            BY <3>2 DEF MarkNotificationUnread, OverrideBelow
        <3>3. CASE ArchiveNotification(n)
            BY <3>3 DEF ArchiveNotification
        <3>4. CASE UnarchiveNotification(n)
            BY <3>4 DEF UnarchiveNotification, OverrideBelow
        <3> QED
            BY <3>1, <3>2, <3>3, <3>4
    <2> QED
        BY <2>1
<1>3. /\ \A m \in Notifs \ {n} : InUnread(m)' <=> InUnread(m)
      /\ \A s \in Subs : UnseenSet(s)' = UnseenSet(s)
      /\ PendingDeliver(n)' <=> PendingDeliver(n)
      /\ Muted(n, muted)' <=> Muted(n, muted)
    BY <1>0, <1>1, <1>2, ItemFrame
<1>4. /\ counters'[subscriber_id'[n]].read_watermark = counters[subscriber_id[n]].read_watermark
      /\ counters'[subscriber_id'[n]].archive_watermark = counters[subscriber_id[n]].archive_watermark
      /\ counters[subscriber_id[n]].read_watermark \in Int
      /\ counters[subscriber_id[n]].archive_watermark \in Int
    BY <1>0, <1>1, TimesAreIntegers DEF WatermarksStand
<1>5. /\ counters[t].unread = Cardinality(UnreadSet(t))
      /\ counters[t].unseen = Cardinality(UnseenSet(t))
      /\ counters[t].unread \in Nat
    BY <1>0, TimesAreIntegers DEF ExactOf
<1>6. Visible(n)'
    BY <1>0 DEF Visible
<1>7. ASSUME NEW p, counters' = Minus(subscriber_id[n], p), p <=> InUnread(n), ~InUnread(n)'
      PROVE  ExactOf(t)'
    <2>1. Cardinality(UnreadSet(t)') =
             IF subscriber_id[n] = t /\ InUnread(n) THEN Cardinality(UnreadSet(t)) - 1
                                                    ELSE Cardinality(UnreadSet(t))
        BY <1>0, <1>3, <1>7, UnreadLeaves
    <2>2. /\ counters'[t].unseen = counters[t].unseen
          /\ counters'[t].unread = IF t = subscriber_id[n] /\ p /\ counters[t].unread > 0
                                   THEN counters[t].unread - 1 ELSE counters[t].unread
        BY <1>0, <1>7, MinusFields
    <2>3. subscriber_id[n] = t /\ InUnread(n) => counters[t].unread > 0
        BY <1>0, <1>5, UnreadPositive
    <2> QED
        BY <1>3, <1>5, <1>7, <2>1, <2>2, <2>3 DEF ExactOf
<1>8. ASSUME NEW p, counters' = Plus(subscriber_id[n], p), p <=> InUnread(n)', ~InUnread(n)
      PROVE  ExactOf(t)'
    <2>1. Cardinality(UnreadSet(t)') =
             IF subscriber_id[n] = t /\ InUnread(n)' THEN Cardinality(UnreadSet(t)) + 1
                                                     ELSE Cardinality(UnreadSet(t))
        BY <1>0, <1>3, <1>8, UnreadJoins
    <2>2. /\ counters'[t].unseen = counters[t].unseen
          /\ counters'[t].unread = IF t = subscriber_id[n] THEN counters[t].unread + One(p)
                                                           ELSE counters[t].unread
        BY <1>0, <1>8, PlusFields
    <2> QED
        BY <1>3, <1>5, <1>8, <2>1, <2>2 DEF ExactOf, One
<1>9. CASE MarkNotificationRead(n)
    <2>1. ReadDecrements(n) <=> InUnread(n)
        BY <1>0, <1>4, <1>9 DEF MarkNotificationRead, ReadDecrements, InUnread, EffectivelyRead
    <2>2. ~InUnread(n)'
        BY <1>9 DEF MarkNotificationRead, InUnread, EffectivelyRead
    <2> QED
        BY <1>7, <1>9, <2>1, <2>2 DEF MarkNotificationRead
<1>10. CASE MarkNotificationUnread(n)
    <2>1. ~InUnread(n)
        BY <1>10 DEF MarkNotificationUnread, InUnread
    <2>2. ~EffectivelyRead(n)'
        BY <1>0, <1>4, <1>10 DEF MarkNotificationUnread, OverrideBelow, EffectivelyRead
    <2>3. EffectivelyArchived(n)' <=> EffectivelyArchived(n)
        BY <1>0, <1>4, <1>10 DEF MarkNotificationUnread, EffectivelyArchived
    <2>4. UnreadIncrements(n) <=> InUnread(n)'
        BY <1>3, <1>6, <2>2, <2>3 DEF UnreadIncrements, InUnread
    <2> QED
        BY <1>8, <1>10, <2>1, <2>4 DEF MarkNotificationUnread
<1>11. CASE ArchiveNotification(n)
    <2>1. ArchiveMovesCount(n) <=> InUnread(n)
        BY <1>0, <1>4, <1>11 DEF ArchiveNotification, ArchiveMovesCount, InUnread, EffectivelyRead
    <2>2. ~InUnread(n)'
        BY <1>11 DEF ArchiveNotification, InUnread, EffectivelyArchived
    <2> QED
        BY <1>7, <1>11, <2>1, <2>2 DEF ArchiveNotification
<1>12. CASE UnarchiveNotification(n)
    <2>1. ~InUnread(n)
        BY <1>12 DEF UnarchiveNotification, InUnread
    <2>2. ~EffectivelyArchived(n)'
        BY <1>0, <1>4, <1>12 DEF UnarchiveNotification, OverrideBelow, EffectivelyArchived
    <2>3. EffectivelyRead(n)' <=> EffectivelyRead(n)
        BY <1>0, <1>4, <1>12 DEF UnarchiveNotification, EffectivelyRead
    <2>4. ArchiveMovesCount(n) <=> InUnread(n)'
        BY <1>0, <1>3, <1>4, <1>6, <2>2, <2>3 DEF ArchiveMovesCount, InUnread, EffectivelyRead
    <2> QED
        BY <1>8, <1>12, <2>1, <2>4 DEF UnarchiveNotification
<1> QED
    BY <1>9, <1>10, <1>11, <1>12

\* Marking everything read, archiving everything, or having seen everything
\* empties the set the count stands for, whatever is pending.
LEMMA ExactWholeInbox ==
    ASSUME DeliverInv, TypeOK', NEW t \in Subs, ExactOf(t), NEW s \in Subs,
           MarkAllRead(s) \/ MarkAllSeen(s) \/ ArchiveAll(s)
    PROVE  ExactOf(t)'
<1>0. /\ TypeOK /\ subscriber_id' = subscriber_id /\ muted' = muted
      /\ UNCHANGED <<now, stored, visible_at, read_at, jobVars>>
    BY DEF DeliverInv, RowsInv, MarkAllRead, MarkAllSeen, ArchiveAll, fixedVars, createVars,
       rowVars
<1>1. \A n : /\ PendingDeliver(n)' <=> PendingDeliver(n)
             /\ Muted(n, muted)' <=> Muted(n, muted)
             /\ Visible(n)' <=> Visible(n)
    BY <1>0 DEF PendingDeliver, Muted, Visible, jobVars
<1>2. /\ now \in Int
      /\ \A n \in Notifs : visible_at[n] \in Int /\ subscriber_id[n] \in Subs
    BY <1>0, TimesAreIntegers
<1>3. \A u \in Subs : u # s => counters'[u] = counters[u]
    BY <1>0 DEF MarkAllRead, MarkAllSeen, ArchiveAll, AdvanceArchive, TypeOK
<1>4. \A n \in Notifs : subscriber_id[n] # s =>
        /\ n \in unread_at' <=> n \in unread_at
        /\ n \in archived_at' <=> n \in archived_at
        /\ n \in unarchived_at' <=> n \in unarchived_at
    BY DEF MarkAllRead, MarkAllSeen, ArchiveAll, Below, rowVars
<1>5. \A n \in Notifs : subscriber_id[n] # s =>
        (InUnread(n)' <=> InUnread(n)) /\ (InUnseen(n)' <=> InUnseen(n))
    BY <1>0, <1>1, <1>2, <1>3, <1>4 DEF InUnread, InUnseen, EffectivelyRead, EffectivelyArchived
<1>6. t # s => UnreadSet(t)' = UnreadSet(t) /\ UnseenSet(t)' = UnseenSet(t)
    BY <1>0, <1>5, SetsStand
<1>7. CASE MarkAllRead(s)
    <2>1. counters'[s].unread = 0 /\ counters'[s].read_watermark = now
          /\ counters'[s].unseen = counters[s].unseen
          /\ counters'[s].seen_watermark = counters[s].seen_watermark
        BY <1>0, <1>7 DEF MarkAllRead, TypeOK, CountersRow
    <2>2. UnreadSet(s)' = {}
        BY <1>0, <1>7, <2>1 DEF MarkAllRead, UnreadSet, InUnread, Visible, EffectivelyRead, Below
    <2>3. UnseenSet(s)' = UnseenSet(s)
        BY <1>0, <1>1, <2>1, SetsStand DEF InUnseen
    <2> QED
        BY <1>3, <1>6, <2>1, <2>2, <2>3, FS_EmptySet DEF ExactOf
<1>8. CASE ArchiveAll(s)
    <2>1. counters'[s].unread = 0 /\ counters'[s].archive_watermark = now
          /\ counters'[s].unseen = counters[s].unseen
          /\ counters'[s].seen_watermark = counters[s].seen_watermark
        BY <1>0, <1>8 DEF ArchiveAll, AdvanceArchive, TypeOK, CountersRow
    <2>2. UnreadSet(s)' = {}
        BY <1>0, <1>8, <2>1 DEF ArchiveAll, UnreadSet, InUnread, Visible, EffectivelyArchived, Below
    <2>3. UnseenSet(s)' = UnseenSet(s)
        BY <1>0, <1>1, <2>1, SetsStand DEF InUnseen
    <2> QED
        BY <1>3, <1>6, <2>1, <2>2, <2>3, FS_EmptySet DEF ExactOf
<1>9. CASE MarkAllSeen(s)
    <2>1. /\ counters'[s].unseen = 0 /\ counters'[s].seen_watermark = now
          /\ counters'[s].unread = counters[s].unread
          /\ counters'[s].read_watermark = counters[s].read_watermark
          /\ counters'[s].archive_watermark = counters[s].archive_watermark
        BY <1>0, <1>9 DEF MarkAllSeen, TypeOK, CountersRow
    <2>2. UnseenSet(s)' = {}
        BY <1>0, <1>2, <2>1 DEF UnseenSet, InUnseen, Visible
    <2>3. UnreadSet(s)' = UnreadSet(s)
        <3>1. \A n \in Notifs : subscriber_id[n] = s => (InUnread(n)' <=> InUnread(n))
            BY <1>0, <1>1, <1>9, <2>1
               DEF MarkAllSeen, rowVars, InUnread, EffectivelyRead, EffectivelyArchived
        <3> QED
            BY <1>0, <3>1, SetsStand
    <2> QED
        BY <1>3, <1>6, <2>1, <2>2, <2>3, FS_EmptySet DEF ExactOf
<1> QED
    BY <1>7, <1>8, <1>9

\* Notifications that were not counted are counted now.
LEMMA DisjointCount ==
    ASSUME NEW S \in SUBSET Notifs, NEW D \in SUBSET Notifs, S \cap D = {}
    PROVE  Cardinality(S \cup D) = Cardinality(S) + Cardinality(D)
<1>1. Cardinality(S \cap D) = 0
    BY FS_EmptySet
<1>2. /\ IsFiniteSet(S) /\ Cardinality(S) \in Nat
      /\ IsFiniteSet(D) /\ Cardinality(D) \in Nat
    BY NotifSubsetFinite
<1>3. Cardinality(S \cup D) = Cardinality(S) + Cardinality(D) - Cardinality(S \cap D)
    BY <1>2, FS_Union
<1> QED
    BY <1>1, <1>2, <1>3

LEMMA AtMostOne ==
    ASSUME NEW D, \A n, m \in D : n = m
    PROVE  Cardinality(D) = IF D = {} THEN 0 ELSE 1
<1>1. CASE D = {}
    BY <1>1, FS_EmptySet
<1>2. CASE D # {}
    <2>1. PICK n \in D : TRUE
        BY <1>2
    <2>2. D = {n}
        BY <2>1
    <2> QED
        BY <1>2, <2>2, FS_Singleton
<1> QED
    BY <1>1, <1>2

LEMMA SetsGrow ==
    ASSUME subscriber_id' = subscriber_id, NEW s, NEW D \in SUBSET Notifs
    PROVE  /\ (/\ \A n \in D : subscriber_id[n] = s /\ ~InUnread(n)
               /\ \A n \in Notifs : subscriber_id[n] = s =>
                     (InUnread(n)' <=> InUnread(n) \/ n \in D))
              => Cardinality(UnreadSet(s)') = Cardinality(UnreadSet(s)) + Cardinality(D)
           /\ (/\ \A n \in D : subscriber_id[n] = s /\ ~InUnseen(n)
               /\ \A n \in Notifs : subscriber_id[n] = s =>
                     (InUnseen(n)' <=> InUnseen(n) \/ n \in D))
              => Cardinality(UnseenSet(s)') = Cardinality(UnseenSet(s)) + Cardinality(D)
<1>1. ASSUME \A n \in D : subscriber_id[n] = s /\ ~InUnread(n),
             \A n \in Notifs : subscriber_id[n] = s => (InUnread(n)' <=> InUnread(n) \/ n \in D)
      PROVE  Cardinality(UnreadSet(s)') = Cardinality(UnreadSet(s)) + Cardinality(D)
    <2>1. UnreadSet(s)' = UnreadSet(s) \cup D /\ UnreadSet(s) \cap D = {}
        BY <1>1 DEF UnreadSet
    <2>2. UnreadSet(s) \in SUBSET Notifs
        BY DEF UnreadSet
    <2> QED
        BY <2>1, <2>2, DisjointCount
<1>2. ASSUME \A n \in D : subscriber_id[n] = s /\ ~InUnseen(n),
             \A n \in Notifs : subscriber_id[n] = s => (InUnseen(n)' <=> InUnseen(n) \/ n \in D)
      PROVE  Cardinality(UnseenSet(s)') = Cardinality(UnseenSet(s)) + Cardinality(D)
    <2>1. UnseenSet(s)' = UnseenSet(s) \cup D /\ UnseenSet(s) \cap D = {}
        BY <1>2 DEF UnseenSet
    <2>2. UnseenSet(s) \in SUBSET Notifs
        BY DEF UnseenSet
    <2> QED
        BY <2>1, <2>2, DisjointCount
<1> QED
    BY <1>1, <1>2

LEMMA ExactInit == Init => Exact
<1> SUFFICES ASSUME Init PROVE Exact
    OBVIOUS
<1>1. \A s \in Subs : UnreadSet(s) = {} /\ UnseenSet(s) = {}
    BY DEF Init, UnreadSet, UnseenSet, InUnread, InUnseen, Visible
<1> QED
    BY <1>1, FS_EmptySet DEF Init, Exact, ExactOf

\* What has just been committed has no flags, is visible, and is no deliver
\* job's; and each recipient has one such row.
LEMMA ExactCommitted ==
    ASSUME DeliverInv, TypeOK', NEW t \in Subs, ExactOf(t), NEW r \in Requests,
           NEW hidden, CommitImmediate(r, hidden),
           \A n \in Ids(r) : subscriber_id[n] = t => (Muted(n, hidden) <=> Muted(n, muted))
    PROVE  ExactOf(t)'
<1> DEFINE NewUnread == {n \in Ids(r) : subscriber_id[n] = t /\ CreateUnread(n, hidden)}
           NewUnseen == {n \in Ids(r) : subscriber_id[n] = t /\ CreateUnseen(n, hidden)}
<1>1. /\ TypeOK /\ r \in creating \ scheduled /\ Ids(r) \subseteq Notifs
      /\ Ids(r) \cap stored = {} /\ stored' = stored \cup Ids(r)
      /\ UNCHANGED <<now, rowVars, jobVars, subscriber_id, muted>>
    BY RequestFacts DEF DeliverInv, RowsInv, OpenUnstored, CommitImmediate, fixedVars
<1>2. \A n : PendingDeliver(n)' <=> PendingDeliver(n)
    BY <1>1 DEF PendingDeliver, jobVars
<1>3. /\ counters'[t].unread = counters[t].unread + One(\E n \in Ids(r) :
                                    subscriber_id[n] = t /\ CreateUnread(n, hidden))
      /\ counters'[t].unseen = counters[t].unseen + One(\E n \in Ids(r) :
                                    subscriber_id[n] = t /\ CreateUnseen(n, hidden))
    <2>1. \A s \in Subs :
             /\ counters'[s].unread = counters[s].unread
                   + One(\E n \in Ids(r) : subscriber_id[n] = s /\ CreateUnread(n, hidden))
             /\ counters'[s].unseen = counters[s].unseen
                   + One(\E n \in Ids(r) : subscriber_id[n] = s /\ CreateUnseen(n, hidden))
        BY <1>1, CommitFields, Zenon
    <2> QED
        BY <2>1, Zenon
<1>4. WatermarksStand
    BY <1>1, CommitFields, Zenon
<1>5. \A n \in Ids(r) : \A m \in Ids(r) : subscriber_id[n] = subscriber_id[m] => n = m
    <2>1. \A n \in Ids(r) : subscriber_id[n] = RecipientOf[n]
        BY <1>1 DEF DeliverInv
    <2> QED
        BY <2>1, RequestsAssumption DEF RequestsAssumption, Ids
<1>6. /\ counters'[t].unread = counters[t].unread + Cardinality(NewUnread)
      /\ counters'[t].unseen = counters[t].unseen + Cardinality(NewUnseen)
    <2>1. /\ Cardinality(NewUnread) = IF NewUnread = {} THEN 0 ELSE 1
          /\ Cardinality(NewUnseen) = IF NewUnseen = {} THEN 0 ELSE 1
        BY <1>5, AtMostOne
    <2>2. /\ NewUnread = {} <=>
                ~\E n \in Ids(r) : subscriber_id[n] = t /\ CreateUnread(n, hidden)
          /\ NewUnseen = {} <=>
                ~\E n \in Ids(r) : subscriber_id[n] = t /\ CreateUnseen(n, hidden)
        OBVIOUS
    <2> HIDE DEF NewUnread, NewUnseen
    <2> QED
        BY <1>3, <2>1, <2>2 DEF One
<1>7. ASSUME NEW n \in Notifs, n \notin Ids(r)
      PROVE  (InUnread(n)' <=> InUnread(n)) /\ (InUnseen(n)' <=> InUnseen(n))
    <2>1. subscriber_id'[n] = subscriber_id[n] /\ subscriber_id[n] \in Subs
          /\ visible_at'[n] = visible_at[n]
        BY <1>1, TimesAreIntegers DEF rowVars
    <2>2. Visible(n)' <=> Visible(n)
        BY <1>1, <1>7, <2>1 DEF Visible
    <2>3. (EffectivelyRead(n)' <=> EffectivelyRead(n))
          /\ (EffectivelyArchived(n)' <=> EffectivelyArchived(n))
        BY <1>1, <1>4, <2>1 DEF EffectivelyRead, EffectivelyArchived, WatermarksStand, rowVars
    <2>4. Muted(n, muted)' <=> Muted(n, muted)
        BY <1>1, <2>1 DEF Muted
    <2> QED
        BY <1>2, <1>4, <2>1, <2>2, <2>3, <2>4 DEF InUnread, InUnseen, WatermarksStand
<1>8. ASSUME NEW n \in Ids(r), subscriber_id[n] = t
      PROVE  /\ ~InUnread(n) /\ ~InUnseen(n)
             /\ InUnread(n)' <=> CreateUnread(n, hidden)
             /\ InUnseen(n)' <=> CreateUnseen(n, hidden)
    <2>1. /\ subscriber_id'[n] = subscriber_id[n] /\ subscriber_id[n] \in Subs
          /\ visible_at'[n] = visible_at[n] /\ visible_at[n] \in Int
          /\ counters[subscriber_id[n]].read_watermark \in Int
          /\ counters[subscriber_id[n]].archive_watermark \in Int
        BY <1>1, TimesAreIntegers DEF rowVars
    <2>2. Visible(n)' /\ ~Visible(n)
        BY <1>1, <2>1 DEF Visible, DeliverInv
    <2>3. ~PendingDeliver(n)'
        BY <1>1, <1>2, PendingStored
    <2>4. n \notin read_at' /\ n \notin unread_at' /\ n \notin archived_at' /\ n \notin unarchived_at'
        BY <1>1 DEF DeliverInv, RowsInv, FlagsOnStored, rowVars
    <2>5. /\ EffectivelyRead(n)' <=> ~(visible_at[n] > counters[subscriber_id[n]].read_watermark)
          /\ EffectivelyArchived(n)' <=> ~(visible_at[n] > counters[subscriber_id[n]].archive_watermark)
        BY <1>4, <2>1, <2>4 DEF EffectivelyRead, EffectivelyArchived, WatermarksStand
    <2>6. Muted(n, muted)' <=> Muted(n, hidden)
        BY <1>1, <1>8, <2>1 DEF Muted
    <2> QED
        BY <1>4, <2>1, <2>2, <2>3, <2>5, <2>6
           DEF InUnread, InUnseen, CreateUnread, CreateUnseen, WatermarksStand
<1>9. /\ Cardinality(UnreadSet(t)') = Cardinality(UnreadSet(t)) + Cardinality(NewUnread)
      /\ Cardinality(UnseenSet(t)') = Cardinality(UnseenSet(t)) + Cardinality(NewUnseen)
    <2>1. NewUnread \in SUBSET Notifs /\ NewUnseen \in SUBSET Notifs
        BY <1>1
    <2>2. /\ \A n \in NewUnread : subscriber_id[n] = t /\ ~InUnread(n)
          /\ \A n \in NewUnseen : subscriber_id[n] = t /\ ~InUnseen(n)
        BY <1>8
    <2>3. \A n \in Notifs : subscriber_id[n] = t =>
            /\ InUnread(n)' <=> (InUnread(n) \/ n \in NewUnread)
            /\ InUnseen(n)' <=> (InUnseen(n) \/ n \in NewUnseen)
        BY <1>7, <1>8
    <2> HIDE DEF NewUnread, NewUnseen
    <2> QED
        BY <1>1, <2>1, <2>2, <2>3, SetsGrow
<1> HIDE DEF NewUnread, NewUnseen
<1> QED
    BY <1>6, <1>9 DEF ExactOf

\* The rows of a scheduled request are its deliver job's from the start.
LEMMA ExactScheduled ==
    ASSUME DeliverInv, TypeOK', NEW t \in Subs, ExactOf(t), NEW r \in Requests, CommitScheduled(r)
    PROVE  ExactOf(t)'
<1>1. /\ TypeOK /\ Ids(r) \cap stored = {} /\ stored' = stored \cup Ids(r)
      /\ UNCHANGED <<now, rowVars, counters, subscriber_id, muted>>
    BY DEF DeliverInv, RowsInv, OpenUnstored, CommitScheduled, fixedVars
<1>2. \A n \in Notifs : PendingDeliver(n)' <=> PendingDeliver(n) \/ n \in Ids(r)
    BY <1>1, ScheduledPending
<1>3. ASSUME NEW n \in Notifs
      PROVE  (InUnread(n)' <=> InUnread(n)) /\ (InUnseen(n)' <=> InUnseen(n))
    <2>1. /\ n \notin Ids(r) => (Visible(n)' <=> Visible(n))
          /\ n \in Ids(r) => ~Visible(n)
        BY <1>1 DEF Visible, rowVars
    <2>2. /\ EffectivelyRead(n)' <=> EffectivelyRead(n)
          /\ EffectivelyArchived(n)' <=> EffectivelyArchived(n)
          /\ Muted(n, muted)' <=> Muted(n, muted)
        BY <1>1 DEF EffectivelyRead, EffectivelyArchived, Muted, rowVars
    <2> QED
        BY <1>1, <1>2, <2>1, <2>2 DEF InUnread, InUnseen, rowVars
<1>4. \A s \in Subs : UnreadSet(s)' = UnreadSet(s) /\ UnseenSet(s)' = UnseenSet(s)
    BY <1>1, <1>3, SetsStand
<1> QED
    BY <1>1, <1>4 DEF ExactOf

\* The chunk goes over from the job to the counters.
LEMMA ExactProcessed ==
    ASSUME DeliverInv, TypeOK', NEW t \in Subs, ExactOf(t), NEW r \in Requests, ProcessDeliver(r)
    PROVE  ExactOf(t)'
<1> DEFINE NewUnread(s) == {n \in Chunk(r) : subscriber_id[n] = s /\ DeliverUnread(n)}
           NewUnseen(s) == {n \in Chunk(r) : subscriber_id[n] = s /\ DeliverUnseen(n)}
<1>1. /\ TypeOK /\ Chunk(r) \subseteq Notifs /\ r \in jobs /\ RunAt(r) <= now
      /\ UNCHANGED <<now, stored, rowVars, subscriber_id, muted>>
    BY ChunkType DEF DeliverInv, RowsInv, ProcessDeliver, createVars, fixedVars
<1>2. \A s \in Subs :
        /\ counters'[s].unread = counters[s].unread + Cardinality(NewUnread(s))
        /\ counters'[s].unseen = counters[s].unseen + Cardinality(NewUnseen(s))
    BY <1>1, DeliverFields
<1>3. WatermarksStand
    BY <1>1, DeliverFields
<1>4. \A n \in Notifs : /\ n \in Chunk(r) => PendingDeliver(n)
                        /\ PendingDeliver(n)' <=> (PendingDeliver(n) /\ n \notin Chunk(r))
    BY <1>1, DeliverPending
<1>5. ASSUME NEW n \in Notifs
      PROVE  /\ n \in Chunk(r) => ~InUnread(n) /\ ~InUnseen(n)
             /\ InUnread(n)' <=> (InUnread(n) \/ (n \in Chunk(r) /\ DeliverUnread(n)))
             /\ InUnseen(n)' <=> (InUnseen(n) \/ (n \in Chunk(r) /\ DeliverUnseen(n)))
    <2>1. /\ subscriber_id'[n] = subscriber_id[n] /\ subscriber_id[n] \in Subs
          /\ visible_at'[n] = visible_at[n] /\ visible_at[n] \in Int
          /\ counters[subscriber_id[n]].read_watermark \in Int
          /\ counters[subscriber_id[n]].archive_watermark \in Int
        BY <1>1, TimesAreIntegers DEF rowVars
    <2>2. Visible(n)' <=> Visible(n)
        BY <1>1 DEF Visible, rowVars
    <2>3. /\ EffectivelyRead(n)' <=> EffectivelyRead(n)
          /\ EffectivelyArchived(n)' <=> EffectivelyArchived(n)
        BY <1>1, <1>3, <2>1 DEF EffectivelyRead, EffectivelyArchived, WatermarksStand, rowVars
    <2>4. Muted(n, muted)' <=> Muted(n, muted)
        BY <1>1 DEF Muted
    <2>5. n \in Chunk(r) => Visible(n)
        BY <1>1, <1>4, PendingStored, ChunkType DEF DeliverInv, Visible
    <2>6. DeliverUnread(n) <=> ~EffectivelyRead(n) /\ ~EffectivelyArchived(n) /\ ~Muted(n, muted)
        BY <2>1 DEF DeliverUnread, EffectivelyRead, EffectivelyArchived
    <2> QED
        BY <1>3, <1>4, <2>1, <2>2, <2>3, <2>4, <2>5, <2>6
           DEF InUnread, InUnseen, DeliverUnseen, WatermarksStand
<1>6. ASSUME NEW s \in Subs
      PROVE  /\ Cardinality(UnreadSet(s)') = Cardinality(UnreadSet(s)) + Cardinality(NewUnread(s))
             /\ Cardinality(UnseenSet(s)') = Cardinality(UnseenSet(s)) + Cardinality(NewUnseen(s))
    <2>1. NewUnread(s) \in SUBSET Notifs /\ NewUnseen(s) \in SUBSET Notifs
        BY <1>1
    <2>2. /\ \A n \in NewUnread(s) : subscriber_id[n] = s /\ ~InUnread(n)
          /\ \A n \in NewUnseen(s) : subscriber_id[n] = s /\ ~InUnseen(n)
        BY <1>1, <1>5
    <2>3. \A n \in Notifs : subscriber_id[n] = s =>
            /\ InUnread(n)' <=> (InUnread(n) \/ n \in NewUnread(s))
            /\ InUnseen(n)' <=> (InUnseen(n) \/ n \in NewUnseen(s))
        BY <1>5
    <2> HIDE DEF NewUnread, NewUnseen
    <2> QED
        BY <1>1, <2>1, <2>2, <2>3, SetsGrow
<1> HIDE DEF NewUnread, NewUnseen
<1> QED
    BY <1>2, <1>6 DEF ExactOf

LEMMA ExactOfStep ==
    ASSUME DeliverInv, NEW t \in Subs, ExactOf(t), [Next]_vars
    PROVE  ExactOf(t)'
<1>0. TypeOK /\ TypeOK' /\ now \in Int /\ now <= now
    BY RowsStep, TimesAreIntegers DEF DeliverInv, RowsInv
<1>1. ASSUME UNCHANGED <<stored, read_at, unread_at, archived_at, unarchived_at,
                         counters, fixedVars, jobVars>>,
             now <= now', \A n \in stored : visible_at'[n] = visible_at[n]
      PROVE  ExactOf(t)'
    <2>1. CountedStands(t)
        BY <1>1 DEF CountedStands, PendingDeliver, Muted, fixedVars, jobVars
    <2> QED
        BY <1>0, <1>1, <2>1, ExactStands
<1>2. CASE Tick
    <2>1. now <= now'
        BY <1>0, <1>2 DEF Tick
    <2> QED
        BY <1>1, <1>2, <2>1 DEF Tick, createVars, rowVars
<1>3. CASE Management
    <2>1. ASSUME NEW r \in Requests, BeginCreate(r) \/ RollbackCreate(r) PROVE ExactOf(t)'
        <3>1. Ids(r) \cap stored = {}
            BY <2>1 DEF BeginCreate, RollbackCreate, DeliverInv, RowsInv, OpenUnstored
        <3>2. \A n \in stored : visible_at'[n] = visible_at[n]
            BY <1>0, <2>1, <3>1 DEF BeginCreate, RollbackCreate, TypeOK
        <3> QED
            BY <1>0, <1>1, <2>1, <3>2 DEF BeginCreate, RollbackCreate
    <2>2. ASSUME NEW b \in Broadcasts,
                 BeginBroadcast(b) \/ CommitBroadcast(b) \/ RollbackBroadcast(b)
          PROVE  ExactOf(t)'
        BY <1>0, <1>1, <2>2 DEF BeginBroadcast, CommitBroadcast, RollbackBroadcast,
           createVars, rowVars
    <2>3. ASSUME NEW r \in Requests, CommitImmediate(r, muted) PROVE ExactOf(t)'
        BY <1>0, <2>3, ExactCommitted
    <2> QED
        BY <1>0, <1>3, <2>1, <2>2, <2>3, ExactScheduled DEF Management
<1>4. CASE Worker
    <2>1. ASSUME NEW targets \in hints, PublishHint(targets) PROVE ExactOf(t)'
        BY <1>0, <1>1, <2>1 DEF PublishHint, createVars, rowVars
    <2> QED
        BY <1>0, <1>4, <2>1, ExactProcessed DEF Worker
<1>5. CASE Subscriber
    <2> SUFFICES ASSUME NEW s \in Subs,
                        \/ MarkAllRead(s) \/ MarkAllSeen(s) \/ ArchiveAll(s)
                        \/ \E n \in Notifs :
                              \/ MarkNotificationRead(n) \/ MarkNotificationUnread(n)
                              \/ ArchiveNotification(n) \/ UnarchiveNotification(n)
                        \/ \E b \in Broadcasts, on \in BOOLEAN :
                              FlipBroadcastRead(s, b, on) \/ FlipBroadcastArchive(s, b, on)
                 PROVE  ExactOf(t)'
        BY <1>5, BoundsAssumption DEF Subscriber, MarkBroadcastRead, MarkBroadcastUnread,
           ArchiveBroadcast, UnarchiveBroadcast, BoundsAssumption
    <2>1. ASSUME NEW b \in Broadcasts, NEW on \in BOOLEAN,
                 FlipBroadcastRead(s, b, on) \/ FlipBroadcastArchive(s, b, on)
          PROVE  ExactOf(t)'
        BY <1>0, <1>1, <2>1 DEF FlipBroadcastRead, FlipBroadcastArchive, createVars, rowVars
    <2> QED
        BY <1>0, <2>1, ExactItem, ExactWholeInbox
<1>6. CASE UNCHANGED vars
    BY <1>0, <1>1, <1>6 DEF vars, createVars, rowVars
<1> QED
    BY <1>2, <1>3, <1>4, <1>5, <1>6 DEF Next

LEMMA ExactStep == DeliverInv /\ Exact /\ [Next]_vars => Exact'
BY ExactOfStep DEF Exact

\* The maintained counters never drift, whatever is created at once, delivered
\* in chunks, flipped and archived in between: no recount is ever needed to
\* make unread and unseen right (process_deliver, pending_deliver and the
\* counter UPDATEs of inbox.rs and create_notifications_txn).
THEOREM CountersNeverDrift == Spec => []CountersExact
<1>1. DeliverInv /\ Exact => CountersExact
    BY ExactIsCountersExact
<1>2. Init => DeliverInv /\ Exact
    BY DeliverInit, ExactInit
<1>3. DeliverInv /\ Exact /\ [Next]_vars => DeliverInv' /\ Exact'
    BY DeliverStep, ExactStep
<1> QED
    BY <1>1, <1>2, <1>3, PTL DEF Spec

----------------------------------------------------------------------------
(***************************************************************************)
(* The handlers and the worker implement AbstractInbox: every step is an   *)
(* arrival, or the promised change of one flag; and the badge, maintained  *)
(* for one source and computed for the other, is the length of the list.   *)
(* Last, what a subscriber is shown changes only in steps that leave a     *)
(* hint for them, or a due job that will queue one.                        *)
(***************************************************************************)


\* A broadcast is stamped at BEGIN.
CreatedPast == \A b \in Broadcasts : created_at[b] <= now

PromiseInv == RowsInv /\ CreatedPast

LEMMA CreatedStep == TypeOK /\ CreatedPast /\ [Next]_vars => CreatedPast'
<1> SUFFICES ASSUME TypeOK, CreatedPast, [Next]_vars
             PROVE  CreatedPast'
    OBVIOUS
<1>1. /\ now \in Nat
      /\ \A b \in Broadcasts : created_at[b] \in Nat /\ created_at[b] <= now
    BY BoundsAssumption DEF TypeOK, Times, CreatedPast
<1>2. CASE Tick
    BY <1>1, <1>2 DEF Tick, broadcastVars, CreatedPast
<1>3. ASSUME NEW b \in Broadcasts, BeginBroadcast(b) \/ RollbackBroadcast(b)
      PROVE  CreatedPast'
    BY <1>1, <1>3 DEF BeginBroadcast, RollbackBroadcast, CreatedPast, TypeOK
<1>4. CASE UNCHANGED <<now, created_at>>
    BY <1>1, <1>4 DEF CreatedPast
<1>5. CASE Management
    BY <1>3, <1>4, <1>5
       DEF Management, BeginCreate, CommitImmediate, CommitScheduled, RollbackCreate,
           CommitBroadcast, broadcastVars
<1>6. CASE Worker
    BY <1>4, <1>6, WorkerLeaves DEF broadcastVars
<1>7. CASE Subscriber
    BY <1>4, <1>7, SubscriberLeaves DEF broadcastVars
<1>8. CASE UNCHANGED vars
    BY <1>4, <1>8 DEF vars, broadcastVars
<1> QED
    BY <1>2, <1>5, <1>6, <1>7, <1>8 DEF Next

LEMMA PromiseInvInit == Init => PromiseInv
<1>1. Init => CreatedPast
    BY DEF Init, CreatedPast
<1> QED
    BY <1>1, RowsInit DEF PromiseInv

LEMMA PromiseInvStep == PromiseInv /\ [Next]_vars => PromiseInv'
BY CreatedStep, RowsStep DEF PromiseInv, RowsInv

\* The values that are compared are integers, whatever s and n.
LEMMA Instants ==
    ASSUME TypeOK
    PROVE  /\ now \in Int
           /\ \A n \in Notifs : visible_at[n] \in Int /\ subscriber_id[n] \in Subs
           /\ \A b \in Broadcasts : created_at[b] \in Int
           /\ \A s \in Subs : /\ counters[s].read_watermark \in Int
                              /\ counters[s].seen_watermark \in Int
                              /\ counters[s].archive_watermark \in Int
BY BoundsAssumption DEF TypeOK, Times, CountersRow

----------------------------------------------------------------------------
(* Steps of the management plane, the worker and the clock: items arrive *)

\* What such a step leaves alone.
OnlyGrows ==
    /\ WatermarksStand
    /\ UNCHANGED <<read_at, unread_at, archived_at, unarchived_at, broadcast_reads,
                   broadcast_archives, subscriber_id>>
    /\ \A n \in Notifs : Visible(n) => Visible(n)' /\ visible_at'[n] = visible_at[n]
    /\ \A b \in announced : b \in announced' /\ created_at'[b] = created_at[b]

LEMMA GrowthArrives ==
    ASSUME PromiseInv, PromiseInv', OnlyGrows
    PROVE  Promise!Arrive
<1>1. ASSUME NEW s \in Subs
      PROVE  /\ Has(s) \subseteq Has(s)' /\ Hears(s) \subseteq Hears(s)'
             /\ UnreadRows(s)' \cap Has(s) = UnreadRows(s)
             /\ ArchivedRows(s)' \cap Has(s) = ArchivedRows(s)
             /\ UnseenRows(s)' \cap Has(s) = UnseenRows(s)
             /\ UnreadNews(s)' \cap Hears(s) = UnreadNews(s)
             /\ ArchivedNews(s)' \cap Hears(s) = ArchivedNews(s)
             /\ UnseenNews(s)' \cap Hears(s) = UnseenNews(s)
    <2>1. \A n \in Has(s) : /\ n \in Has(s)'
                            /\ EffectivelyRead(n)' <=> EffectivelyRead(n)
                            /\ EffectivelyArchived(n)' <=> EffectivelyArchived(n)
                            /\ (visible_at[n] > counters[s].seen_watermark)'
                                 <=> visible_at[n] > counters[s].seen_watermark
        BY DEF OnlyGrows, WatermarksStand, Has, EffectivelyRead, EffectivelyArchived
    <2>2. \A b \in Hears(s) : /\ b \in Hears(s)'
                              /\ BroadcastRead(s, b)' <=> BroadcastRead(s, b)
                              /\ BroadcastArchived(s, b)' <=> BroadcastArchived(s, b)
                              /\ (created_at[b] > counters[s].seen_watermark)'
                                   <=> created_at[b] > counters[s].seen_watermark
        BY DEF OnlyGrows, WatermarksStand, Hears, BroadcastVisible, BroadcastRead,
               BroadcastArchived
    <2> QED
        BY <2>1, <2>2 DEF UnreadRows, UnreadNews, ArchivedRows, ArchivedNews, UnseenRows,
                          UnseenNews
<1>2. ASSUME NEW s \in Subs
      PROVE  /\ Has(s) \subseteq Notifs /\ Hears(s) \subseteq Broadcasts
             /\ Has(s)' \subseteq Notifs /\ Hears(s)' \subseteq Broadcasts
    BY DEF Has, Hears
<1>3. ASSUME NEW s \in Subs
      PROVE  /\ UnreadRows(s)' \cup ArchivedRows(s)' \cup UnseenRows(s)' \subseteq Has(s)'
             /\ UnreadNews(s)' \cup ArchivedNews(s)' \cup UnseenNews(s)' \subseteq Hears(s)'
    BY DEF UnreadRows, UnreadNews, ArchivedRows, ArchivedNews, UnseenRows, UnseenNews
<1>4. ASSUME NEW s \in Subs
      PROVE  /\ InboxOf(s)' \subseteq Items
             /\ InboxOf(s) \subseteq InboxOf(s)'
             /\ Unread(s)' \cup Archived(s)' \cup Unseen(s)' \subseteq InboxOf(s)'
             /\ Unread(s)' \cap InboxOf(s) = Unread(s)
             /\ Archived(s)' \cap InboxOf(s) = Archived(s)
             /\ Unseen(s)' \cap InboxOf(s) = Unseen(s)
    BY <1>1, <1>2, <1>3, SourcesAssumption DEF InboxOf, Unread, Archived, Unseen, Items
<1> QED
    BY <1>4 DEF Promise!Arrive, Promise!Keeps

LEMMA ManagementGrows ==
    ASSUME PromiseInv, Management
    PROVE  OnlyGrows
<1>0. TypeOK
    BY DEF PromiseInv, RowsInv
<1>1. ASSUME NEW r \in Requests, BeginCreate(r) \/ RollbackCreate(r)
      PROVE  OnlyGrows
    <2>1. Ids(r) \cap stored = {}
        BY <1>1 DEF BeginCreate, RollbackCreate, PromiseInv, RowsInv, OpenUnstored
    <2>2. \A n \in stored : n \in Notifs => visible_at'[n] = visible_at[n]
        BY <1>1, <2>1 DEF BeginCreate, RollbackCreate
    <2> QED
        BY <1>0, <1>1, <2>2
           DEF BeginCreate, RollbackCreate, OnlyGrows, WatermarksStand, overrideVars, fixedVars,
               Visible, broadcastVars
<1>2. ASSUME NEW r \in Requests, CommitImmediate(r, muted)
      PROVE  OnlyGrows
    <2>1. WatermarksStand
        BY <1>0, <1>2, CommitFields
    <2> QED
        BY <1>0, <1>2, <2>1
           DEF CommitImmediate, OnlyGrows, rowVars, overrideVars, fixedVars, Visible,
               broadcastVars
<1>3. ASSUME NEW r \in Requests, CommitScheduled(r)
      PROVE  OnlyGrows
    BY <1>0, <1>3
       DEF CommitScheduled, OnlyGrows, WatermarksStand, rowVars, overrideVars, fixedVars,
           Visible, broadcastVars
<1>4. ASSUME NEW b \in Broadcasts,
             BeginBroadcast(b) \/ CommitBroadcast(b) \/ RollbackBroadcast(b)
      PROVE  OnlyGrows
    <2>1. /\ announced \subseteq announced'
          /\ \A c \in announced : created_at'[c] = created_at[c]
        BY <1>0, <1>4
           DEF BeginBroadcast, CommitBroadcast, RollbackBroadcast, PromiseInv, RowsInv,
               OpenUnstored, TypeOK
    <2> QED
        BY <1>0, <1>4, <2>1
           DEF BeginBroadcast, CommitBroadcast, RollbackBroadcast, OnlyGrows, WatermarksStand,
               rowVars, createVars, overrideVars, fixedVars, Visible
<1> QED
    BY <1>1, <1>2, <1>3, <1>4 DEF Management

LEMMA WorkerGrows ==
    ASSUME PromiseInv, Worker
    PROVE  OnlyGrows
<1>0. TypeOK
    BY DEF PromiseInv, RowsInv
<1>1. ASSUME NEW r \in Requests, ProcessDeliver(r)
      PROVE  OnlyGrows
    <2>1. WatermarksStand
        BY <1>0, <1>1, DeliverFields
    <2> QED
        BY <1>1, <2>1
           DEF ProcessDeliver, OnlyGrows, createVars, rowVars, broadcastVars, overrideVars,
               fixedVars, Visible
<1>2. ASSUME NEW targets \in hints, PublishHint(targets)
      PROVE  OnlyGrows
    BY <1>2
       DEF PublishHint, OnlyGrows, WatermarksStand, createVars, rowVars, broadcastVars,
           overrideVars, fixedVars, Visible
<1> QED
    BY <1>1, <1>2 DEF Worker

LEMMA TickGrows ==
    ASSUME PromiseInv, Tick
    PROVE  OnlyGrows
<1>1. now \in Int /\ now' = now + 1 /\ \A n \in Notifs : visible_at[n] \in Int
    BY Instants DEF PromiseInv, RowsInv, Tick
<1> QED
    BY <1>1
       DEF Tick, OnlyGrows, WatermarksStand, createVars, rowVars, broadcastVars, overrideVars,
           fixedVars, Visible

----------------------------------------------------------------------------
(* The subscriber's actions *)

\* What an action on direct rows leaves of the broadcasts, and the other way
\* round.
NewsStand ==
    \A t \in Subs : /\ Hears(t)' = Hears(t)
                    /\ UnreadNews(t)' = UnreadNews(t)
                    /\ ArchivedNews(t)' = ArchivedNews(t)
                    /\ UnseenNews(t)' = UnseenNews(t)

RowsStand ==
    \A t \in Subs : /\ Has(t)' = Has(t)
                    /\ UnreadRows(t)' = UnreadRows(t)
                    /\ ArchivedRows(t)' = ArchivedRows(t)
                    /\ UnseenRows(t)' = UnseenRows(t)

LEMMA NewsFrame ==
    ASSUME WatermarksStand, UNCHANGED <<broadcastVars, overrideVars>>
    PROVE  NewsStand
<1>1. \A t \in Subs : Hears(t)' = Hears(t)
    BY DEF Hears, BroadcastVisible, broadcastVars
<1>2. \A t \in Subs, b \in Broadcasts :
        /\ BroadcastRead(t, b)' <=> BroadcastRead(t, b)
        /\ BroadcastArchived(t, b)' <=> BroadcastArchived(t, b)
        /\ (created_at[b] > counters[t].seen_watermark)'
             <=> created_at[b] > counters[t].seen_watermark
    BY DEF BroadcastRead, BroadcastArchived, WatermarksStand, broadcastVars, overrideVars
<1>3. \A t \in Subs : Hears(t) \subseteq Broadcasts
    BY DEF Hears
<1> QED
    BY <1>1, <1>2, <1>3 DEF NewsStand, UnreadNews, ArchivedNews, UnseenNews

\* A single row's flag is changed and nothing else.
LEMMA RowFrame ==
    ASSUME PromiseInv, WatermarksStand,
           UNCHANGED <<now, createVars, visible_at, subscriber_id>>
    PROVE  /\ \A t \in Subs : Has(t)' = Has(t) /\ UnseenRows(t)' = UnseenRows(t)
           /\ UNCHANGED <<read_at, unread_at>> =>
                  \A t \in Subs : UnreadRows(t)' = UnreadRows(t)
           /\ UNCHANGED <<archived_at, unarchived_at>> =>
                  \A t \in Subs : ArchivedRows(t)' = ArchivedRows(t)
<1>0. \A n \in Notifs : subscriber_id[n] \in Subs
    BY DEF PromiseInv, RowsInv, TypeOK
<1>1. \A t \in Subs : Has(t)' = Has(t) /\ Has(t) \subseteq Notifs
    BY DEF Has, Visible, createVars
<1>2. \A t \in Subs : UnseenRows(t)' = UnseenRows(t)
    BY <1>1 DEF UnseenRows, WatermarksStand
<1>3. ASSUME UNCHANGED <<read_at, unread_at>>
      PROVE  \A t \in Subs : UnreadRows(t)' = UnreadRows(t)
    <2>1. \A n \in Notifs : EffectivelyRead(n)' <=> EffectivelyRead(n)
        BY <1>0, <1>3 DEF EffectivelyRead, WatermarksStand
    <2> QED
        BY <1>1, <2>1 DEF UnreadRows
<1>4. ASSUME UNCHANGED <<archived_at, unarchived_at>>
      PROVE  \A t \in Subs : ArchivedRows(t)' = ArchivedRows(t)
    <2>1. \A n \in Notifs : EffectivelyArchived(n)' <=> EffectivelyArchived(n)
        BY <1>0, <1>4 DEF EffectivelyArchived, WatermarksStand
    <2> QED
        BY <1>1, <2>1 DEF ArchivedRows
<1> QED
    BY <1>1, <1>2, <1>3, <1>4

SameInbox == \A t \in Subs : InboxOf(t)' = InboxOf(t)
SameUnread == \A t \in Subs : Unread(t)' = Unread(t)
SameArchived == \A t \in Subs : Archived(t)' = Archived(t)
SameUnseen == \A t \in Subs : Unseen(t)' = Unseen(t)

\* When a step is a promised change of one flag.
LEMMA UnreadPromised ==
    ASSUME NEW s \in Subs, NEW i \in InboxOf(s), SameInbox, SameArchived, SameUnseen,
           \A t \in Subs : t # s => Unread(t)' = Unread(t)
    PROVE  /\ Unread(s)' = Unread(s) \ {i} => Promise!MarkRead(s, i)
           /\ Unread(s)' = Unread(s) \cup {i} => Promise!MarkUnread(s, i)
<1> USE DEF SameInbox, SameArchived, SameUnseen
<1>1. ASSUME Unread(s)' = Unread(s) \ {i}
      PROVE  Promise!MarkRead(s, i)
    BY <1>1 DEF Promise!MarkRead
<1>2. ASSUME Unread(s)' = Unread(s) \cup {i}
      PROVE  Promise!MarkUnread(s, i)
    BY <1>2 DEF Promise!MarkUnread
<1> QED
    BY <1>1, <1>2

LEMMA AllReadPromised ==
    ASSUME NEW s \in Subs, SameInbox, SameArchived, SameUnseen, Unread(s)' = {},
           \A t \in Subs : t # s => Unread(t)' = Unread(t)
    PROVE  Promise!MarkAllRead(s)
BY DEF Promise!MarkAllRead, SameInbox, SameArchived, SameUnseen

LEMMA AllSeenPromised ==
    ASSUME NEW s \in Subs, SameInbox, SameUnread, SameArchived, Unseen(s)' = {},
           \A t \in Subs : t # s => Unseen(t)' = Unseen(t)
    PROVE  Promise!MarkAllSeen(s)
BY DEF Promise!MarkAllSeen, SameInbox, SameArchived, SameUnread

LEMMA ArchivedPromised ==
    ASSUME NEW s \in Subs, NEW i \in InboxOf(s), SameInbox, SameUnread, SameUnseen,
           \A t \in Subs : t # s => Archived(t)' = Archived(t)
    PROVE  /\ Archived(s)' = Archived(s) \cup {i} => Promise!Archive(s, i)
           /\ Archived(s)' = Archived(s) \ {i} => Promise!Unarchive(s, i)
<1> USE DEF SameInbox, SameUnread, SameUnseen
<1>1. ASSUME Archived(s)' = Archived(s) \cup {i}
      PROVE  Promise!Archive(s, i)
    BY <1>1 DEF Promise!Archive
<1>2. ASSUME Archived(s)' = Archived(s) \ {i}
      PROVE  Promise!Unarchive(s, i)
    BY <1>2 DEF Promise!Unarchive
<1> QED
    BY <1>1, <1>2

LEMMA AllArchivedPromised ==
    ASSUME NEW s \in Subs, SameInbox, SameUnread, SameUnseen, Archived(s)' = InboxOf(s),
           \A t \in Subs : t # s => Archived(t)' = Archived(t)
    PROVE  Promise!ArchiveAll(s)
BY DEF Promise!ArchiveAll, SameInbox, SameUnread, SameUnseen

\* A row is in one source, and in one subscriber's inbox.
LEMMA OneOwner ==
    ASSUME PromiseInv, NEW n \in Notifs, Visible(n)
    PROVE  /\ subscriber_id[n] \in Subs /\ n \in Has(subscriber_id[n])
           /\ \A t \in Subs : t # subscriber_id[n] => n \notin Has(t)
           /\ \A t \in Subs : n \notin Hears(t)
BY SourcesAssumption DEF PromiseInv, RowsInv, TypeOK, Has, Hears

LEMMA ReadMarks ==
    ASSUME PromiseInv, NEW n \in Notifs,
           MarkNotificationRead(n) \/ MarkNotificationUnread(n)
    PROVE  /\ MarkNotificationRead(n) => Promise!MarkRead(subscriber_id[n], n)
           /\ MarkNotificationUnread(n) => Promise!MarkUnread(subscriber_id[n], n)
<1> DEFINE s == subscriber_id[n]
<1>0. /\ TypeOK /\ s \in Subs /\ Visible(n)
      /\ visible_at[n] \in Int /\ counters[s].read_watermark \in Int
      /\ UNCHANGED <<now, createVars, visible_at, subscriber_id, archived_at, unarchived_at>>
      /\ UNCHANGED <<broadcastVars, overrideVars>>
    BY Instants
       DEF MarkNotificationRead, MarkNotificationUnread, fixedVars, PromiseInv, RowsInv
<1>1. WatermarksStand
    <2>1. CASE MarkNotificationRead(n)
        BY <1>0, <2>1, MinusFields DEF MarkNotificationRead
    <2>2. CASE MarkNotificationUnread(n)
        BY <1>0, <2>2, PlusFields DEF MarkNotificationUnread
    <2> QED
        BY <2>1, <2>2
<1>2. NewsStand
    BY <1>0, <1>1, NewsFrame
<1>3. \A t \in Subs : /\ Has(t)' = Has(t) /\ UnseenRows(t)' = UnseenRows(t)
                      /\ ArchivedRows(t)' = ArchivedRows(t)
    BY <1>0, <1>1, RowFrame
<1>4. SameInbox /\ SameArchived /\ SameUnseen
    BY <1>2, <1>3 DEF SameInbox, SameArchived, SameUnseen, NewsStand, InboxOf, Archived, Unseen
<1>5. /\ n \in Has(s) /\ n \notin Hears(s)
      /\ \A t \in Subs : t # s => n \notin Has(t)
    BY <1>0, OneOwner
<1>6. \A m \in Notifs : m # n => (EffectivelyRead(m)' <=> EffectivelyRead(m))
    <2>1. \A m \in Notifs : m # n => /\ m \in read_at' <=> m \in read_at
                                     /\ m \in unread_at' <=> m \in unread_at
        BY DEF MarkNotificationRead, MarkNotificationUnread, OverrideBelow
    <2>2. \A m \in Notifs : subscriber_id[m] \in Subs
        BY <1>0 DEF TypeOK
    <2> QED
        BY <1>0, <1>1, <2>1, <2>2 DEF EffectivelyRead, WatermarksStand
<1>7. \A t \in Subs : t # s => UnreadRows(t)' = UnreadRows(t)
    BY <1>3, <1>5, <1>6 DEF UnreadRows, Has
<1>8. \A t \in Subs : t # s => Unread(t)' = Unread(t)
    BY <1>2, <1>7 DEF Unread, NewsStand
<1>9. n \in InboxOf(s)
    BY <1>5 DEF InboxOf
<1>10. n \notin UnreadNews(s)
    BY <1>5 DEF UnreadNews
<1>11. ASSUME MarkNotificationRead(n)
       PROVE  Unread(s)' = Unread(s) \ {n}
    <2>1. EffectivelyRead(n)'
        BY <1>11 DEF MarkNotificationRead, EffectivelyRead
    <2>2. UnreadRows(s)' = UnreadRows(s) \ {n}
        BY <1>0, <1>3, <1>6, <2>1 DEF UnreadRows, Has
    <2> QED
        BY <1>0, <1>2, <1>10, <2>2 DEF Unread, NewsStand
<1>12. ASSUME MarkNotificationUnread(n)
       PROVE  Unread(s)' = Unread(s) \cup {n}
    <2>1. ~EffectivelyRead(n)'
        BY <1>0, <1>1, <1>12
           DEF MarkNotificationUnread, EffectivelyRead, OverrideBelow, WatermarksStand
    <2>2. UnreadRows(s)' = UnreadRows(s) \cup {n}
        BY <1>0, <1>3, <1>5, <1>6, <2>1 DEF UnreadRows, Has
    <2> QED
        BY <1>0, <1>2, <2>2 DEF Unread, NewsStand
<1> QED
    BY <1>0, <1>4, <1>8, <1>9, <1>11, <1>12, UnreadPromised

LEMMA ArchiveMarks ==
    ASSUME PromiseInv, NEW n \in Notifs,
           ArchiveNotification(n) \/ UnarchiveNotification(n)
    PROVE  /\ ArchiveNotification(n) => Promise!Archive(subscriber_id[n], n)
           /\ UnarchiveNotification(n) => Promise!Unarchive(subscriber_id[n], n)
<1> DEFINE s == subscriber_id[n]
<1>0. /\ TypeOK /\ s \in Subs /\ Visible(n)
      /\ visible_at[n] \in Int /\ counters[s].archive_watermark \in Int
      /\ UNCHANGED <<now, createVars, visible_at, subscriber_id, read_at, unread_at>>
      /\ UNCHANGED <<broadcastVars, overrideVars>>
    BY Instants
       DEF ArchiveNotification, UnarchiveNotification, fixedVars, PromiseInv, RowsInv
<1>1. WatermarksStand
    <2>1. CASE ArchiveNotification(n)
        BY <1>0, <2>1, MinusFields DEF ArchiveNotification
    <2>2. CASE UnarchiveNotification(n)
        BY <1>0, <2>2, PlusFields DEF UnarchiveNotification
    <2> QED
        BY <2>1, <2>2
<1>2. NewsStand
    BY <1>0, <1>1, NewsFrame
<1>3. \A t \in Subs : /\ Has(t)' = Has(t) /\ UnseenRows(t)' = UnseenRows(t)
                      /\ UnreadRows(t)' = UnreadRows(t)
    BY <1>0, <1>1, RowFrame
<1>4. SameInbox /\ SameUnread /\ SameUnseen
    BY <1>2, <1>3 DEF SameInbox, SameUnread, SameUnseen, NewsStand, InboxOf, Unread, Unseen
<1>5. /\ n \in Has(s) /\ n \notin Hears(s)
      /\ \A t \in Subs : t # s => n \notin Has(t)
    BY <1>0, OneOwner
<1>6. \A m \in Notifs : m # n => (EffectivelyArchived(m)' <=> EffectivelyArchived(m))
    <2>1. \A m \in Notifs : m # n => /\ m \in archived_at' <=> m \in archived_at
                                     /\ m \in unarchived_at' <=> m \in unarchived_at
        BY DEF ArchiveNotification, UnarchiveNotification, OverrideBelow
    <2>2. \A m \in Notifs : subscriber_id[m] \in Subs
        BY <1>0 DEF TypeOK
    <2> QED
        BY <1>0, <1>1, <2>1, <2>2 DEF EffectivelyArchived, WatermarksStand
<1>7. \A t \in Subs : t # s => ArchivedRows(t)' = ArchivedRows(t)
    BY <1>3, <1>5, <1>6 DEF ArchivedRows, Has
<1>8. \A t \in Subs : t # s => Archived(t)' = Archived(t)
    BY <1>2, <1>7 DEF Archived, NewsStand
<1>9. n \in InboxOf(s)
    BY <1>5 DEF InboxOf
<1>10. n \notin ArchivedNews(s)
    BY <1>5 DEF ArchivedNews
<1>11. ASSUME ArchiveNotification(n)
       PROVE  Archived(s)' = Archived(s) \cup {n}
    <2>1. EffectivelyArchived(n)'
        BY <1>11 DEF ArchiveNotification, EffectivelyArchived
    <2>2. ArchivedRows(s)' = ArchivedRows(s) \cup {n}
        BY <1>0, <1>3, <1>5, <1>6, <2>1 DEF ArchivedRows, Has
    <2> QED
        BY <1>0, <1>2, <2>2 DEF Archived, NewsStand
<1>12. ASSUME UnarchiveNotification(n)
       PROVE  Archived(s)' = Archived(s) \ {n}
    <2>1. ~EffectivelyArchived(n)'
        BY <1>0, <1>1, <1>12
           DEF UnarchiveNotification, EffectivelyArchived, OverrideBelow, WatermarksStand
    <2>2. ArchivedRows(s)' = ArchivedRows(s) \ {n}
        BY <1>0, <1>3, <1>6, <2>1 DEF ArchivedRows, Has
    <2> QED
        BY <1>0, <1>2, <1>10, <2>2 DEF Archived, NewsStand
<1> QED
    BY <1>0, <1>4, <1>8, <1>9, <1>11, <1>12, ArchivedPromised

\* A step that writes a row of the two broadcast tables moves no direct item.
LEMMA RowsFrame ==
    ASSUME PromiseInv,
           UNCHANGED <<now, createVars, rowVars, counters, subscriber_id>>
    PROVE  RowsStand
<1>1. UNCHANGED <<visible_at, read_at, unread_at, archived_at, unarchived_at>>
    BY DEF rowVars
<1>2. WatermarksStand
    BY DEF WatermarksStand
<1> QED
    BY <1>1, <1>2, RowFrame DEF RowsStand

LEMMA ReadNewsMarks ==
    ASSUME PromiseInv, NEW s \in Subs, NEW b \in Broadcasts, NEW on \in BOOLEAN,
           FlipBroadcastRead(s, b, on)
    PROVE  IF on THEN Promise!MarkRead(s, b) ELSE Promise!MarkUnread(s, b)
<1>0. /\ TypeOK /\ BroadcastVisible(s, b)
      /\ created_at[b] \in Int /\ counters[s].read_watermark \in Int
      /\ broadcast_reads \in [Subs \X Broadcasts -> Override]
      /\ UNCHANGED <<now, createVars, rowVars, counters, subscriber_id, broadcast_archives>>
      /\ UNCHANGED <<announcing, announced, created_at>>
    BY Instants
       DEF FlipBroadcastRead, fixedVars, broadcastVars, PromiseInv, RowsInv, TypeOK
<1>1. RowsStand
    BY <1>0, RowsFrame
<1>2. \A t \in Subs : /\ Hears(t)' = Hears(t) /\ ArchivedNews(t)' = ArchivedNews(t)
                      /\ UnseenNews(t)' = UnseenNews(t)
    BY <1>0 DEF Hears, ArchivedNews, UnseenNews, BroadcastVisible, BroadcastArchived
<1>3. SameInbox /\ SameArchived /\ SameUnseen
    BY <1>1, <1>2 DEF SameInbox, SameArchived, SameUnseen, RowsStand, InboxOf, Archived, Unseen
<1>4. \A t \in Subs, c \in Broadcasts : t # s \/ c # b =>
        (BroadcastRead(t, c)' <=> BroadcastRead(t, c))
    <2>1. \A t \in Subs, c \in Broadcasts : t # s \/ c # b =>
            broadcast_reads'[t, c] = broadcast_reads[t, c]
        BY <1>0 DEF FlipBroadcastRead
    <2> QED
        BY <1>0, <2>1 DEF BroadcastRead
<1>5. BroadcastRead(s, b)' <=> on
    <2>1. broadcast_reads[s, b] \in Override
        BY <1>0
    <2>2. broadcast_reads'[s, b] =
            Flip(broadcast_reads[s, b], created_at[b] > counters[s].read_watermark, on)
        BY <1>0 DEF FlipBroadcastRead
    <2>3. created_at[b] > counters[s].read_watermark <=> ~(created_at[b] <= counters[s].read_watermark)
        BY <1>0
    <2>4. /\ broadcast_reads'[s, b] = "none" => (created_at[b] <= counters[s].read_watermark <=> on)
          /\ broadcast_reads'[s, b] # "none" => (broadcast_reads'[s, b] = "true" <=> on)
        BY <2>1, <2>2, <2>3, Zenon DEF Flip, Override
    <2>5. created_at'[b] = created_at[b] /\ counters' = counters
        BY <1>0
    <2> QED
        BY <2>4, <2>5 DEF BroadcastRead
<1>6. \A t \in Subs : t # s => Unread(t)' = Unread(t)
    BY <1>1, <1>2, <1>4 DEF Unread, UnreadNews, RowsStand, Hears
<1>7. /\ b \in Hears(s) /\ b \notin UnreadRows(s)
    BY <1>0, SourcesAssumption DEF Hears, UnreadRows, Has
<1>8. /\ on => UnreadNews(s)' = UnreadNews(s) \ {b}
      /\ ~on => UnreadNews(s)' = UnreadNews(s) \cup {b}
    BY <1>2, <1>4, <1>5, <1>7 DEF UnreadNews, Hears
<1>9. /\ on => Unread(s)' = Unread(s) \ {b}
      /\ ~on => Unread(s)' = Unread(s) \cup {b}
    BY <1>1, <1>7, <1>8 DEF Unread, RowsStand
<1>10. b \in InboxOf(s)
    BY <1>7 DEF InboxOf
<1> QED
    BY <1>3, <1>6, <1>9, <1>10, UnreadPromised

LEMMA ArchiveNewsMarks ==
    ASSUME PromiseInv, NEW s \in Subs, NEW b \in Broadcasts, NEW on \in BOOLEAN,
           FlipBroadcastArchive(s, b, on)
    PROVE  IF on THEN Promise!Archive(s, b) ELSE Promise!Unarchive(s, b)
<1>0. /\ TypeOK /\ BroadcastVisible(s, b)
      /\ created_at[b] \in Int /\ counters[s].archive_watermark \in Int
      /\ broadcast_archives \in [Subs \X Broadcasts -> Override]
      /\ UNCHANGED <<now, createVars, rowVars, counters, subscriber_id, broadcast_reads>>
      /\ UNCHANGED <<announcing, announced, created_at>>
    BY Instants
       DEF FlipBroadcastArchive, fixedVars, broadcastVars, PromiseInv, RowsInv, TypeOK
<1>1. RowsStand
    BY <1>0, RowsFrame
<1>2. \A t \in Subs : /\ Hears(t)' = Hears(t) /\ UnreadNews(t)' = UnreadNews(t)
                      /\ UnseenNews(t)' = UnseenNews(t)
    BY <1>0 DEF Hears, UnreadNews, UnseenNews, BroadcastVisible, BroadcastRead
<1>3. SameInbox /\ SameUnread /\ SameUnseen
    BY <1>1, <1>2 DEF SameInbox, SameUnread, SameUnseen, RowsStand, InboxOf, Unread, Unseen
<1>4. \A t \in Subs, c \in Broadcasts : t # s \/ c # b =>
        (BroadcastArchived(t, c)' <=> BroadcastArchived(t, c))
    <2>1. \A t \in Subs, c \in Broadcasts : t # s \/ c # b =>
            broadcast_archives'[t, c] = broadcast_archives[t, c]
        BY <1>0 DEF FlipBroadcastArchive
    <2> QED
        BY <1>0, <2>1 DEF BroadcastArchived
<1>5. BroadcastArchived(s, b)' <=> on
    <2>1. broadcast_archives[s, b] \in Override
        BY <1>0
    <2>2. broadcast_archives'[s, b] =
            Flip(broadcast_archives[s, b], created_at[b] > counters[s].archive_watermark, on)
        BY <1>0 DEF FlipBroadcastArchive
    <2>3. created_at[b] > counters[s].archive_watermark <=> ~(created_at[b] <= counters[s].archive_watermark)
        BY <1>0
    <2>4. /\ broadcast_archives'[s, b] = "none" => (created_at[b] <= counters[s].archive_watermark <=> on)
          /\ broadcast_archives'[s, b] # "none" => (broadcast_archives'[s, b] = "true" <=> on)
        BY <2>1, <2>2, <2>3, Zenon DEF Flip, Override
    <2>5. created_at'[b] = created_at[b] /\ counters' = counters
        BY <1>0
    <2> QED
        BY <2>4, <2>5 DEF BroadcastArchived
<1>6. \A t \in Subs : t # s => Archived(t)' = Archived(t)
    BY <1>1, <1>2, <1>4 DEF Archived, ArchivedNews, RowsStand, Hears
<1>7. /\ b \in Hears(s) /\ b \notin ArchivedRows(s)
    BY <1>0, SourcesAssumption DEF Hears, ArchivedRows, Has
<1>8. /\ on => ArchivedNews(s)' = ArchivedNews(s) \cup {b}
      /\ ~on => ArchivedNews(s)' = ArchivedNews(s) \ {b}
    BY <1>2, <1>4, <1>5, <1>7 DEF ArchivedNews, Hears
<1>9. /\ on => Archived(s)' = Archived(s) \cup {b}
      /\ ~on => Archived(s)' = Archived(s) \ {b}
    BY <1>1, <1>7, <1>8 DEF Archived, RowsStand
<1>10. b \in InboxOf(s)
    BY <1>7 DEF InboxOf
<1> QED
    BY <1>3, <1>6, <1>9, <1>10, ArchivedPromised

\* An action on the whole inbox neither moves nor shows nor hides an item, and
\* touches one subscriber's rows.
LEMMA WholeInboxFrame ==
    ASSUME PromiseInv, NEW s \in Subs,
           MarkAllRead(s) \/ MarkAllSeen(s) \/ ArchiveAll(s)
    PROVE  /\ UNCHANGED <<now, stored, visible_at, subscriber_id, announced, created_at>>
           /\ \A t \in Subs : Has(t)' = Has(t) /\ Hears(t)' = Hears(t)
           /\ SameInbox
           /\ \A t \in Subs : t # s => counters'[t] = counters[t]
           /\ \A n \in Notifs : subscriber_id[n] # s =>
                 /\ n \in read_at' <=> n \in read_at
                 /\ n \in unread_at' <=> n \in unread_at
                 /\ n \in archived_at' <=> n \in archived_at
                 /\ n \in unarchived_at' <=> n \in unarchived_at
           /\ \A t \in Subs, b \in Broadcasts : t # s =>
                 /\ broadcast_reads'[t, b] = broadcast_reads[t, b]
                 /\ broadcast_archives'[t, b] = broadcast_archives[t, b]
<1>1. UNCHANGED <<now, stored, visible_at, subscriber_id, announced, created_at>>
    BY DEF MarkAllRead, MarkAllSeen, ArchiveAll, createVars, rowVars, broadcastVars, fixedVars
<1>2. \A t \in Subs : Has(t)' = Has(t) /\ Hears(t)' = Hears(t)
    BY <1>1 DEF Has, Hears, Visible, BroadcastVisible
<1>3. \A t \in Subs : t # s => counters'[t] = counters[t]
    BY DEF MarkAllRead, MarkAllSeen, ArchiveAll, AdvanceArchive, PromiseInv, RowsInv, TypeOK
<1>4. \A n \in Notifs : subscriber_id[n] # s =>
        /\ n \in read_at' <=> n \in read_at
        /\ n \in unread_at' <=> n \in unread_at
        /\ n \in archived_at' <=> n \in archived_at
        /\ n \in unarchived_at' <=> n \in unarchived_at
    BY DEF MarkAllRead, MarkAllSeen, ArchiveAll, Below, rowVars
<1>5. \A t \in Subs, b \in Broadcasts : t # s =>
        /\ broadcast_reads'[t, b] = broadcast_reads[t, b]
        /\ broadcast_archives'[t, b] = broadcast_archives[t, b]
    <2>1. ASSUME NEW t \in Subs, NEW b \in Broadcasts, t # s, NEW overrides
          PROVE  Collect(overrides, s)[t, b] = overrides[t, b]
        BY <2>1 DEF Collect
    <2> QED
        BY <2>1 DEF MarkAllRead, MarkAllSeen, ArchiveAll, overrideVars
<1> QED
    BY <1>1, <1>2, <1>3, <1>4, <1>5 DEF SameInbox, InboxOf

\* Another subscriber's flags are read off rows the action did not touch.
LEMMA OthersStand ==
    ASSUME PromiseInv, NEW s \in Subs,
           MarkAllRead(s) \/ MarkAllSeen(s) \/ ArchiveAll(s)
    PROVE  \A t \in Subs : t # s => /\ Unread(t)' = Unread(t)
                                    /\ Archived(t)' = Archived(t)
                                    /\ Unseen(t)' = Unseen(t)
<1> SUFFICES ASSUME NEW t \in Subs, t # s
             PROVE  Unread(t)' = Unread(t) /\ Archived(t)' = Archived(t) /\ Unseen(t)' = Unseen(t)
    OBVIOUS
<1>1. /\ Has(t)' = Has(t) /\ Hears(t)' = Hears(t) /\ counters'[t] = counters[t]
      /\ UNCHANGED <<visible_at, subscriber_id, created_at>>
    BY WholeInboxFrame
<1>2. \A n \in Has(t) : n \in Notifs /\ subscriber_id[n] = t
    BY DEF Has
<1>3. \A n \in Has(t) : /\ EffectivelyRead(n)' <=> EffectivelyRead(n)
                        /\ EffectivelyArchived(n)' <=> EffectivelyArchived(n)
    BY <1>1, <1>2, WholeInboxFrame DEF EffectivelyRead, EffectivelyArchived
<1>4. \A b \in Hears(t) : /\ BroadcastRead(t, b)' <=> BroadcastRead(t, b)
                          /\ BroadcastArchived(t, b)' <=> BroadcastArchived(t, b)
    BY <1>1, WholeInboxFrame DEF BroadcastRead, BroadcastArchived, Hears
<1>5. UnreadRows(t)' = UnreadRows(t) /\ ArchivedRows(t)' = ArchivedRows(t)
    BY <1>1, <1>3 DEF UnreadRows, ArchivedRows
<1>6. UnreadNews(t)' = UnreadNews(t) /\ ArchivedNews(t)' = ArchivedNews(t)
    BY <1>1, <1>4 DEF UnreadNews, ArchivedNews
<1>7. UnseenRows(t)' = UnseenRows(t) /\ UnseenNews(t)' = UnseenNews(t)
    BY <1>1 DEF UnseenRows, UnseenNews
<1> QED
    BY <1>5, <1>6, <1>7 DEF Unread, Archived, Unseen

\* Everything there is lies at or before the moment the action takes its
\* watermark.
LEMMA AllInThePast ==
    ASSUME PromiseInv, NEW s \in Subs
    PROVE  /\ \A n \in Has(s) : n \in Notifs /\ n \in stored /\ visible_at[n] <= now
                                /\ subscriber_id[n] = s
           /\ \A b \in Hears(s) : b \in Broadcasts /\ created_at[b] <= now
BY DEF PromiseInv, CreatedPast, Has, Hears, Visible

LEMMA AllRead ==
    ASSUME PromiseInv, NEW s \in Subs, MarkAllRead(s)
    PROVE  Promise!MarkAllRead(s)
<1>1. /\ UNCHANGED <<now, visible_at, subscriber_id, created_at, archived_at, unarchived_at,
                     broadcast_archives>>
      /\ Has(s)' = Has(s) /\ Hears(s)' = Hears(s)
    BY WholeInboxFrame DEF MarkAllRead
<1>2. /\ counters'[s].read_watermark = now
      /\ counters'[s].seen_watermark = counters[s].seen_watermark
      /\ counters'[s].archive_watermark = counters[s].archive_watermark
    BY DEF MarkAllRead, PromiseInv, RowsInv, TypeOK, CountersRow
<1>3. \A n \in Has(s) : EffectivelyRead(n)'
    BY <1>1, <1>2, AllInThePast DEF MarkAllRead, EffectivelyRead, Below
<1>4. \A b \in Hears(s) : BroadcastRead(s, b)'
    <2>1. \A b \in Hears(s) : broadcast_reads'[s, b] = "none"
        BY AllInThePast DEF MarkAllRead, Collect
    <2> QED
        BY <1>1, <1>2, <2>1, AllInThePast DEF BroadcastRead
<1>5. Unread(s)' = {}
    BY <1>1, <1>3, <1>4 DEF Unread, UnreadRows, UnreadNews
<1>6. \A n \in Has(s) : EffectivelyArchived(n)' <=> EffectivelyArchived(n)
    BY <1>1, <1>2, AllInThePast DEF EffectivelyArchived
<1>7. \A b \in Hears(s) : BroadcastArchived(s, b)' <=> BroadcastArchived(s, b)
    BY <1>1, <1>2 DEF BroadcastArchived
<1>8. Archived(s)' = Archived(s)
    BY <1>1, <1>6, <1>7 DEF Archived, ArchivedRows, ArchivedNews
<1>9. Unseen(s)' = Unseen(s)
    BY <1>1, <1>2 DEF Unseen, UnseenRows, UnseenNews
<1>10. SameInbox /\ SameArchived /\ SameUnseen
    BY <1>8, <1>9, OthersStand, WholeInboxFrame DEF SameArchived, SameUnseen
<1> QED
    BY <1>5, <1>10, OthersStand, AllReadPromised

LEMMA AllSeen ==
    ASSUME PromiseInv, NEW s \in Subs, MarkAllSeen(s)
    PROVE  Promise!MarkAllSeen(s)
<1>1. /\ UNCHANGED <<now, visible_at, subscriber_id, created_at, read_at, unread_at, archived_at,
                     unarchived_at, broadcast_reads, broadcast_archives>>
      /\ Has(s)' = Has(s) /\ Hears(s)' = Hears(s)
    BY WholeInboxFrame DEF MarkAllSeen, rowVars, overrideVars
<1>2. /\ counters'[s].seen_watermark = now
      /\ counters'[s].read_watermark = counters[s].read_watermark
      /\ counters'[s].archive_watermark = counters[s].archive_watermark
    BY DEF MarkAllSeen, PromiseInv, RowsInv, TypeOK, CountersRow
<1>3. Unseen(s)' = {}
    <2>1. /\ now \in Int /\ \A n \in Notifs : visible_at[n] \in Int
          /\ \A b \in Broadcasts : created_at[b] \in Int
        BY Instants DEF PromiseInv, RowsInv
    <2>2. /\ \A n \in Has(s) : ~(visible_at[n] > now)
          /\ \A b \in Hears(s) : ~(created_at[b] > now)
        BY <2>1, AllInThePast
    <2> QED
        BY <1>1, <1>2, <2>2 DEF Unseen, UnseenRows, UnseenNews
<1>4. \A n \in Has(s) : /\ EffectivelyRead(n)' <=> EffectivelyRead(n)
                        /\ EffectivelyArchived(n)' <=> EffectivelyArchived(n)
    BY <1>1, <1>2, AllInThePast DEF EffectivelyRead, EffectivelyArchived
<1>5. \A b \in Hears(s) : /\ BroadcastRead(s, b)' <=> BroadcastRead(s, b)
                          /\ BroadcastArchived(s, b)' <=> BroadcastArchived(s, b)
    BY <1>1, <1>2 DEF BroadcastRead, BroadcastArchived
<1>6. Unread(s)' = Unread(s) /\ Archived(s)' = Archived(s)
    BY <1>1, <1>4, <1>5
       DEF Unread, UnreadRows, UnreadNews, Archived, ArchivedRows, ArchivedNews
<1>7. SameInbox /\ SameUnread /\ SameArchived
    BY <1>6, OthersStand, WholeInboxFrame DEF SameArchived, SameUnread
<1> QED
    BY <1>3, <1>7, OthersStand, AllSeenPromised

LEMMA AllArchived ==
    ASSUME PromiseInv, NEW s \in Subs, ArchiveAll(s)
    PROVE  Promise!ArchiveAll(s)
<1>1. /\ UNCHANGED <<now, visible_at, subscriber_id, created_at, read_at, unread_at,
                     broadcast_reads>>
      /\ Has(s)' = Has(s) /\ Hears(s)' = Hears(s)
    BY WholeInboxFrame DEF ArchiveAll
<1>2. /\ counters'[s].archive_watermark = now
      /\ counters'[s].read_watermark = counters[s].read_watermark
      /\ counters'[s].seen_watermark = counters[s].seen_watermark
    BY DEF ArchiveAll, AdvanceArchive, PromiseInv, RowsInv, TypeOK, CountersRow
<1>3. \A n \in Has(s) : EffectivelyArchived(n)'
    BY <1>1, <1>2, AllInThePast DEF ArchiveAll, EffectivelyArchived, Below
<1>4. \A b \in Hears(s) : BroadcastArchived(s, b)'
    <2>1. \A b \in Hears(s) : broadcast_archives'[s, b] = "none"
        BY AllInThePast DEF ArchiveAll, Collect
    <2> QED
        BY <1>1, <1>2, <2>1, AllInThePast DEF BroadcastArchived
<1>5. Archived(s)' = InboxOf(s)
    BY <1>1, <1>3, <1>4 DEF Archived, ArchivedRows, ArchivedNews, InboxOf
<1>6. \A n \in Has(s) : EffectivelyRead(n)' <=> EffectivelyRead(n)
    BY <1>1, <1>2, AllInThePast DEF EffectivelyRead
<1>7. \A b \in Hears(s) : BroadcastRead(s, b)' <=> BroadcastRead(s, b)
    BY <1>1, <1>2 DEF BroadcastRead
<1>8. Unread(s)' = Unread(s)
    BY <1>1, <1>6, <1>7 DEF Unread, UnreadRows, UnreadNews
<1>9. Unseen(s)' = Unseen(s)
    BY <1>1, <1>2 DEF Unseen, UnseenRows, UnseenNews
<1>10. SameInbox /\ SameUnread /\ SameUnseen
    BY <1>8, <1>9, OthersStand, WholeInboxFrame DEF SameUnread, SameUnseen
<1> QED
    BY <1>5, <1>10, OthersStand, AllArchivedPromised

----------------------------------------------------------------------------
(* The refinement *)

LEMMA EveryActionPromises ==
    ASSUME PromiseInv, NEW s \in Subs
    PROVE  ActionPromises(s)
<1>1. ASSUME NEW n \in Notifs, subscriber_id[n] = s
      PROVE  /\ MarkNotificationRead(n) => Promise!MarkRead(s, n)
             /\ MarkNotificationUnread(n) => Promise!MarkUnread(s, n)
             /\ ArchiveNotification(n) => Promise!Archive(s, n)
             /\ UnarchiveNotification(n) => Promise!Unarchive(s, n)
    BY <1>1, ReadMarks, ArchiveMarks
<1>2. ASSUME NEW b \in Broadcasts
      PROVE  /\ MarkBroadcastRead(s, b) => Promise!MarkRead(s, b)
             /\ MarkBroadcastUnread(s, b) => Promise!MarkUnread(s, b)
             /\ ArchiveBroadcast(s, b) => Promise!Archive(s, b)
             /\ UnarchiveBroadcast(s, b) => Promise!Unarchive(s, b)
    BY ReadNewsMarks, ArchiveNewsMarks
       DEF MarkBroadcastRead, MarkBroadcastUnread, ArchiveBroadcast, UnarchiveBroadcast
<1> QED
    BY <1>1, <1>2, AllRead, AllSeen, AllArchived DEF ActionPromises

LEMMA PromisedInit == Init => Promise!Init
<1> SUFFICES ASSUME Init PROVE Promise!Init
    OBVIOUS
<1>1. \A s \in Subs : Has(s) = {} /\ Hears(s) = {}
    BY DEF Init, Has, Hears, Visible, BroadcastVisible
<1>2. \A s \in Subs : InboxOf(s) = {} /\ Unread(s) = {} /\ Archived(s) = {} /\ Unseen(s) = {}
    BY <1>1 DEF InboxOf, Unread, Archived, Unseen, UnreadRows, UnreadNews, ArchivedRows,
                ArchivedNews, UnseenRows, UnseenNews
<1> QED
    BY <1>2 DEF Promise!Init, Promise!Nothing

LEMMA PromisedStep == PromiseInv /\ [Next]_vars => [Promise!Next]_(Promise!vars)
<1> SUFFICES ASSUME PromiseInv, [Next]_vars
             PROVE  [Promise!Next]_(Promise!vars)
    OBVIOUS
<1>0. PromiseInv'
    BY PromiseInvStep
<1>1. CASE Tick \/ Management \/ Worker
    BY <1>0, <1>1, TickGrows, ManagementGrows, WorkerGrows, GrowthArrives DEF Promise!Next
<1>2. CASE Subscriber
    <2>1. PICK s \in Acting :
              \/ MarkAllRead(s) \/ MarkAllSeen(s) \/ ArchiveAll(s)
              \/ \E n \in Notifs :
                    /\ subscriber_id[n] = s
                    /\ \/ MarkNotificationRead(n) \/ MarkNotificationUnread(n)
                       \/ ArchiveNotification(n) \/ UnarchiveNotification(n)
              \/ \E b \in Broadcasts : \/ MarkBroadcastRead(s, b) \/ MarkBroadcastUnread(s, b)
                                       \/ ArchiveBroadcast(s, b) \/ UnarchiveBroadcast(s, b)
        BY <1>2 DEF Subscriber
    <2>2. s \in Subs /\ Notifs \subseteq Items /\ Broadcasts \subseteq Items
        BY BoundsAssumption DEF BoundsAssumption, Items
    <2>3. ActionPromises(s)
        BY <2>2, EveryActionPromises
    <2> QED
        BY <2>1, <2>2, <2>3 DEF ActionPromises, Promise!Next
<1>3. CASE UNCHANGED vars
    <2>1. /\ \A t \in Subs : Has(t)' = Has(t) /\ Hears(t)' = Hears(t)
          /\ \A n \in Notifs : /\ EffectivelyRead(n)' <=> EffectivelyRead(n)
                               /\ EffectivelyArchived(n)' <=> EffectivelyArchived(n)
          /\ \A t \in Subs, b \in Broadcasts :
                /\ BroadcastRead(t, b)' <=> BroadcastRead(t, b)
                /\ BroadcastArchived(t, b)' <=> BroadcastArchived(t, b)
        BY <1>3
           DEF vars, createVars, rowVars, broadcastVars, overrideVars, fixedVars, Has, Hears,
               Visible, BroadcastVisible, EffectivelyRead, EffectivelyArchived, BroadcastRead,
               BroadcastArchived
    <2>2. \A t \in Subs : Has(t) \subseteq Notifs /\ Hears(t) \subseteq Broadcasts
        BY DEF Has, Hears
    <2>3. \A t \in Subs : /\ UnreadRows(t)' = UnreadRows(t) /\ UnreadNews(t)' = UnreadNews(t)
                          /\ ArchivedRows(t)' = ArchivedRows(t)
                          /\ ArchivedNews(t)' = ArchivedNews(t)
        BY <2>1, <2>2 DEF UnreadRows, UnreadNews, ArchivedRows, ArchivedNews
    <2>4. \A t \in Subs : UnseenRows(t)' = UnseenRows(t) /\ UnseenNews(t)' = UnseenNews(t)
        BY <1>3, <2>1 DEF vars, rowVars, broadcastVars, UnseenRows, UnseenNews
    <2>5. \A t \in Subs : /\ InboxOf(t)' = InboxOf(t) /\ Unread(t)' = Unread(t)
                          /\ Archived(t)' = Archived(t) /\ Unseen(t)' = Unseen(t)
        BY <2>1, <2>3, <2>4 DEF InboxOf, Unread, Archived, Unseen
    <2> QED
        BY <2>5 DEF Promise!vars
<1> QED
    BY <1>1, <1>2, <1>3 DEF Next

\* The handlers and the worker implement one flag per item.  With watermarks
\* and override rows no item changes a flag because another was touched, a
\* watermark passed it or a row was collected, and none leaves an inbox
\* (mark_all_read, archive_all and the item handlers of inbox.rs;
\* create_notifications_txn and process_deliver).
THEOREM PromiseKept == Spec => KeepsPromise
<1>1. Init => PromiseInv
    BY PromiseInvInit
<1>2. PromiseInv /\ [Next]_vars => PromiseInv'
    BY PromiseInvStep
<1>3. Init => Promise!Init
    BY PromisedInit
<1>4. PromiseInv /\ [Next]_vars => [Promise!Next]_(Promise!vars)
    BY PromisedStep
<1> QED
    BY <1>1, <1>2, <1>3, <1>4, PTL DEF Spec, KeepsPromise, Promise!Spec

\* Each subscriber handler does all it promises: an unread mark under a
\* watermark shows, an item of this very instant is read by mark-all-read, a
\* second archive-all takes what was brought back after the first (the eleven
\* subscriber handlers of inbox.rs).
THEOREM ActionsPromised == Spec => ActionsDoAllTheyPromise
<1>1. Init => PromiseInv
    BY PromiseInvInit
<1>2. PromiseInv /\ [Next]_vars => PromiseInv'
    BY PromiseInvStep
<1>3. PromiseInv => \A s \in Acting : ActionPromises(s)
    BY EveryActionPromises, BoundsAssumption DEF BoundsAssumption
<1> QED
    BY <1>1, <1>2, <1>3, PTL DEF Spec, ActionsDoAllTheyPromise

----------------------------------------------------------------------------
(* The badge *)

LEMMA BroadcastSubsetFinite ==
    ASSUME NEW S \in SUBSET Broadcasts
    PROVE  IsFiniteSet(S) /\ Cardinality(S) \in Nat
BY FiniteAssumption, FS_Subset, FS_CardinalityType DEF FiniteAssumption

Countable(s, b) ==
    b \in Hears(s) /\ ~BroadcastArchived(s, b) /\ ~BroadcastMuted(s, b)

\* The two broadcast terms of fetch_counts: the rows above the read watermark
\* and the exceptions below it.
TermAbove(s) == {b \in announced : /\ Countable(s, b)
                                   /\ created_at[b] > counters[s].read_watermark
                                   /\ broadcast_reads[s, b] # "true"}
TermBelow(s) == {b \in announced : /\ Countable(s, b)
                                   /\ created_at[b] <= counters[s].read_watermark
                                   /\ broadcast_reads[s, b] = "false"}

\* They share no broadcast, and together they are the unread broadcasts of the
\* list.
LEMMA TermsSplitTheList ==
    ASSUME TypeOK, NEW s \in Subs
    PROVE  /\ TermAbove(s) \cap TermBelow(s) = {}
           /\ TermAbove(s) \cup TermBelow(s) = ListBroadcast(s, "unread")
<1>1. /\ announced \subseteq Broadcasts
      /\ \A b \in Broadcasts : /\ created_at[b] \in Int
                               /\ broadcast_reads[s, b] \in {"none", "true", "false"}
      /\ counters[s].read_watermark \in Int
    BY Instants DEF TypeOK, Override
<1>0. \A b \in Broadcasts :
        created_at[b] > counters[s].read_watermark <=>
          ~(created_at[b] <= counters[s].read_watermark)
    BY Instants
<1>2. ASSUME NEW b \in Broadcasts
      PROVE  ~BroadcastRead(s, b) <=>
                \/ created_at[b] > counters[s].read_watermark /\ broadcast_reads[s, b] # "true"
                \/ /\ created_at[b] <= counters[s].read_watermark
                   /\ broadcast_reads[s, b] = "false"
    <2>1. broadcast_reads[s, b] \in {"none", "true", "false"}
        BY <1>1
    <2>2. created_at[b] > counters[s].read_watermark <=>
            ~(created_at[b] <= counters[s].read_watermark)
        BY <1>0
    <2> QED
        BY <2>1, <2>2, Zenon DEF BroadcastRead
<1>3. \A b \in Broadcasts : b \in ListBroadcast(s, "unread") <=>
                              Countable(s, b) /\ ~BroadcastRead(s, b)
    BY DEF ListBroadcast, Countable, Hears
<1>4. TermAbove(s) \cap TermBelow(s) = {}
    BY <1>0, <1>1, Zenon DEF TermAbove, TermBelow
<1>5. ListBroadcast(s, "unread") \subseteq Broadcasts
    BY DEF ListBroadcast
<1>6. \A b \in Broadcasts : Countable(s, b) => b \in announced
    BY DEF Countable, Hears, BroadcastVisible
<1> QED
    BY <1>1, <1>2, <1>3, <1>4, <1>5, <1>6 DEF TermAbove, TermBelow

LEMMA BadgeTerms ==
    ASSUME TypeOK, NEW s \in Subs
    PROVE  UnreadCount(s) = counters[s].unread + Cardinality(TermAbove(s))
                            + Cardinality(TermBelow(s))
<1>1. {b \in announced : /\ BroadcastVisible(s, b)
                         /\ ~BroadcastArchived(s, b) /\ ~BroadcastMuted(s, b)
                         /\ created_at[b] > counters[s].read_watermark
                         /\ broadcast_reads[s, b] # "true"} = TermAbove(s)
    BY DEF TermAbove, Countable, Hears, TypeOK
<1>2. {b \in announced : /\ BroadcastVisible(s, b)
                         /\ ~BroadcastArchived(s, b) /\ ~BroadcastMuted(s, b)
                         /\ created_at[b] <= counters[s].read_watermark
                         /\ broadcast_reads[s, b] = "false"} = TermBelow(s)
    BY DEF TermBelow, Countable, Hears, TypeOK
<1> QED
    BY <1>1, <1>2 DEF UnreadCount

LEMMA BadgeCounts ==
    ASSUME TypeOK, Exact, NEW s \in Subs
    PROVE  UnreadCount(s) = Cardinality({n \in ListDirect(s, "unread") : ~PendingDeliver(n)})
                            + Cardinality(ListBroadcast(s, "unread"))
<1>1. UnreadCount(s) = counters[s].unread + Cardinality(TermAbove(s)) + Cardinality(TermBelow(s))
    BY BadgeTerms
<1>2. TermAbove(s) \in SUBSET Broadcasts /\ TermBelow(s) \in SUBSET Broadcasts
    BY DEF TermAbove, TermBelow, TypeOK
<1>3. /\ IsFiniteSet(TermAbove(s)) /\ Cardinality(TermAbove(s)) \in Nat
      /\ IsFiniteSet(TermBelow(s)) /\ Cardinality(TermBelow(s)) \in Nat
    BY <1>2, BroadcastSubsetFinite
<1>4. Cardinality(TermAbove(s) \cup TermBelow(s)) =
        Cardinality(TermAbove(s)) + Cardinality(TermBelow(s))
    <2>1. Cardinality(TermAbove(s) \cap TermBelow(s)) = 0
        BY TermsSplitTheList, FS_EmptySet
    <2>2. Cardinality(TermAbove(s) \cup TermBelow(s)) =
            Cardinality(TermAbove(s)) + Cardinality(TermBelow(s))
            - Cardinality(TermAbove(s) \cap TermBelow(s))
        BY <1>3, FS_Union
    <2> QED
        BY <1>3, <2>1, <2>2
<1>5. Cardinality(ListBroadcast(s, "unread")) =
        Cardinality(TermAbove(s)) + Cardinality(TermBelow(s))
    BY <1>4, TermsSplitTheList
<1>6. counters[s].unread = Cardinality({n \in ListDirect(s, "unread") : ~PendingDeliver(n)})
    BY ExactIsCountersExact DEF CountersExact
<1>7. counters[s].unread \in Nat
    BY TimesAreIntegers
<1> QED
    BY <1>1, <1>3, <1>5, <1>6, <1>7

LEMMA UnseenCounts ==
    ASSUME TypeOK, Exact, NEW s \in Subs
    PROVE  UnseenCount(s) =
              Cardinality({n \in ListDirect(s, "default") \cup ListDirect(s, "archived") :
                  ~PendingDeliver(n) /\ visible_at[n] > counters[s].seen_watermark})
              + Cardinality({b \in ListBroadcast(s, "default") \cup ListBroadcast(s, "archived") :
                  created_at[b] > counters[s].seen_watermark})
<1>1. {n \in ListDirect(s, "default") \cup ListDirect(s, "archived") :
          ~PendingDeliver(n) /\ visible_at[n] > counters[s].seen_watermark}
      = {n \in Notifs : /\ Visible(n) /\ subscriber_id[n] = s /\ ~PendingDeliver(n)
                        /\ visible_at[n] > counters[s].seen_watermark
                        /\ ~Muted(n, muted)}
    BY DEF ListDirect
<1>2. {b \in ListBroadcast(s, "default") \cup ListBroadcast(s, "archived") :
          created_at[b] > counters[s].seen_watermark}
      = {b \in announced : /\ BroadcastVisible(s, b) /\ ~BroadcastMuted(s, b)
                           /\ created_at[b] > counters[s].seen_watermark}
    BY DEF ListBroadcast, TypeOK, BroadcastVisible
<1>3. counters[s].unseen =
        Cardinality({n \in Notifs : /\ Visible(n) /\ subscriber_id[n] = s /\ ~PendingDeliver(n)
                                    /\ visible_at[n] > counters[s].seen_watermark
                                    /\ ~Muted(n, muted)})
    BY ExactIsCountersExact DEF CountersExact
<1> QED
    BY <1>1, <1>2, <1>3 DEF UnseenCount

\* The badge is the length of the list in every reachable state: what
\* fetch_counts adds up from the maintained counter and two bounded terms over
\* the broadcasts is what the list handler returns rows for, muted categories
\* and rows a deliver job still owns left out of both (inbox.rs, fetch_counts,
\* list).
THEOREM BadgeIsList == Spec => []CountsMatchList
<1>1. DeliverInv /\ Exact => CountsMatchList
    BY BadgeCounts, UnseenCounts DEF DeliverInv, RowsInv, CountsMatchList
<1>2. Init => DeliverInv /\ Exact
    BY DeliverInit, ExactInit
<1>3. DeliverInv /\ Exact /\ [Next]_vars => DeliverInv' /\ Exact'
    BY DeliverStep, ExactStep
<1> QED
    BY <1>1, <1>2, <1>3, PTL DEF Spec

----------------------------------------------------------------------------
(* What changes is announced *)

\* A step that leaves all of this alone shows subscriber s what it showed.
Untouched(s) ==
    /\ \A c : <<s, c>> \in muted' <=> <<s, c>> \in muted
    /\ counters'[s].unread = counters[s].unread
    /\ counters'[s].unseen = counters[s].unseen
    /\ counters'[s].read_watermark = counters[s].read_watermark
    /\ counters'[s].seen_watermark = counters[s].seen_watermark
    /\ counters'[s].archive_watermark = counters[s].archive_watermark
    /\ Has(s)' = Has(s)
    /\ \A n \in Has(s) : /\ visible_at'[n] = visible_at[n]
                         /\ subscriber_id'[n] = subscriber_id[n]
                         /\ n \in read_at' <=> n \in read_at
                         /\ n \in unread_at' <=> n \in unread_at
                         /\ n \in archived_at' <=> n \in archived_at
                         /\ n \in unarchived_at' <=> n \in unarchived_at
    /\ Hears(s)' = Hears(s)
    /\ \A b \in Hears(s) : /\ created_at'[b] = created_at[b]
                           /\ broadcast_reads'[s, b] = broadcast_reads[s, b]
                           /\ broadcast_archives'[s, b] = broadcast_archives[s, b]

LEMMA ListsStand ==
    ASSUME NEW s \in Subs, Untouched(s)
    PROVE  /\ \A n \in Has(s) : /\ EffectivelyRead(n)' = EffectivelyRead(n)
                                /\ EffectivelyArchived(n)' = EffectivelyArchived(n)
           /\ \A b \in Hears(s) : /\ BroadcastRead(s, b)' = BroadcastRead(s, b)
                                  /\ BroadcastArchived(s, b)' = BroadcastArchived(s, b)
           /\ \A filter : ListDirect(s, filter)' = ListDirect(s, filter)
           /\ \A filter : ListBroadcast(s, filter)' = ListBroadcast(s, filter)
<1>1. \A n \in Has(s) : n \in Notifs /\ subscriber_id[n] = s
    BY DEF Has
<1>2. \A n \in Has(s) : /\ EffectivelyRead(n)' = EffectivelyRead(n)
                        /\ EffectivelyArchived(n)' = EffectivelyArchived(n)
    BY <1>1 DEF Untouched, EffectivelyRead, EffectivelyArchived
<1>3. \A b \in Hears(s) : /\ BroadcastRead(s, b)' = BroadcastRead(s, b)
                          /\ BroadcastArchived(s, b)' = BroadcastArchived(s, b)
    BY DEF Untouched, BroadcastRead, BroadcastArchived
<1>4. ASSUME NEW filter
      PROVE  ListDirect(s, filter)' = ListDirect(s, filter)
    <2>1. \A n \in Has(s) : /\ EffectivelyRead(n)' <=> EffectivelyRead(n)
                            /\ EffectivelyArchived(n)' <=> EffectivelyArchived(n)
                            /\ Muted(n, muted)' <=> Muted(n, muted)
        <3>1. \A n \in Has(s) : Muted(n, muted)' <=> Muted(n, muted)
            BY <1>1 DEF Untouched, Muted
        <3> QED
            BY <1>2, <3>1, Zenon
    <2>2. \A n : n \in ListDirect(s, filter) <=>
                    /\ n \in Has(s)
                    /\ filter = "unread" => ~EffectivelyRead(n)
                    /\ EffectivelyArchived(n) <=> filter = "archived"
                    /\ ~Muted(n, muted)
        BY DEF ListDirect, Has
    <2>3. \A n : n \in ListDirect(s, filter)' <=>
                    /\ n \in Has(s)'
                    /\ filter = "unread" => ~EffectivelyRead(n)'
                    /\ EffectivelyArchived(n)' <=> filter = "archived"
                    /\ ~Muted(n, muted)'
        BY DEF ListDirect, Has
    <2>4. \A n : n \in ListDirect(s, filter)' <=> n \in ListDirect(s, filter)
        BY <2>1, <2>2, <2>3, Zenon DEF Untouched
    <2> QED
        BY <2>4
<1>5. ASSUME NEW filter
      PROVE  ListBroadcast(s, filter)' = ListBroadcast(s, filter)
    <2>1. \A b \in Hears(s) : /\ BroadcastRead(s, b)' <=> BroadcastRead(s, b)
                              /\ BroadcastArchived(s, b)' <=> BroadcastArchived(s, b)
                              /\ BroadcastMuted(s, b)' <=> BroadcastMuted(s, b)
        BY <1>3 DEF Untouched, BroadcastMuted
    <2>2. \A b : b \in ListBroadcast(s, filter) <=>
                    /\ b \in Hears(s)
                    /\ filter = "unread" => ~BroadcastRead(s, b)
                    /\ BroadcastArchived(s, b) <=> filter = "archived"
                    /\ ~BroadcastMuted(s, b)
        BY DEF ListBroadcast, Hears
    <2>3. \A b : b \in ListBroadcast(s, filter)' <=>
                    /\ b \in Hears(s)'
                    /\ filter = "unread" => ~BroadcastRead(s, b)'
                    /\ BroadcastArchived(s, b)' <=> filter = "archived"
                    /\ ~BroadcastMuted(s, b)'
        BY DEF ListBroadcast, Hears
    <2>4. \A b : b \in ListBroadcast(s, filter)' <=> b \in ListBroadcast(s, filter)
        BY <2>1, <2>2, <2>3, Zenon DEF Untouched
    <2> QED
        BY <2>4
<1> QED
    BY <1>2, <1>3, <1>4, <1>5

LEMMA BadgeStands ==
    ASSUME TypeOK, TypeOK', NEW s \in Subs, Untouched(s)
    PROVE  UnreadCount(s)' = UnreadCount(s) /\ UnseenCount(s)' = UnseenCount(s)
<1>1. /\ TermAbove(s)' = TermAbove(s) /\ TermBelow(s)' = TermBelow(s)
    <2>1. \A b : Countable(s, b)' <=> Countable(s, b)
        BY ListsStand DEF Untouched, Countable, BroadcastMuted
    <2>2. \A b : Countable(s, b) => b \in Hears(s) /\ b \in announced /\ b \in announced'
        BY DEF Untouched, Countable, Hears, BroadcastVisible
    <2> QED
        BY <2>1, <2>2 DEF Untouched, TermAbove, TermBelow
<1>2. /\ UnreadCount(s) = counters[s].unread + Cardinality(TermAbove(s)) + Cardinality(TermBelow(s))
      /\ UnreadCount(s)' =
            counters'[s].unread + Cardinality(TermAbove(s)') + Cardinality(TermBelow(s)')
    <2>1. {b \in announced' : /\ BroadcastVisible(s, b)'
                              /\ ~BroadcastArchived(s, b)' /\ ~BroadcastMuted(s, b)'
                              /\ created_at'[b] > counters'[s].read_watermark
                              /\ broadcast_reads'[s, b] # "true"} = TermAbove(s)'
        BY DEF TermAbove, Countable, Hears, TypeOK
    <2>2. {b \in announced' : /\ BroadcastVisible(s, b)'
                              /\ ~BroadcastArchived(s, b)' /\ ~BroadcastMuted(s, b)'
                              /\ created_at'[b] <= counters'[s].read_watermark
                              /\ broadcast_reads'[s, b] = "false"} = TermBelow(s)'
        BY DEF TermBelow, Countable, Hears, TypeOK
    <2> QED
        BY <2>1, <2>2, BadgeTerms DEF UnreadCount
<1>3. UnreadCount(s)' = UnreadCount(s)
    BY <1>1, <1>2 DEF Untouched
<1> DEFINE News == {b \in Hears(s) : /\ ~BroadcastMuted(s, b)
                                     /\ created_at[b] > counters[s].seen_watermark}
<1>4. News' = News
    BY DEF Untouched, BroadcastMuted
<1>5. /\ UnseenCount(s) = counters[s].unseen + Cardinality(News)
      /\ UnseenCount(s)' = counters'[s].unseen + Cardinality(News')
    <2>1. {b \in announced : /\ BroadcastVisible(s, b) /\ ~BroadcastMuted(s, b)
                             /\ created_at[b] > counters[s].seen_watermark} = News
        BY DEF Hears, BroadcastVisible, TypeOK
    <2>2. {b \in announced' : /\ BroadcastVisible(s, b)' /\ ~BroadcastMuted(s, b)'
                              /\ created_at'[b] > counters'[s].seen_watermark} = News'
        BY DEF Hears, BroadcastVisible, TypeOK
    <2> QED
        BY <2>1, <2>2 DEF UnseenCount
<1> QED
    BY <1>3, <1>4, <1>5 DEF Untouched

LEMMA UntouchedShown ==
    ASSUME TypeOK, TypeOK', NEW s \in Subs, Untouched(s)
    PROVE  Shown(s)' = Shown(s)
<1> DEFINE Rows == {<<n, EffectivelyRead(n), EffectivelyArchived(n)>> :
                        n \in ListDirect(s, "default") \cup ListDirect(s, "archived")}
           News == {<<b, BroadcastRead(s, b), BroadcastArchived(s, b)>> :
                        b \in ListBroadcast(s, "default") \cup ListBroadcast(s, "archived")}
<1>1. Rows' = Rows
    <2>1. ListDirect(s, "default") \cup ListDirect(s, "archived") \subseteq Has(s)
        BY DEF ListDirect, Has
    <2> QED
        BY <2>1, ListsStand
<1>2. News' = News
    <2>1. ListBroadcast(s, "default") \cup ListBroadcast(s, "archived") \subseteq Hears(s)
        BY DEF ListBroadcast, Hears
    <2> QED
        BY <2>1, ListsStand
<1> QED
    BY <1>1, <1>2, BadgeStands DEF Shown

\* The step lemmas: a subscriber whose rows a step touches is told.
Told(s) == Untouched(s) \/ Announced(s)'

LEMMA HintTells ==
    ASSUME NEW s, NEW targets \in hints', s \in targets
    PROVE  Told(s)
BY DEF Told, Announced

LEMMA CreateTells ==
    ASSUME DeliverInv, RowsInv', NEW s \in Subs, NEW r \in Requests, NEW hidden,
           \/ BeginCreate(r) \/ RollbackCreate(r)
           \/ CommitImmediate(r, hidden) \/ CommitScheduled(r)
    PROVE  Told(s)
<1>0. TypeOK /\ TypeOK' /\ Ids(r) \subseteq Notifs
    BY RequestFacts DEF DeliverInv, RowsInv
<1>1. CASE BeginCreate(r) \/ RollbackCreate(r)
    <2>1. Ids(r) \cap stored = {}
        BY <1>1 DEF BeginCreate, RollbackCreate, DeliverInv, RowsInv, OpenUnstored
    <2>2. /\ \A n \in stored : n \in Notifs => visible_at'[n] = visible_at[n]
          /\ UNCHANGED <<now, stored, read_at, unread_at, archived_at, unarchived_at, counters,
                         broadcastVars, overrideVars, fixedVars>>
        BY <1>1, <2>1 DEF BeginCreate, RollbackCreate
    <2>3. Untouched(s)
        BY <2>2 DEF Untouched, Has, Hears, Visible, BroadcastVisible, broadcastVars, overrideVars,
                    fixedVars
    <2> QED
        BY <2>3 DEF Told
<1>2. CASE CommitImmediate(r, hidden)
    <2>1. CASE s \in Recipients(r)
        BY <1>2, <2>1, HintTells DEF CommitImmediate
    <2>2. CASE s \notin Recipients(r)
        <3>1. \A n \in Ids(r) : subscriber_id[n] # s
            BY <2>2 DEF Recipients
        <3>2. /\ WatermarksStand
              /\ counters'[s].unread = counters[s].unread
              /\ counters'[s].unseen = counters[s].unseen
            <4>1. One(FALSE) = 0 /\ counters[s].unread \in Nat /\ counters[s].unseen \in Nat
                BY <1>0, TimesAreIntegers DEF One
            <4>2. /\ (\E n \in Ids(r) : subscriber_id[n] = s /\ CreateUnread(n, hidden)) <=> FALSE
                  /\ (\E n \in Ids(r) : subscriber_id[n] = s /\ CreateUnseen(n, hidden)) <=> FALSE
                BY <3>1
            <4> QED
                BY <1>0, <1>2, <4>1, <4>2, CommitFields DEF One
        <3>3. /\ UNCHANGED <<now, rowVars, broadcastVars, overrideVars, fixedVars>>
              /\ stored' = stored \cup Ids(r)
            BY <1>2 DEF CommitImmediate
        <3>4. Untouched(s)
            BY <3>1, <3>2, <3>3
               DEF Untouched, WatermarksStand, Has, Hears, Visible, BroadcastVisible, rowVars,
                   broadcastVars, overrideVars, fixedVars
        <3> QED
            BY <3>4 DEF Told
    <2> QED
        BY <2>1, <2>2
<1>3. CASE CommitScheduled(r)
    <2>1. /\ UNCHANGED <<now, rowVars, counters, broadcastVars, overrideVars, fixedVars>>
          /\ stored' = stored \cup Ids(r) /\ jobs' = jobs \cup {r} /\ r \in creating
        BY <1>3 DEF CommitScheduled
    <2>2. /\ \A n \in Ids(r) : visible_at[n] = RunAt(r)
          /\ RunAt(r)' = RunAt(r) /\ Recipients(r)' = Recipients(r)
        BY <2>1 DEF DeliverInv, RunAt, Recipients, rowVars, fixedVars
    <2>3. CASE s \in Recipients(r) /\ RunAt(r) <= now
        BY <2>1, <2>2, <2>3 DEF Told, Announced
    <2>4. CASE s \notin Recipients(r) \/ ~(RunAt(r) <= now)
        <3>1. \A n \in Ids(r) : subscriber_id[n] # s \/ ~(visible_at[n] <= now)
            BY <2>2, <2>4 DEF Recipients
        <3>2. Has(s)' = Has(s)
            BY <2>1, <3>1 DEF Has, Visible, rowVars, fixedVars
        <3>3. Untouched(s)
            BY <2>1, <3>2
               DEF Untouched, Hears, BroadcastVisible, rowVars, broadcastVars, overrideVars,
                   fixedVars
        <3> QED
            BY <3>3 DEF Told
    <2> QED
        BY <2>3, <2>4
<1> QED
    BY <1>1, <1>2, <1>3

LEMMA BroadcastTells ==
    ASSUME DeliverInv, RowsInv', NEW s \in Subs, NEW b \in Broadcasts,
           BeginBroadcast(b) \/ CommitBroadcast(b) \/ RollbackBroadcast(b)
    PROVE  Told(s)
<1>1. CASE CommitBroadcast(b)
    BY <1>1, HintTells DEF CommitBroadcast
<1>2. CASE BeginBroadcast(b) \/ RollbackBroadcast(b)
    <2>1. b \notin announced
        BY <1>2 DEF BeginBroadcast, RollbackBroadcast, DeliverInv, RowsInv, OpenUnstored
    <2>2. /\ \A c \in announced : created_at'[c] = created_at[c]
          /\ UNCHANGED <<now, createVars, rowVars, counters, announced, overrideVars, fixedVars>>
        BY <1>2, <2>1
           DEF BeginBroadcast, RollbackBroadcast, DeliverInv, RowsInv, TypeOK
    <2>3. Untouched(s)
        BY <2>2
           DEF Untouched, Has, Hears, Visible, BroadcastVisible, createVars, rowVars,
               overrideVars, fixedVars
    <2> QED
        BY <2>3 DEF Told
<1> QED
    BY <1>1, <1>2

LEMMA WorkerTells ==
    ASSUME DeliverInv, RowsInv', NEW s \in Subs, Worker
    PROVE  Told(s)
<1>0. TypeOK
    BY DEF DeliverInv, RowsInv
<1>1. ASSUME NEW targets \in hints, PublishHint(targets)
      PROVE  Untouched(s)
    BY <1>1
       DEF PublishHint, Untouched, Has, Hears, Visible, BroadcastVisible, createVars, rowVars,
           broadcastVars, overrideVars, fixedVars
<1>2. ASSUME NEW r \in Requests, ProcessDeliver(r)
      PROVE  Told(s)
    <2>1. /\ UNCHANGED <<now, createVars, rowVars, broadcastVars, overrideVars, fixedVars>>
          /\ r \in jobs /\ RunAt(r) <= now
          /\ RunAt(r)' = RunAt(r) /\ Recipients(r)' = Recipients(r)
        BY <1>2 DEF ProcessDeliver, RunAt, Recipients, rowVars, fixedVars
    <2>2. CASE s \in Recipients(r)
        <3>1. CASE jobs' = jobs
            BY <2>1, <2>2, <3>1 DEF Told, Announced
        <3>2. CASE hints' = hints \cup {Recipients(r)}
            BY <2>2, <3>2, HintTells
        <3> QED
            BY <1>2, <3>1, <3>2 DEF ProcessDeliver
    <2>3. CASE s \notin Recipients(r)
        <3> DEFINE A == {n \in Chunk(r) : subscriber_id[n] = s /\ DeliverUnread(n)}
                   B == {n \in Chunk(r) : subscriber_id[n] = s /\ DeliverUnseen(n)}
        <3>1. A = {} /\ B = {}
            BY <2>3, ChunkType DEF Recipients
        <3>2. /\ WatermarksStand
              /\ counters'[s].unread = counters[s].unread + Cardinality(A)
              /\ counters'[s].unseen = counters[s].unseen + Cardinality(B)
            BY <1>0, <1>2, DeliverFields
        <3> HIDE DEF A, B
        <3>3. /\ WatermarksStand
              /\ counters'[s].unread = counters[s].unread
              /\ counters'[s].unseen = counters[s].unseen
            BY <1>0, <3>1, <3>2, TimesAreIntegers, FS_EmptySet
        <3>4. Untouched(s)
            BY <2>1, <3>3
               DEF Untouched, WatermarksStand, Has, Hears, Visible, BroadcastVisible, createVars,
                   rowVars, broadcastVars, overrideVars, fixedVars
        <3> QED
            BY <3>4 DEF Told
    <2> QED
        BY <2>2, <2>3
<1> QED
    BY <1>1, <1>2 DEF Worker, Told

\* A row whose time has just come belongs to a deliver job that is now due.
LEMMA TickTells ==
    ASSUME DeliverInv, NEW s \in Subs, Tick
    PROVE  Told(s)
<1>1. /\ UNCHANGED <<createVars, rowVars, counters, jobVars, broadcastVars, overrideVars,
                     fixedVars, hints>>
      /\ now \in Int /\ now' = now + 1
      /\ \A n \in Notifs : visible_at[n] \in Int
    BY TimesAreIntegers DEF Tick, DeliverInv, RowsInv
<1>2. CASE \E n \in Notifs : n \in stored /\ subscriber_id[n] = s /\ visible_at[n] = now'
    <2>1. PICK n \in Notifs : n \in stored /\ subscriber_id[n] = s /\ visible_at[n] = now'
        BY <1>2
    <2>2. PendingDeliver(n)
        BY <1>1, <2>1 DEF DeliverInv
    <2>3. PICK r \in jobs : n \in Ids(r)
        BY <2>2 DEF PendingDeliver, Ids
    <2>4. RunAt(r)' = now' /\ Recipients(r)' = Recipients(r) /\ s \in Recipients(r)
        BY <1>1, <2>1, <2>3 DEF DeliverInv, RunAt, Recipients, rowVars, fixedVars
    <2>5. r \in jobs' /\ RunAt(r)' <= now'
        BY <1>1, <2>4 DEF jobVars
    <2> QED
        BY <2>4, <2>5 DEF Told, Announced
<1>3. CASE ~ \E n \in Notifs : n \in stored /\ subscriber_id[n] = s /\ visible_at[n] = now'
    <2>1. Has(s)' = Has(s)
        BY <1>1, <1>3 DEF Has, Visible, createVars, rowVars, fixedVars
    <2>2. Untouched(s)
        BY <1>1, <2>1
           DEF Untouched, Hears, BroadcastVisible, rowVars, broadcastVars, overrideVars, fixedVars
    <2> QED
        BY <2>2 DEF Told
<1> QED
    BY <1>2, <1>3

\* An action of one subscriber tells that subscriber, and touches nobody else.
LEMMA ItemTells ==
    ASSUME DeliverInv, NEW n \in Notifs,
           \/ MarkNotificationRead(n) \/ MarkNotificationUnread(n)
           \/ ArchiveNotification(n) \/ UnarchiveNotification(n),
           NEW t \in Subs
    PROVE  Told(t)
<1> DEFINE s == subscriber_id[n]
<1>0. /\ TypeOK /\ s \in Subs
      /\ UNCHANGED <<now, createVars, visible_at, broadcastVars, overrideVars, fixedVars>>
      /\ hints' = hints \cup {{s}}
    BY DEF MarkNotificationRead, MarkNotificationUnread, ArchiveNotification,
           UnarchiveNotification, DeliverInv, RowsInv, TypeOK
<1>1. CASE t = s
    BY <1>0, <1>1, HintTells
<1>2. CASE t # s
    <2>1. /\ counters'[t].unread = counters[t].unread
          /\ counters'[t].unseen = counters[t].unseen
          /\ WatermarksStand
        <3>1. PICK p : counters' = Plus(s, p) \/ counters' = Minus(s, p)
            BY DEF MarkNotificationRead, MarkNotificationUnread, ArchiveNotification,
                   UnarchiveNotification
        <3>2. ASSUME counters' = Plus(s, p)
              PROVE  /\ counters'[t].unread = counters[t].unread
                     /\ counters'[t].unseen = counters[t].unseen
                     /\ WatermarksStand
            BY <1>0, <1>2, <3>2, PlusFields
        <3>3. ASSUME counters' = Minus(s, p)
              PROVE  /\ counters'[t].unread = counters[t].unread
                     /\ counters'[t].unseen = counters[t].unseen
                     /\ WatermarksStand
            BY <1>0, <1>2, <3>3, MinusFields
        <3> QED
            BY <3>1, <3>2, <3>3
    <2>2. \A m \in Has(t) : m # n
        BY <1>2 DEF Has
    <2>3. \A m : m # n => /\ m \in read_at' <=> m \in read_at
                          /\ m \in unread_at' <=> m \in unread_at
                          /\ m \in archived_at' <=> m \in archived_at
                          /\ m \in unarchived_at' <=> m \in unarchived_at
        BY DEF MarkNotificationRead, MarkNotificationUnread, ArchiveNotification,
               UnarchiveNotification, OverrideBelow
    <2>4. Untouched(t)
        BY <1>0, <2>1, <2>2, <2>3
           DEF Untouched, WatermarksStand, Has, Hears, Visible, BroadcastVisible, createVars,
               broadcastVars, overrideVars, fixedVars
    <2> QED
        BY <2>4 DEF Told
<1> QED
    BY <1>1, <1>2

LEMMA FlipTells ==
    ASSUME DeliverInv, NEW s \in Subs, NEW b \in Broadcasts, NEW on \in BOOLEAN,
           FlipBroadcastRead(s, b, on) \/ FlipBroadcastArchive(s, b, on),
           NEW t \in Subs
    PROVE  Told(t)
<1>1. CASE t = s
    <2>1. hints' = hints \cup {{s}}
        BY DEF FlipBroadcastRead, FlipBroadcastArchive
    <2> QED
        BY <1>1, <2>1, HintTells
<1>2. CASE t # s
    <2>1. /\ UNCHANGED <<now, createVars, rowVars, counters, broadcastVars, fixedVars>>
          /\ broadcast_reads \in [Subs \X Broadcasts -> Override]
          /\ broadcast_archives \in [Subs \X Broadcasts -> Override]
        BY DEF FlipBroadcastRead, FlipBroadcastArchive, DeliverInv, RowsInv, TypeOK
    <2>2. \A c \in Broadcasts : /\ broadcast_reads'[t, c] = broadcast_reads[t, c]
                                /\ broadcast_archives'[t, c] = broadcast_archives[t, c]
        BY <1>2, <2>1 DEF FlipBroadcastRead, FlipBroadcastArchive
    <2>3. Hears(t) \subseteq Broadcasts
        BY DEF Hears
    <2>4. Untouched(t)
        BY <2>1, <2>2, <2>3
           DEF Untouched, Has, Hears, Visible, BroadcastVisible, createVars, rowVars,
               broadcastVars, fixedVars
    <2> QED
        BY <2>4 DEF Told
<1> QED
    BY <1>1, <1>2

LEMMA WholeInboxTells ==
    ASSUME DeliverInv, PromiseInv, NEW s \in Subs,
           MarkAllRead(s) \/ MarkAllSeen(s) \/ ArchiveAll(s),
           NEW t \in Subs
    PROVE  Told(t)
<1>1. CASE t = s
    <2>1. hints' = hints \cup {{s}}
        BY DEF MarkAllRead, MarkAllSeen, ArchiveAll
    <2> QED
        BY <1>1, <2>1, HintTells
<1>2. CASE t # s
    <2>1. muted' = muted
        BY DEF MarkAllRead, MarkAllSeen, ArchiveAll, fixedVars
    <2>2. /\ \A n \in Has(t) : n \in Notifs /\ subscriber_id[n] # s
          /\ Hears(t) \subseteq Broadcasts
        BY <1>2 DEF Has, Hears
    <2>3. Untouched(t)
        BY <1>2, <2>1, <2>2, WholeInboxFrame DEF Untouched
    <2> QED
        BY <2>3 DEF Told
<1> QED
    BY <1>1, <1>2

LEMMA StepTells ==
    ASSUME DeliverInv, PromiseInv, Next, NEW t \in Subs
    PROVE  Told(t)
<1>0. RowsInv'
    BY RowsStep DEF DeliverInv
<1>1. CASE Tick
    BY <1>1, TickTells
<1>2. CASE Management
    BY <1>0, <1>2, CreateTells, BroadcastTells DEF Management
<1>3. CASE Worker
    BY <1>0, <1>3, WorkerTells
<1>4. CASE Subscriber
    <2> SUFFICES ASSUME NEW s \in Subs,
                        \/ MarkAllRead(s) \/ MarkAllSeen(s) \/ ArchiveAll(s)
                        \/ \E n \in Notifs :
                              \/ MarkNotificationRead(n) \/ MarkNotificationUnread(n)
                              \/ ArchiveNotification(n) \/ UnarchiveNotification(n)
                        \/ \E b \in Broadcasts, on \in BOOLEAN :
                              FlipBroadcastRead(s, b, on) \/ FlipBroadcastArchive(s, b, on)
                 PROVE  Told(t)
        BY <1>4, BoundsAssumption DEF Subscriber, MarkBroadcastRead, MarkBroadcastUnread,
           ArchiveBroadcast, UnarchiveBroadcast, BoundsAssumption
    <2> QED
        BY ItemTells, FlipTells, WholeInboxTells
<1> QED
    BY <1>1, <1>2, <1>3, <1>4 DEF Next

\* A client that refetches on every hint misses nothing.  Whatever changes what
\* a subscriber is shown, the passing of time included, leaves a hint for them
\* queued, or a due deliver job that queues one when it is done (the hint rows
\* every handler inserts; process_deliver).
THEOREM ChangesAreHinted == Spec => HintsCoverChanges
<1>1. Init => DeliverInv /\ PromiseInv
    BY DeliverInit, PromiseInvInit
<1>2. DeliverInv /\ PromiseInv /\ [Next]_vars => DeliverInv' /\ PromiseInv'
    BY DeliverStep, PromiseInvStep
<1>3. DeliverInv /\ PromiseInv /\ [Next]_vars
        => [\A s \in Subs : Shown(s)' # Shown(s) => Announced(s)']_vars
    <2> SUFFICES ASSUME DeliverInv, PromiseInv, Next, NEW s \in Subs, Shown(s)' # Shown(s)
                 PROVE  Announced(s)'
        OBVIOUS
    <2>1. TypeOK /\ TypeOK'
        BY TypeStep DEF DeliverInv, RowsInv
    <2> QED
        BY <2>1, StepTells, UntouchedShown DEF Told
<1> QED
    BY <1>1, <1>2, <1>3, PTL DEF Spec, HintsCoverChanges
----------------------------------------------------------------------------
(***************************************************************************)
(* An archive-read job forgets nothing.  What is owed is ahead of the      *)
(* cursor of one of the jobs that owe it (OwedAhead).  A chunk takes the   *)
(* first rows ahead of the cursor and archives what is read among them;    *)
(* what it leaves comes after the cursor it saves, and it saves none only  *)
(* when it leaves nothing.                                                 *)
(***************************************************************************)

----------------------------------------------------------------------------
(* The keyset order *)

Keys == Nat \X Nat

LEMMA AfterIsOrder ==
    /\ \A p, q, r \in Keys : After(p, q) /\ After(q, r) => After(p, r)
    /\ \A p \in Keys : ~After(p, p)
    /\ \A p, q \in Keys : p = q \/ After(p, q) \/ After(q, p)
<1> DEFINE Later(a, b, c, d) == a > c \/ (a = c /\ b > d)
<1>1. \A p \in Keys : p[1] \in Nat /\ p[2] \in Nat /\ p = <<p[1], p[2]>>
    BY DEF Keys
<1>2. \A p, q \in Keys : After(p, q) <=> Later(p[1], p[2], q[1], q[2])
    BY DEF After
<1>3. \A a, b, c, d, e, f \in Nat :
          Later(a, b, c, d) /\ Later(c, d, e, f) => Later(a, b, e, f)
    OBVIOUS
<1>4. \A a, b, c, d \in Nat : (a = c /\ b = d) \/ Later(a, b, c, d) \/ Later(c, d, a, b)
    OBVIOUS
<1>5. \A a, b \in Nat : ~Later(a, b, a, b)
    OBVIOUS
<1> HIDE DEF Later
<1>6. ASSUME NEW p \in Keys, NEW q \in Keys, NEW r \in Keys, After(p, q), After(q, r)
      PROVE  After(p, r)
    BY <1>1, <1>2, <1>3, <1>6
<1>7. ASSUME NEW p \in Keys, NEW q \in Keys
      PROVE  p = q \/ After(p, q) \/ After(q, p)
    <2>1. p[1] = q[1] /\ p[2] = q[2] => p = q
        BY <1>1
    <2> QED
        BY <1>1, <1>2, <1>4, <2>1
<1>8. ASSUME NEW p \in Keys
      PROVE  ~After(p, p)
    BY <1>1, <1>2, <1>5
<1> QED
    BY <1>6, <1>7, <1>8

\* A strict order of a finite set has a first element.
LEMMA FirstOf ==
    ASSUME NEW S, IsFiniteSet(S), S # {}, NEW R,
           \A x, y, z \in S : <<x, y>> \in R /\ <<y, z>> \in R => <<x, z>> \in R,
           \A x \in S : <<x, x>> \notin R
    PROVE  \E x \in S : \A y \in S : <<y, x>> \notin R
<1> DEFINE Before(x) == {y \in S : <<y, x>> \in R}
           T == {Before(x) : x \in S}
<1>1. T \subseteq FiniteSubsetsOf(S) /\ T # {}
    <2>1. FiniteSubsetsOf(S) = SUBSET S
        BY FS_FiniteSubsetsOfFinite, Zenon
    <2>2. \A x : Before(x) \in SUBSET S
        OBVIOUS
    <2> HIDE DEF Before
    <2>3. T \subseteq SUBSET S /\ T # {}
        BY <2>2
    <2> QED
        BY <2>1, <2>3
<1>2. IsWellFoundedOn(StrictSubsetOrdering(S), FiniteSubsetsOf(S))
    BY FS_StrictSubsetOrderingWellFounded
<1>3. PICK B \in T : \A C \in T : <<C, B>> \notin StrictSubsetOrdering(S)
    <2> HIDE DEF T
    <2> QED
        BY <1>1, <1>2, WFMin
<1>4. PICK x \in S : B = Before(x)
    OBVIOUS
<1>5. ASSUME NEW y \in S, <<y, x>> \in R
      PROVE  FALSE
    <2>1. Before(y) \subseteq Before(x) /\ y \in Before(x) /\ y \notin Before(y)
        BY <1>5
    <2>2. Before(y) \in T /\ Before(y) \in SUBSET S /\ Before(x) \in SUBSET S
        OBVIOUS
    <2> HIDE DEF Before, T
    <2>3. <<Before(y), Before(x)>> \in StrictSubsetOrdering(S)
        BY <2>1, <2>2 DEF StrictSubsetOrdering
    <2> QED
        BY <1>3, <1>4, <2>2, <2>3
<1> QED
    BY <1>5

LEMMA FirstKey ==
    ASSUME NEW W \in SUBSET Keys, IsFiniteSet(W), W # {}
    PROVE  \E f \in W : \A p \in W : ~After(f, p)
<1> DEFINE R == {c \in W \X W : After(c[2], c[1])}
<1>1. \A x, y \in W : <<x, y>> \in R <=> After(y, x)
    OBVIOUS
<1> HIDE DEF R
<1>2. /\ \A x, y, z \in W : <<x, y>> \in R /\ <<y, z>> \in R => <<x, z>> \in R
      /\ \A x \in W : <<x, x>> \notin R
    BY <1>1, AfterIsOrder
<1>3. PICK f \in W : \A y \in W : <<y, f>> \notin R
    BY <1>2, FirstOf
<1> QED
    BY <1>1, <1>3

LEMMA LastKey ==
    ASSUME NEW W \in SUBSET Keys, IsFiniteSet(W), W # {}
    PROVE  Last(W) \in W /\ \A p \in W : p = Last(W) \/ After(Last(W), p)
<1> DEFINE R == {c \in W \X W : After(c[1], c[2])}
<1>1. \A x, y \in W : <<x, y>> \in R <=> After(x, y)
    OBVIOUS
<1> HIDE DEF R
<1>2. /\ \A x, y, z \in W : <<x, y>> \in R /\ <<y, z>> \in R => <<x, z>> \in R
      /\ \A x \in W : <<x, x>> \notin R
    BY <1>1, AfterIsOrder
<1>3. PICK l \in W : \A y \in W : <<y, l>> \notin R
    BY <1>2, FirstOf
<1>4. \A p \in W \ {l} : After(l, p)
    BY <1>1, <1>3, AfterIsOrder
<1>5. /\ (CHOOSE p \in W : \A q \in W \ {p} : After(p, q)) \in W
      /\ \A q \in W \ {CHOOSE p \in W : \A r \in W \ {p} : After(p, r)} :
             After(CHOOSE p \in W : \A r \in W \ {p} : After(p, r), q)
    BY <1>4
<1>6. Last(W) \in W /\ \A q \in W \ {Last(W)} : After(Last(W), q)
    BY <1>5 DEF Last
<1> QED
    BY <1>6

\* A chunk holds the first keys of its window; it is full if it leaves any, and
\* what it leaves comes after its last key.
LEMMA ChunkTakesFirst ==
    ASSUME NEW W \in SUBSET Keys, IsFiniteSet(W),
           NEW p \in W, p \notin FirstChunk(W)
    PROVE  /\ Full(FirstChunk(W))
           /\ Last(FirstChunk(W)) \in W
           /\ After(p, Last(FirstChunk(W)))
<1> DEFINE Prior(q) == {r \in W : After(q, r)}
           rest == W \ FirstChunk(W)
<1>1. ASSUME NEW q \in W
      PROVE  /\ Prior(q) \in SUBSET W /\ IsFiniteSet(Prior(q))
             /\ Cardinality(Prior(q)) \in Nat
             /\ q \in FirstChunk(W) <=> Cardinality(Prior(q)) < ArchiveChunk
    <2>1. Prior(q) \in SUBSET W
        OBVIOUS
    <2>2. q \in FirstChunk(W) <=> Cardinality(Prior(q)) < ArchiveChunk
        BY DEF FirstChunk
    <2> HIDE DEF Prior
    <2>3. IsFiniteSet(Prior(q))
        BY <2>1, FS_Subset
    <2> QED
        BY <2>1, <2>2, <2>3, FS_CardinalityType
<1>2. \A q, r : r \in Prior(q) <=> r \in W /\ After(q, r)
    OBVIOUS
<1>3. FirstChunk(W) \in SUBSET W /\ rest \in SUBSET W /\ p \in rest
    BY DEF FirstChunk
<1>4. \A q \in W : q \in rest <=> q \notin FirstChunk(W)
    OBVIOUS
<1>5. ArchiveChunk \in Nat /\ ArchiveChunk > 0
    BY ArchiveAssumption DEF ArchiveAssumption
<1> DEFINE C == FirstChunk(W)
<1> HIDE DEF Prior, rest, C
<1>6. C \in SUBSET W /\ IsFiniteSet(C) /\ Cardinality(C) \in Nat /\ IsFiniteSet(rest)
    BY <1>3, FS_Subset, FS_CardinalityType DEF C
<1>8. ASSUME NEW q \in W, NEW r \in C, After(r, q)
      PROVE  q \in C
    <2>1. Prior(q) \in SUBSET Prior(r)
        <3>1. ASSUME NEW k \in Prior(q)
              PROVE  k \in Prior(r)
            BY <1>2, <1>6, <1>8, AfterIsOrder
        <3> QED
            BY <3>1
    <2>2. Cardinality(Prior(q)) <= Cardinality(Prior(r))
        BY <1>1, <1>6, <2>1, FS_Subset
    <2> QED
        BY <1>1, <1>5, <1>6, <2>2 DEF C
<1>9. \A q \in rest, r \in C : After(q, r)
    BY <1>3, <1>4, <1>6, <1>8, AfterIsOrder DEF C
<1>10. Cardinality(C) >= ArchiveChunk
    <2>1. PICK f \in rest : \A q \in rest : ~After(f, q)
        BY <1>3, <1>6, FirstKey
    <2>2. Prior(f) \in SUBSET C
        BY <1>2, <1>4, <2>1 DEF C
    <2>3. Cardinality(Prior(f)) <= Cardinality(C)
        BY <1>6, <2>2, FS_Subset
    <2> QED
        BY <1>1, <1>3, <1>4, <1>5, <1>6, <2>1, <2>3
<1>11. C # {}
    BY <1>5, <1>10, FS_EmptySet
<1>12. Last(C) \in C /\ \A q \in C : q = Last(C) \/ After(Last(C), q)
    BY <1>6, <1>11, LastKey
<1>13. Cardinality(C) <= ArchiveChunk
    <2>1. \A q \in C \ {Last(C)} : q \in Prior(Last(C))
        BY <1>2, <1>6, <1>12
    <2>2. C \ {Last(C)} \in SUBSET Prior(Last(C))
        BY <2>1
    <2>3. Cardinality(C \ {Last(C)}) <= Cardinality(Prior(Last(C)))
        BY <1>1, <1>6, <1>12, <2>2, FS_Subset
    <2>4. \A l \in C : Cardinality(C \ {l}) = Cardinality(C) - 1
        BY <1>6, FS_RemoveElement
    <2>5. Cardinality(Prior(Last(C))) < ArchiveChunk /\ Cardinality(Prior(Last(C))) \in Nat
        BY <1>1, <1>6, <1>12 DEF C
    <2> QED
        BY <1>5, <1>6, <1>12, <2>3, <2>4, <2>5
<1>14. Full(C)
    BY <1>5, <1>6, <1>10, <1>13 DEF Full
<1> QED
    BY <1>3, <1>6, <1>9, <1>12, <1>14 DEF C

LEMMA FullHasLast ==
    ASSUME NEW W \in SUBSET Keys, IsFiniteSet(W), Full(FirstChunk(W))
    PROVE  Last(FirstChunk(W)) \in W
<1>1. FirstChunk(W) \in SUBSET W
    BY DEF FirstChunk
<1>2. Cardinality(FirstChunk(W)) # 0
    BY ArchiveAssumption DEF Full, ArchiveAssumption
<1>3. FirstChunk(W) # {} /\ IsFiniteSet(FirstChunk(W))
    BY <1>1, <1>2, FS_EmptySet, FS_Subset
<1> QED
    BY <1>1, <1>3, LastKey

----------------------------------------------------------------------------
(* What the core leaves: committed items keep their position *)

LEMMA OpenStays ==
    ASSUME TypeOK, OpenUnstored, [Next]_vars
    PROVE  OpenUnstored'
<1> USE DEF OpenUnstored
<1>1. ASSUME NEW r \in Requests, BeginCreate(r)
      PROVE  OpenUnstored'
    BY <1>1 DEF BeginCreate, broadcastVars
<1>2. ASSUME NEW r \in Requests, CommitImmediate(r, muted) \/ CommitScheduled(r)
      PROVE  OpenUnstored'
    <2>1. /\ creating' = creating \ {r} /\ stored' = stored \cup Ids(r)
          /\ announcing' = announcing /\ announced' = announced
        BY <1>2 DEF CommitImmediate, CommitScheduled, broadcastVars
    <2>2. \A q \in creating' : q \in Requests /\ q # r
        BY <2>1 DEF TypeOK
    <2> QED
        BY <2>1, <2>2, RequestsAssumption DEF RequestsAssumption
<1>3. ASSUME NEW r \in Requests, RollbackCreate(r)
      PROVE  OpenUnstored'
    BY <1>3 DEF RollbackCreate, broadcastVars
<1>4. ASSUME NEW b \in Broadcasts, BeginBroadcast(b) \/ CommitBroadcast(b) \/ RollbackBroadcast(b)
      PROVE  OpenUnstored'
    BY <1>4 DEF BeginBroadcast, CommitBroadcast, RollbackBroadcast, createVars
<1>5. CASE UNCHANGED <<createVars, broadcastVars>>
    BY <1>5 DEF createVars, broadcastVars
<1>6. CASE Management
    BY <1>1, <1>2, <1>3, <1>4, <1>6 DEF Management
<1>7. CASE Worker
    BY <1>5, <1>7, WorkerLeaves
<1>8. CASE Subscriber
    BY <1>5, <1>8, SubscriberLeaves
<1>9. CASE Tick \/ UNCHANGED vars
    BY <1>5, <1>9 DEF Tick, vars
<1> QED
    BY <1>6, <1>7, <1>8, <1>9 DEF Next

LEMMA CommittedStays ==
    ASSUME TypeOK, OpenUnstored, [Next]_vars
    PROVE  /\ \A n \in stored : visible_at'[n] = visible_at[n]
           /\ \A b \in announced : created_at'[b] = created_at[b]
<1> DEFINE Keeps == /\ \A n \in stored : visible_at'[n] = visible_at[n]
                    /\ \A b \in announced : created_at'[b] = created_at[b]
<1>0. \A n \in stored : n \in Notifs
    BY DEF TypeOK
<1>1. ASSUME NEW r \in Requests, BeginCreate(r) \/ RollbackCreate(r)
      PROVE  Keeps
    BY <1>0, <1>1 DEF BeginCreate, RollbackCreate, broadcastVars, OpenUnstored
<1>2. ASSUME NEW b \in Broadcasts, BeginBroadcast(b) \/ RollbackBroadcast(b)
      PROVE  Keeps
    BY <1>2 DEF BeginBroadcast, RollbackBroadcast, rowVars, OpenUnstored, TypeOK
<1>3. CASE UNCHANGED <<visible_at, created_at>>
    BY <1>3
<1>4. CASE Management
    BY <1>1, <1>2, <1>3, <1>4
       DEF Management, CommitImmediate, CommitScheduled, CommitBroadcast, rowVars, broadcastVars
<1>5. CASE Worker
    BY <1>3, <1>5, WorkerLeaves DEF rowVars, broadcastVars
<1>6. CASE Subscriber
    BY <1>3, <1>6, SubscriberLeaves DEF broadcastVars
<1>7. CASE Tick \/ UNCHANGED vars
    BY <1>3, <1>7 DEF Tick, vars, rowVars, broadcastVars
<1> QED
    BY <1>4, <1>5, <1>6, <1>7 DEF Next

----------------------------------------------------------------------------
(* What is owed *)

\* The job has still to come to the item.
Ahead(i, job) ==
    \/ /\ i \in Notifs /\ job.phase = "direct"
       /\ visible_at[i] <= job.as_of /\ After(RowKey(i), job.after)
    \/ /\ i \in Broadcasts /\ created_at[i] <= job.as_of
       /\ job.phase = "broadcast" => After(BroadcastKey(i), job.after)

Owing(s, i) == \E job \in archive_jobs : job.subscriber = s /\ Ahead(i, job)

OwedAhead == \A s \in Subs : \A i \in owed[s] : i \in ReadNotArchived(s) /\ Owing(s, i)

ArchiveInv == ArchiveTypeOK /\ OpenUnstored /\ CreatedPast /\ OwedAhead

\* What is in the inbox is committed.
LEMMA InInbox ==
    ASSUME ArchiveTypeOK, NEW s \in Subs, NEW i \in ReadNotArchived(s)
    PROVE  \/ /\ i \in Notifs /\ i \notin Broadcasts /\ i \in stored /\ subscriber_id[i] = s
              /\ visible_at[i] <= now /\ Archives(i)
           \/ /\ i \in Broadcasts /\ i \notin Notifs /\ i \in announced
              /\ BroadcastVisible(s, i) /\ BroadcastRead(s, i) /\ ~BroadcastArchived(s, i)
BY SourcesAssumption DEF ReadNotArchived, Visible, Archives, BroadcastVisible

LEMMA KeyTypes ==
    ASSUME ArchiveTypeOK
    PROVE  /\ \A n \in Notifs : RowKey(n) \in Keys /\ After(RowKey(n), Start)
           /\ \A b \in Broadcasts : BroadcastKey(b) \in Keys /\ After(BroadcastKey(b), Start)
<1>1. \A i \in Notifs \cup Broadcasts : IdOrder[i] \in Nat /\ IdOrder[i] > 0
    BY ArchiveAssumption DEF ArchiveAssumption
<1>2. /\ \A n \in Notifs : visible_at[n] \in Nat
      /\ \A b \in Broadcasts : created_at[b] \in Nat
    BY BoundsAssumption DEF ArchiveTypeOK, TypeOK, Times, BoundsAssumption
<1> QED
    BY <1>1, <1>2 DEF RowKey, BroadcastKey, Keys, After, Start

\* Owed stays what is owed and not yet archived, and gains what is promised.
LEMMA OweKeeps ==
    ASSUME NEW promised, Owe(promised), NEW s \in Subs, NEW i \in owed'[s]
    PROVE  i \in ReadNotArchived(s)' /\ (i \in owed[s] \/ i \in promised[s])
BY DEF Owe

----------------------------------------------------------------------------
(* The steps *)

\* The keys of a window are positions, finitely many.
LEMMA WindowKeys ==
    ASSUME ArchiveTypeOK
    PROVE  /\ \A window \in SUBSET Notifs :
                /\ {RowKey(n) : n \in window} \in SUBSET Keys
                /\ {RowKey(n) : n \in window} \in SUBSET Position
                /\ IsFiniteSet({RowKey(n) : n \in window})
           /\ \A window \in SUBSET Broadcasts :
                /\ {BroadcastKey(b) : b \in window} \in SUBSET Keys
                /\ {BroadcastKey(b) : b \in window} \in SUBSET Position
                /\ IsFiniteSet({BroadcastKey(b) : b \in window})
<1>1. \A i \in Notifs \cup Broadcasts : IdOrder[i] \in Nat
    BY ArchiveAssumption DEF ArchiveAssumption
<1>2. Position \subseteq Keys
    BY BoundsAssumption DEF Position, Keys, Times, BoundsAssumption
<1>3. /\ \A n \in Notifs : RowKey(n) \in Position
      /\ \A b \in Broadcasts : BroadcastKey(b) \in Position
    BY <1>1 DEF ArchiveTypeOK, TypeOK, RowKey, BroadcastKey, Position
<1>4. ASSUME NEW window \in SUBSET Notifs
      PROVE  IsFiniteSet({RowKey(n) : n \in window})
    <2>1. IsFiniteSet(window)
        BY FiniteAssumption, FS_Subset DEF FiniteAssumption
    <2>2. [n \in window |-> RowKey(n)] \in Surjection(window, {RowKey(n) : n \in window})
        BY DEF Surjection
    <2> QED
        BY <2>1, <2>2, FS_Surjection
<1>5. ASSUME NEW window \in SUBSET Broadcasts
      PROVE  IsFiniteSet({BroadcastKey(b) : b \in window})
    <2>1. IsFiniteSet(window)
        BY FiniteAssumption, FS_Subset DEF FiniteAssumption
    <2>2. [b \in window |-> BroadcastKey(b)] \in Surjection(window, {BroadcastKey(b) : b \in window})
        BY DEF Surjection
    <2> QED
        BY <2>1, <2>2, FS_Surjection
<1> QED
    BY <1>2, <1>3, <1>4, <1>5

LEMMA OwedType ==
    ASSUME NEW promised, Owe(promised)
    PROVE  owed' \in [Subs -> SUBSET (Notifs \cup Broadcasts)]
<1>1. \A s \in Subs : ReadNotArchived(s)' \subseteq Notifs \cup Broadcasts
    BY DEF ReadNotArchived
<1> QED
    BY <1>1 DEF Owe

LEMMA ArchiveInvInit == ArchiveInit => ArchiveInv
<1> SUFFICES ASSUME ArchiveInit PROVE ArchiveInv
    OBVIOUS
<1>1. TypeOK
    BY TypeInit DEF ArchiveInit
<1>2. OpenUnstored /\ CreatedPast
    BY DEF ArchiveInit, Init, OpenUnstored, CreatedPast
<1>3. archive_jobs = {} /\ owed = [s \in Subs |-> {}]
    BY DEF ArchiveInit, NothingNew
<1>4. OwedAhead
    BY <1>3 DEF OwedAhead
<1>5. ArchiveTypeOK
    BY <1>1, <1>3 DEF ArchiveTypeOK
<1> QED
    BY <1>2, <1>4, <1>5 DEF ArchiveInv

\* A step of the core, or none.
LEMMA CoreOwes ==
    ASSUME ArchiveInv, [Next]_vars, UNCHANGED archive_jobs, NEW promised,
           promised = NothingNew, Owe(promised)
    PROVE  ArchiveInv'
<1> USE DEF ArchiveInv
<1>1. TypeOK /\ TypeOK' /\ OpenUnstored'
    BY TypeStep, OpenStays DEF ArchiveTypeOK
<1>2. CreatedPast'
    BY CreatedStep DEF ArchiveTypeOK
<1>3. ArchiveTypeOK'
    BY <1>1, OwedType DEF ArchiveTypeOK
<1>4. ASSUME NEW s \in Subs, NEW i \in owed'[s]
      PROVE  i \in ReadNotArchived(s)' /\ Owing(s, i)'
    <2>1. i \in ReadNotArchived(s)' /\ i \in owed[s]
        BY <1>4, OweKeeps DEF NothingNew
    <2>2. i \in ReadNotArchived(s) /\ Owing(s, i)
        BY <2>1 DEF OwedAhead
    <2>3. PICK job \in archive_jobs : job.subscriber = s /\ Ahead(i, job)
        BY <2>2 DEF Owing
    <2>4. Ahead(i, job)'
        <3>1. CASE i \in Notifs /\ i \notin Broadcasts /\ i \in stored
            <4>1. visible_at'[i] = visible_at[i]
                BY <1>1, <3>1, CommittedStays
            <4> QED
                BY <2>3, <3>1, <4>1 DEF Ahead, RowKey
        <3>2. CASE i \in Broadcasts /\ i \notin Notifs /\ i \in announced
            <4>1. created_at'[i] = created_at[i]
                BY <1>1, <3>2, CommittedStays
            <4> QED
                BY <2>3, <3>2, <4>1 DEF Ahead, BroadcastKey
        <3> QED
            BY <2>2, <3>1, <3>2, InInbox
    <2>5. Owing(s, i)'
        BY <2>3, <2>4 DEF Owing
    <2> QED
        BY <2>1, <2>5
<1>5. OwedAhead'
    BY <1>4 DEF OwedAhead
<1> QED
    BY <1>1, <1>2, <1>3, <1>5

LEMMA RequestOwes ==
    ASSUME ArchiveInv, NEW s \in Subs, RequestArchiveRead(s)
    PROVE  ArchiveInv'
<1> USE DEF ArchiveInv
<1>0. PICK new : new = [subscriber |-> s, as_of |-> now, phase |-> "direct", after |-> Start]
    OBVIOUS
<1>1. /\ archive_jobs' = archive_jobs \cup {new} /\ UNCHANGED vars
      /\ Owe([NothingNew EXCEPT ![s] = ReadNotArchived(s)])
    BY <1>0 DEF RequestArchiveRead
<1>2. PICK promised : promised = [NothingNew EXCEPT ![s] = ReadNotArchived(s)]
    OBVIOUS
<1>3. /\ Owe(promised) /\ promised[s] = ReadNotArchived(s)
      /\ \A t \in Subs : t # s => promised[t] = {}
    BY <1>1, <1>2 DEF NothingNew
<1>4. TypeOK' /\ OpenUnstored' /\ CreatedPast'
    <2>1. TypeOK' /\ OpenUnstored'
        BY <1>1, TypeStep, OpenStays DEF ArchiveTypeOK
    <2> QED
        BY <1>1, <2>1 DEF vars, broadcastVars, CreatedPast
<1>5. ArchiveTypeOK'
    <2>1. now \in Times /\ Start \in Position
        BY BoundsAssumption DEF ArchiveTypeOK, TypeOK, Start, Position, Times, BoundsAssumption
    <2>2. new \in ArchiveJob
        BY <1>0, <2>1 DEF ArchiveJob
    <2> QED
        BY <1>1, <1>3, <1>4, <2>2, OwedType DEF ArchiveTypeOK
<1>6. ASSUME NEW t \in Subs, NEW i \in owed'[t]
      PROVE  i \in ReadNotArchived(t)' /\ Owing(t, i)'
    <2>1. i \in ReadNotArchived(t)' /\ (i \in owed[t] \/ i \in promised[t])
        BY <1>3, <1>6, OweKeeps
    <2>2. CASE i \in owed[t]
        <3>1. PICK job \in archive_jobs : job.subscriber = t /\ Ahead(i, job)
            BY <2>2 DEF OwedAhead, Owing
        <3>2. Ahead(i, job)'
            BY <1>1, <3>1 DEF Ahead, RowKey, BroadcastKey, vars, rowVars, broadcastVars
        <3> QED
            BY <1>1, <2>1, <3>1, <3>2 DEF Owing
    <2>3. CASE i \in promised[t]
        <3>1. t = s /\ i \in ReadNotArchived(s)
            BY <1>3, <2>3
        <3>2. Ahead(i, new)'
            <4>1. /\ UNCHANGED <<visible_at, created_at>> /\ new.subscriber = s
                  /\ new.phase = "direct" /\ new.as_of = now /\ new.after = Start
                BY <1>0, <1>1 DEF vars, rowVars, broadcastVars
            <4>2. CASE i \in Notifs /\ visible_at[i] <= now
                BY <4>1, <4>2, KeyTypes DEF Ahead, RowKey
            <4>3. CASE i \in Broadcasts
                BY <4>1, <4>3 DEF Ahead, CreatedPast
            <4> QED
                BY <3>1, <4>2, <4>3, InInbox
        <3>3. new \in archive_jobs' /\ new.subscriber = t
            BY <1>0, <1>1, <3>1
        <3> QED
            BY <2>1, <3>2, <3>3 DEF Owing
    <2> QED
        BY <2>1, <2>2, <2>3
<1>7. OwedAhead'
    BY <1>6 DEF OwedAhead
<1> QED
    BY <1>4, <1>5, <1>7

\* A job that moves on leaves the others where they are.
LEMMA OthersStay ==
    ASSUME NEW job \in archive_jobs, archive_jobs \ {job} \subseteq archive_jobs',
           UNCHANGED <<visible_at, created_at>>,
           NEW i, NEW other \in archive_jobs, other # job, Ahead(i, other)
    PROVE  Owing(other.subscriber, i)'
<1>1. other \in archive_jobs' /\ Ahead(i, other)'
    BY DEF Ahead, RowKey, BroadcastKey
<1> QED
    BY <1>1 DEF Owing

LEMMA DirectOwes ==
    ASSUME ArchiveInv, NEW job \in archive_jobs, ArchiveDirectChunk(job)
    PROVE  ArchiveInv'
<1> USE DEF ArchiveInv
<1> DEFINE s      == job.subscriber
           window == {n \in stored : /\ subscriber_id[n] = s
                                     /\ visible_at[n] <= job.as_of
                                     /\ After(RowKey(n), job.after)}
           keys   == {RowKey(n) : n \in window}
           hit    == {n \in window : RowKey(n) \in FirstChunk(keys) /\ Archives(n)}
<1>1. /\ job.phase = "direct"
      /\ archived_at' = archived_at \cup hit
      /\ unarchived_at' = unarchived_at \ hit
      /\ IF Full(FirstChunk(keys))
         THEN Advance(job, "direct", Last(FirstChunk(keys)))
         ELSE Advance(job, "broadcast", Start)
      /\ UNCHANGED <<now, createVars, visible_at, read_at, unread_at, counters,
                     jobVars, broadcastVars, overrideVars, fixedVars, hints>>
      /\ Owe(NothingNew)
    BY DEF ArchiveDirectChunk
<1>2. /\ window \in SUBSET Notifs /\ hit \in SUBSET Notifs
      /\ \A n : n \in window <=> /\ n \in stored /\ subscriber_id[n] = s
                                 /\ visible_at[n] <= job.as_of
                                 /\ After(RowKey(n), job.after)
      /\ \A n : n \in hit <=> n \in window /\ RowKey(n) \in FirstChunk(keys) /\ Archives(n)
      /\ \A n \in window : RowKey(n) \in keys
    BY DEF ArchiveTypeOK, TypeOK
<1>3. keys \in SUBSET Keys /\ keys \in SUBSET Position /\ IsFiniteSet(keys)
    BY <1>2, WindowKeys
<1>4. job \in ArchiveJob
    BY DEF ArchiveTypeOK
<1> HIDE DEF window, keys, hit
<1>5. PICK next :
          /\ archive_jobs' = (archive_jobs \ {job}) \cup {next}
          /\ next \in ArchiveJob /\ next.subscriber = s /\ next.as_of = job.as_of
          /\ Full(FirstChunk(keys)) => next.phase = "direct" /\ next.after = Last(FirstChunk(keys))
          /\ ~Full(FirstChunk(keys)) => next.phase = "broadcast" /\ next.after = Start
    <2>1. CASE Full(FirstChunk(keys))
        <3>1. Last(FirstChunk(keys)) \in Position
            BY <1>3, <2>1, FullHasLast
        <3>2. PICK next : next = [job EXCEPT !.phase = "direct", !.after = Last(FirstChunk(keys))]
            OBVIOUS
        <3>3. archive_jobs' = (archive_jobs \ {job}) \cup {next}
            BY <1>1, <2>1, <3>2 DEF Advance
        <3>4. /\ next \in ArchiveJob /\ next.subscriber = s /\ next.as_of = job.as_of
              /\ next.phase = "direct" /\ next.after = Last(FirstChunk(keys))
            BY <1>4, <3>1, <3>2 DEF ArchiveJob
        <3> QED
            BY <2>1, <3>3, <3>4
    <2>2. CASE ~Full(FirstChunk(keys))
        <3>1. Start \in Position
            BY BoundsAssumption DEF Start, Position, Times, BoundsAssumption
        <3>2. PICK next : next = [job EXCEPT !.phase = "broadcast", !.after = Start]
            OBVIOUS
        <3>3. archive_jobs' = (archive_jobs \ {job}) \cup {next}
            BY <1>1, <2>2, <3>2 DEF Advance
        <3>4. /\ next \in ArchiveJob /\ next.subscriber = s /\ next.as_of = job.as_of
              /\ next.phase = "broadcast" /\ next.after = Start
            BY <1>4, <3>1, <3>2 DEF ArchiveJob
        <3> QED
            BY <2>2, <3>3, <3>4
    <2> QED
        BY <2>1, <2>2
<1>6. TypeOK' /\ OpenUnstored' /\ CreatedPast'
    BY <1>1, <1>2
       DEF ArchiveTypeOK, TypeOK, OpenUnstored, CreatedPast, createVars, jobVars,
           broadcastVars, overrideVars, fixedVars
<1>7. ArchiveTypeOK'
    <2>1. owed' \in [Subs -> SUBSET (Notifs \cup Broadcasts)]
        BY <1>1, OwedType
    <2> QED
        BY <1>5, <1>6, <2>1 DEF ArchiveTypeOK
<1>8. ASSUME NEW t \in Subs, NEW i \in owed'[t]
      PROVE  i \in ReadNotArchived(t)' /\ Owing(t, i)'
    <2>1. i \in ReadNotArchived(t)' /\ i \in owed[t]
        BY <1>1, <1>8, OweKeeps DEF NothingNew
    <2>2. PICK other \in archive_jobs : other.subscriber = t /\ Ahead(i, other)
        BY <2>1 DEF OwedAhead, Owing
    <2>3. UNCHANGED <<visible_at, created_at>> /\ archive_jobs \ {job} \subseteq archive_jobs'
        BY <1>1, <1>5 DEF broadcastVars
    <2>4. CASE other # job
        BY <2>1, <2>2, <2>3, <2>4, OthersStay
    <2>5. CASE other = job
        <3>1. next \in archive_jobs' /\ next.subscriber = t
            BY <1>5, <2>2, <2>5
        <3>2. i \in ReadNotArchived(t)
            BY <2>1 DEF OwedAhead
        <3>3. CASE i \in Broadcasts /\ i \notin Notifs
            <4>1. Ahead(i, next)
                BY <1>5, <2>2, <2>5, <3>3, KeyTypes DEF Ahead
            <4>2. Ahead(i, next)'
                BY <2>3, <4>1 DEF Ahead, RowKey, BroadcastKey
            <4> QED
                BY <2>1, <3>1, <4>2 DEF Owing
        <3>4. CASE i \in Notifs /\ i \notin Broadcasts /\ i \in stored /\ subscriber_id[i] = t
                   /\ Archives(i)
            <4>1. i \in window /\ RowKey(i) \in keys
                BY <1>2, <2>2, <2>5, <3>4 DEF Ahead
            <4>2. RowKey(i) \notin FirstChunk(keys)
                <5>1. i \in archived_at' => EffectivelyArchived(i)'
                    BY DEF EffectivelyArchived
                <5>2. ~EffectivelyArchived(i)'
                    BY <2>1, <3>4 DEF ReadNotArchived
                <5> QED
                    BY <1>1, <1>2, <3>4, <4>1, <5>1, <5>2
            <4>3. Full(FirstChunk(keys)) /\ After(RowKey(i), Last(FirstChunk(keys)))
                BY <1>3, <4>1, <4>2, ChunkTakesFirst
            <4>4. Ahead(i, next)
                BY <1>5, <2>2, <2>5, <3>4, <4>3 DEF Ahead
            <4>5. Ahead(i, next)'
                BY <2>3, <4>4 DEF Ahead, RowKey, BroadcastKey
            <4> QED
                BY <2>1, <3>1, <4>5 DEF Owing
        <3> QED
            BY <3>2, <3>3, <3>4, InInbox
    <2> QED
        BY <2>4, <2>5
<1>9. OwedAhead'
    BY <1>8 DEF OwedAhead
<1> QED
    BY <1>6, <1>7, <1>9

LEMMA BroadcastOwes ==
    ASSUME ArchiveInv, NEW job \in archive_jobs, ArchiveBroadcastChunk(job)
    PROVE  ArchiveInv'
<1> USE DEF ArchiveInv
<1> DEFINE s      == job.subscriber
           window == {b \in announced : /\ BroadcastVisible(s, b)
                                        /\ created_at[b] <= job.as_of
                                        /\ After(BroadcastKey(b), job.after)}
           keys   == {BroadcastKey(b) : b \in window}
           hit    == {b \in window : /\ BroadcastKey(b) \in FirstChunk(keys)
                                     /\ BroadcastRead(s, b) /\ ~BroadcastArchived(s, b)}
<1>1. /\ job.phase = "broadcast"
      /\ broadcast_archives' = [p \in Subs \X Broadcasts |->
            IF p[1] = s /\ p[2] \in hit THEN "true" ELSE broadcast_archives[p]]
      /\ \/ /\ Full(FirstChunk(keys))
            /\ Advance(job, "broadcast", Last(FirstChunk(keys)))
            /\ hints' = hints
         \/ /\ ~Full(FirstChunk(keys))
            /\ archive_jobs' = archive_jobs \ {job}
            /\ hints' = hints \cup {{s}}
      /\ UNCHANGED <<now, createVars, rowVars, counters, jobVars, broadcastVars,
                     broadcast_reads, fixedVars>>
      /\ Owe(NothingNew)
    BY DEF ArchiveBroadcastChunk
<1>2. /\ window \in SUBSET Broadcasts
      /\ \A b : b \in window <=> /\ b \in announced /\ BroadcastVisible(s, b)
                                 /\ created_at[b] <= job.as_of
                                 /\ After(BroadcastKey(b), job.after)
      /\ \A b : b \in hit <=> /\ b \in window /\ BroadcastKey(b) \in FirstChunk(keys)
                              /\ BroadcastRead(s, b) /\ ~BroadcastArchived(s, b)
      /\ \A b \in window : BroadcastKey(b) \in keys
    BY DEF ArchiveTypeOK, TypeOK
<1>3. keys \in SUBSET Keys /\ keys \in SUBSET Position /\ IsFiniteSet(keys)
    BY <1>2, WindowKeys
<1>4. job \in ArchiveJob /\ s \in Subs
    BY DEF ArchiveTypeOK, ArchiveJob
<1> HIDE DEF window, keys, hit
<1>5. /\ archive_jobs \ {job} \subseteq archive_jobs'
      /\ archive_jobs' \subseteq ArchiveJob
      /\ Full(FirstChunk(keys)) =>
            \E next \in archive_jobs' :
                /\ next.subscriber = s /\ next.as_of = job.as_of
                /\ next.phase = "broadcast" /\ next.after = Last(FirstChunk(keys))
    <2>1. CASE Full(FirstChunk(keys))
        <3>1. Last(FirstChunk(keys)) \in Position
            BY <1>3, <2>1, FullHasLast
        <3>2. PICK next : next = [job EXCEPT !.phase = "broadcast",
                                             !.after = Last(FirstChunk(keys))]
            OBVIOUS
        <3>3. archive_jobs' = (archive_jobs \ {job}) \cup {next}
            BY <1>1, <2>1, <3>2 DEF Advance
        <3>4. /\ next \in ArchiveJob /\ next.subscriber = s /\ next.as_of = job.as_of
              /\ next.phase = "broadcast" /\ next.after = Last(FirstChunk(keys))
            BY <1>4, <3>1, <3>2 DEF ArchiveJob
        <3> QED
            BY <3>3, <3>4 DEF ArchiveTypeOK
    <2>2. CASE ~Full(FirstChunk(keys))
        BY <1>1, <2>2 DEF ArchiveTypeOK
    <2> QED
        BY <2>1, <2>2
<1>6. TypeOK' /\ OpenUnstored' /\ CreatedPast'
    <2>1. broadcast_archives' \in [Subs \X Broadcasts -> Override]
        BY <1>1 DEF ArchiveTypeOK, TypeOK, Override
    <2>2. hints' \subseteq SUBSET Subs
        BY <1>1, <1>4 DEF ArchiveTypeOK, TypeOK
    <2> QED
        BY <1>1, <2>1, <2>2
           DEF ArchiveTypeOK, TypeOK, OpenUnstored, CreatedPast, createVars, jobVars, rowVars,
               broadcastVars, fixedVars
<1>7. ArchiveTypeOK'
    <2>1. owed' \in [Subs -> SUBSET (Notifs \cup Broadcasts)]
        BY <1>1, OwedType
    <2> QED
        BY <1>5, <1>6, <2>1 DEF ArchiveTypeOK
<1>8. ASSUME NEW t \in Subs, NEW i \in owed'[t]
      PROVE  i \in ReadNotArchived(t)' /\ Owing(t, i)'
    <2>1. i \in ReadNotArchived(t)' /\ i \in owed[t]
        BY <1>1, <1>8, OweKeeps DEF NothingNew
    <2>2. PICK other \in archive_jobs : other.subscriber = t /\ Ahead(i, other)
        BY <2>1 DEF OwedAhead, Owing
    <2>3. UNCHANGED <<visible_at, created_at>>
        BY <1>1 DEF rowVars, broadcastVars
    <2>4. CASE other # job
        BY <1>5, <2>1, <2>2, <2>3, <2>4, OthersStay
    <2>5. CASE other = job
        <3>1. /\ i \in Broadcasts /\ i \notin Notifs /\ t = s /\ created_at[i] <= job.as_of
              /\ After(BroadcastKey(i), job.after)
            BY <1>1, <2>2, <2>5, SourcesAssumption DEF Ahead
        <3>2. /\ i \in announced /\ BroadcastVisible(s, i) /\ BroadcastRead(s, i)
              /\ ~BroadcastArchived(s, i)
            BY <2>1, <3>1, InInbox DEF OwedAhead
        <3>3. i \in window /\ BroadcastKey(i) \in keys
            BY <1>2, <3>1, <3>2
        <3>4. BroadcastKey(i) \notin FirstChunk(keys)
            <4>1. ~BroadcastArchived(s, i)'
                BY <2>1, <3>1 DEF ReadNotArchived
            <4>2. i \in hit => broadcast_archives'[<<s, i>>] = "true"
                BY <1>1, <1>4, <3>1
            <4>3. broadcast_archives'[<<s, i>>] = "true" => BroadcastArchived(s, i)'
                BY DEF BroadcastArchived
            <4> QED
                BY <1>2, <3>2, <3>3, <4>1, <4>2, <4>3
        <3>5. Full(FirstChunk(keys)) /\ After(BroadcastKey(i), Last(FirstChunk(keys)))
            BY <1>3, <3>3, <3>4, ChunkTakesFirst
        <3>6. PICK next \in archive_jobs' :
                  /\ next.subscriber = s /\ next.as_of = job.as_of
                  /\ next.phase = "broadcast" /\ next.after = Last(FirstChunk(keys))
            BY <1>5, <3>5
        <3>7. Ahead(i, next)
            BY <3>1, <3>5, <3>6 DEF Ahead
        <3>8. Ahead(i, next)'
            BY <2>3, <3>7 DEF Ahead, RowKey, BroadcastKey
        <3> QED
            BY <2>1, <3>1, <3>6, <3>8 DEF Owing
    <2> QED
        BY <2>4, <2>5
<1>9. OwedAhead'
    BY <1>8 DEF OwedAhead
<1> QED
    BY <1>6, <1>7, <1>9

LEMMA ArchiveInvStep == ArchiveInv /\ [ArchiveNext]_allVars => ArchiveInv'
<1> SUFFICES ASSUME ArchiveInv, [ArchiveNext]_allVars
             PROVE  ArchiveInv'
    OBVIOUS
<1>1. PICK promised : promised = NothingNew
    OBVIOUS
<1>2. CASE Next /\ UNCHANGED archive_jobs /\ Owe(NothingNew)
    BY <1>1, <1>2, CoreOwes
<1>3. ASSUME NEW s \in Acting, RequestArchiveRead(s)
      PROVE  ArchiveInv'
    BY <1>3, RequestOwes, BoundsAssumption DEF BoundsAssumption
<1>4. ASSUME NEW job \in archive_jobs, ProcessArchiveRead(job)
      PROVE  ArchiveInv'
    BY <1>4, DirectOwes, BroadcastOwes DEF ProcessArchiveRead
<1>5. CASE UNCHANGED allVars
    <2>1. UNCHANGED vars /\ UNCHANGED <<archive_jobs, owed>>
        BY <1>5 DEF allVars, archiveVars
    <2>2. TypeOK' /\ OpenUnstored' /\ CreatedPast'
        BY <2>1, TypeStep, OpenStays DEF ArchiveInv, ArchiveTypeOK, CreatedPast, vars, broadcastVars
    <2>3. \A s \in Subs : ReadNotArchived(s)' = ReadNotArchived(s)
        BY <2>1 DEF ReadNotArchived, Visible, EffectivelyRead, EffectivelyArchived,
                    BroadcastVisible, BroadcastRead, BroadcastArchived, vars, createVars,
                    rowVars, broadcastVars, overrideVars, fixedVars
    <2>4. \A s \in Subs : \A i : Owing(s, i) => Owing(s, i)'
        BY <2>1 DEF Owing, Ahead, RowKey, BroadcastKey, vars, rowVars, broadcastVars
    <2>5. OwedAhead'
        BY <2>1, <2>3, <2>4 DEF OwedAhead, ArchiveInv
    <2> QED
        BY <2>1, <2>2, <2>5 DEF ArchiveInv, ArchiveTypeOK
<1> QED
    BY <1>2, <1>3, <1>4, <1>5 DEF ArchiveNext

\* Once a subscriber has no archive-read job left, every item that was read and in
\* the inbox when they asked has been archived or has turned unread since: no
\* chunk boundary, in either source, loses one (worker.rs, process_archive_read).
THEOREM JobsForgetNothing == ArchiveSpec => []NothingForgotten
<1>1. ArchiveInv => NothingForgotten
    <2> SUFFICES ASSUME ArchiveInv, NEW s \in Subs, \A job \in archive_jobs : job.subscriber # s
                 PROVE  owed[s] = {}
        BY DEF NothingForgotten
    <2> QED
        BY DEF ArchiveInv, OwedAhead, Owing
<1> QED
    BY <1>1, ArchiveInvInit, ArchiveInvStep, PTL DEF ArchiveSpec

----------------------------------------------------------------------------
(***************************************************************************)
(* What else writes the counters: recounts, moves, creates that count with *)
(* preferences they read before they waited, parked and replayed jobs.     *)
(* Each subscriber's counters are exact on their own (ExactOf), so the     *)
(* claim can be made for everybody but those it excepts; what a parked job *)
(* has still to count belongs to subscribers who are excepted.             *)
(***************************************************************************)

ParkedInv ==
    \A r \in parked : /\ Ids(r) \subseteq stored
                      /\ \A n \in Ids(r) : visible_at[n] = RunAt(r)
                      /\ RunAt(r) <= now
                      /\ Recipients(r) \subseteq skewed

\* No recount of the subscriber is queued.
Settled(s) == \A job \in rebuilds : job[1] # s

RestInv == \A s \in Subs \ skewed : Settled(s) => ExactOf(s)

UpkeepInv == UpkeepTypeOK /\ DeliverInv /\ CreatedPast /\ ParkedInv /\ RestInv

LEMMA UpkeepInvInit == UpkeepInit => UpkeepInv
<1> SUFFICES ASSUME UpkeepInit PROVE UpkeepInv
    OBVIOUS
<1>1. TypeOK /\ DeliverInv /\ CreatedPast /\ Exact
    BY TypeInit, DeliverInit, PromiseInvInit, ExactInit DEF UpkeepInit, PromiseInv
<1>2. UpkeepTypeOK
    BY <1>1 DEF UpkeepInit, UpkeepTypeOK, Init
<1>3. ParkedInv /\ RestInv
    BY <1>1 DEF UpkeepInit, ParkedInv, RestInv, Exact
<1> QED
    BY <1>1, <1>2, <1>3 DEF UpkeepInv

----------------------------------------------------------------------------
(* What the steps of the core leave to the others *)

LEMMA CoreKeeps ==
    ASSUME TypeOK, [Next]_vars
    PROVE  /\ now <= now' /\ stored \subseteq stored'
           /\ subscriber_id' = subscriber_id /\ muted' = muted
           /\ jobs' \subseteq jobs \cup creating
<1> DEFINE Kept == /\ now <= now' /\ stored \subseteq stored'
                   /\ subscriber_id' = subscriber_id /\ muted' = muted
                   /\ jobs' \subseteq jobs \cup creating
<1>0. now \in Int /\ now <= now
    BY DEF TypeOK, Times
<1>1. CASE Tick
    BY <1>0, <1>1 DEF Tick, createVars, fixedVars, jobVars
<1>2. CASE Management
    BY <1>0, <1>2
       DEF Management, BeginCreate, CommitImmediate, CommitScheduled, RollbackCreate,
           BeginBroadcast, CommitBroadcast, RollbackBroadcast, createVars, fixedVars, jobVars
<1>3. CASE Worker
    BY <1>0, <1>3, WorkerLeaves DEF createVars, fixedVars
<1>4. CASE Subscriber
    BY <1>0, <1>4, SubscriberLeaves DEF createVars, fixedVars, jobVars
<1>5. CASE UNCHANGED vars
    BY <1>0, <1>5 DEF vars, createVars, fixedVars, jobVars
<1> QED
    BY <1>1, <1>2, <1>3, <1>4, <1>5 DEF Next

\* A parked job stands as long as its rows do and those excepted stay so.
LEMMA ParkedStands ==
    ASSUME TypeOK, TypeOK', ParkedInv, NEW r \in parked, r \in Requests,
           now <= now', stored \subseteq stored',
           \A n \in stored : visible_at'[n] = visible_at[n],
           Recipients(r)' \subseteq skewed'
    PROVE  /\ Ids(r) \subseteq stored'
           /\ \A n \in Ids(r) : visible_at'[n] = RunAt(r)'
           /\ RunAt(r)' <= now'
           /\ Recipients(r)' \subseteq skewed'
<1>1. /\ Ids(r) \subseteq stored /\ NotificationIds[r][1] \in Ids(r)
      /\ \A n \in Ids(r) : visible_at[n] = RunAt(r)
      /\ RunAt(r) <= now
    BY FirstId DEF ParkedInv
<1>2. RunAt(r)' = RunAt(r) /\ RunAt(r) \in Int /\ now \in Int /\ now' \in Int
    BY <1>1, TimesAreIntegers DEF RunAt, TypeOK, Times
<1> QED
    BY <1>1, <1>2

LEMMA CoreUpkeep ==
    ASSUME UpkeepInv, [Next]_vars,
           UNCHANGED <<rebuilds, parked>>, waiting' \subseteq waiting, waiting' \subseteq creating',
           seen_mutes' \in [Requests -> SUBSET (Subs \X Categories)],
           skewed' = skewed
    PROVE  UpkeepInv'
<1>1. /\ TypeOK /\ OpenUnstored /\ DeliverInv /\ CreatedPast /\ ParkedInv /\ RestInv
      /\ DeliverInv' /\ CreatedPast' /\ TypeOK'
    BY DeliverStep, CreatedStep DEF UpkeepInv, DeliverInv, RowsInv
<1>2. /\ now <= now' /\ stored \subseteq stored' /\ subscriber_id' = subscriber_id
      /\ jobs' \subseteq jobs \cup creating
      /\ \A n \in stored : visible_at'[n] = visible_at[n]
    BY <1>1, CoreKeeps, CommittedStays
<1>3. \A r \in parked : r \in Requests /\ r \notin creating
    BY <1>1, FirstId DEF UpkeepInv, UpkeepTypeOK, OpenUnstored, ParkedInv
<1>4. UpkeepTypeOK'
    BY <1>1, <1>2, <1>3 DEF UpkeepInv, UpkeepTypeOK
<1>5. ParkedInv'
    <2>1. ASSUME NEW r \in parked
          PROVE  Recipients(r)' \subseteq skewed'
        BY <1>1, <1>2 DEF Recipients, ParkedInv
    <2> QED
        BY <1>1, <1>2, <1>3, <2>1, ParkedStands DEF ParkedInv
<1>6. RestInv'
    <2>1. \A s \in Subs \ skewed : Settled(s)' => ExactOf(s)
        BY <1>1 DEF RestInv, Settled
    <2> QED
        BY <1>1, <2>1, ExactOfStep DEF RestInv
<1> QED
    BY <1>1, <1>4, <1>5, <1>6 DEF UpkeepInv

----------------------------------------------------------------------------
(* Recounts *)

\* What recount_subscriber counts.
RecountUnread(s, asOf, row, hidden) ==
    {n \in stored : /\ Recounts(s, n, asOf, hidden)
                    /\ n \notin read_at'
                    /\ n \in unread_at' \/ visible_at[n] > row.read_watermark
                    /\ n \notin archived_at'
                    /\ n \in unarchived_at' \/ visible_at[n] > row.archive_watermark}

RecountUnseen(s, asOf, row, hidden) ==
    {n \in stored : Recounts(s, n, asOf, hidden) /\ visible_at[n] > row.seen_watermark}

LEMMA RecountFields ==
    ASSUME TypeOK, NEW s, NEW asOf, NEW row \in CountersRow, NEW hidden, NEW next,
           next = Recount(s, asOf, row, hidden)
    PROVE  /\ next \in CountersRow
           /\ next.read_watermark = row.read_watermark
           /\ next.seen_watermark = row.seen_watermark
           /\ next.archive_watermark = row.archive_watermark
           /\ next.unread = Cardinality(RecountUnread(s, asOf, row, hidden))
           /\ next.unseen = Cardinality(RecountUnseen(s, asOf, row, hidden))
<1> DEFINE mine == {n \in stored : Recounts(s, n, asOf, hidden)}
<1>1. /\ RecountUnread(s, asOf, row, hidden) =
            {n \in mine : /\ n \notin read_at'
                          /\ n \in unread_at' \/ visible_at[n] > row.read_watermark
                          /\ n \notin archived_at'
                          /\ n \in unarchived_at' \/ visible_at[n] > row.archive_watermark}
      /\ RecountUnseen(s, asOf, row, hidden) = {n \in mine : visible_at[n] > row.seen_watermark}
    BY DEF RecountUnread, RecountUnseen
<1>2. next = [row EXCEPT !.unread = Cardinality(RecountUnread(s, asOf, row, hidden)),
                         !.unseen = Cardinality(RecountUnseen(s, asOf, row, hidden))]
    BY <1>1 DEF Recount
<1>3. /\ Cardinality(RecountUnread(s, asOf, row, hidden)) \in Nat
      /\ Cardinality(RecountUnseen(s, asOf, row, hidden)) \in Nat
    <2>1. /\ RecountUnread(s, asOf, row, hidden) \in SUBSET Notifs
          /\ RecountUnseen(s, asOf, row, hidden) \in SUBSET Notifs
        BY DEF RecountUnread, RecountUnseen, TypeOK
    <2> QED
        BY <2>1, NotifSubsetFinite
<1> HIDE DEF mine
<1> QED
    BY <1>2, <1>3 DEF CountersRow

\* A recount that drops no row makes the counters exact.
LEMMA RecountExact ==
    ASSUME TypeOK, TypeOK', NEW s \in Subs, NEW asOf \in Int, asOf <= now,
           NEW row, row = counters[s], NEW hidden, muted' = hidden,
           counters'[s] = Recount(s, asOf, row, hidden),
           UNCHANGED <<now, stored, visible_at, jobVars>>,
           \A n \in stored : Recounts(s, n, now, hidden) => Recounts(s, n, asOf, hidden)
    PROVE  ExactOf(s)'
<1>1. /\ now \in Int /\ stored \subseteq Notifs
      /\ \A n \in Notifs : visible_at[n] \in Int
      /\ row \in CountersRow /\ row.read_watermark \in Int /\ row.archive_watermark \in Int
      /\ row.seen_watermark \in Int
    BY TimesAreIntegers DEF TypeOK
<1>2. PICK next : next = counters'[s]
    OBVIOUS
<1>3. /\ next.read_watermark = row.read_watermark
      /\ next.seen_watermark = row.seen_watermark
      /\ next.archive_watermark = row.archive_watermark
      /\ next.unread = Cardinality(RecountUnread(s, asOf, row, hidden))
      /\ next.unseen = Cardinality(RecountUnseen(s, asOf, row, hidden))
    BY <1>1, <1>2, RecountFields
<1>4. \A n : PendingDeliver(n)' <=> PendingDeliver(n)
    BY DEF PendingDeliver, jobVars
<1>5. \A n \in stored : Recounts(s, n, asOf, hidden) <=> Recounts(s, n, now, hidden)
    BY <1>1 DEF Recounts
<1>6. ASSUME NEW n \in Notifs
      PROVE  /\ subscriber_id'[n] = s /\ InUnread(n)' <=> n \in RecountUnread(s, asOf, row, hidden)
             /\ subscriber_id'[n] = s /\ InUnseen(n)' <=> n \in RecountUnseen(s, asOf, row, hidden)
    <2>1. CASE n \notin stored
        BY <2>1 DEF InUnread, InUnseen, Visible, RecountUnread, RecountUnseen
    <2>2. CASE n \in stored /\ subscriber_id'[n] # s
        BY <2>2 DEF RecountUnread, RecountUnseen, Recounts
    <2>3. CASE n \in stored /\ subscriber_id'[n] = s
        <3>1. Recounts(s, n, asOf, hidden) <=>
                 visible_at[n] <= now /\ ~PendingDeliver(n) /\ <<s, CategoryOf[n]>> \notin hidden
            BY <1>5, <2>3 DEF Recounts
        <3>2. Visible(n)' <=> visible_at[n] <= now
            BY <2>3 DEF Visible
        <3>3. Muted(n, muted)' <=> <<s, CategoryOf[n]>> \in hidden
            BY <2>3 DEF Muted
        <3>4. EffectivelyRead(n)' <=>
                 ~(n \notin read_at' /\ (n \in unread_at' \/ visible_at[n] > row.read_watermark))
            BY <1>1, <1>2, <1>3, <2>3 DEF EffectivelyRead
        <3>5. EffectivelyArchived(n)' <=>
                 ~(/\ n \notin archived_at'
                   /\ n \in unarchived_at' \/ visible_at[n] > row.archive_watermark)
            BY <1>1, <1>2, <1>3, <2>3 DEF EffectivelyArchived
        <3>6. /\ visible_at'[n] = visible_at[n]
              /\ counters'[subscriber_id'[n]].seen_watermark = row.seen_watermark
            BY <1>2, <1>3, <2>3
        <3> QED
            BY <1>4, <2>3, <3>1, <3>2, <3>3, <3>4, <3>5, <3>6
               DEF InUnread, InUnseen, RecountUnread, RecountUnseen
    <2> QED
        BY <2>1, <2>2, <2>3
<1>7. /\ UnreadSet(s)' = RecountUnread(s, asOf, row, hidden)
      /\ UnseenSet(s)' = RecountUnseen(s, asOf, row, hidden)
    <2>1. \A n : n \in RecountUnread(s, asOf, row, hidden) \cup RecountUnseen(s, asOf, row, hidden)
                    => n \in Notifs
        BY <1>1 DEF RecountUnread, RecountUnseen
    <2> QED
        BY <1>6, <2>1 DEF UnreadSet, UnseenSet
<1> QED
    BY <1>2, <1>3, <1>7 DEF ExactOf

\* A subscriber whom no recount touches stays exact.
LEMMA OthersExact ==
    ASSUME DeliverInv, TypeOK', RestInv, NEW t \in Subs \ skewed, Settled(t),
           CountedStands(t), now <= now'
    PROVE  ExactOf(t)'
BY ExactStands DEF RestInv

\* Steps that touch no row: the flags, the jobs and the requests stand.
LEMMA RowsAsTheyAre ==
    ASSUME UpkeepInv, TypeOK', WatermarksStand,
           UNCHANGED <<now, createVars, rowVars, jobVars, broadcastVars, overrideVars,
                       subscriber_id>>
    PROVE  DeliverInv' /\ CreatedPast'
<1>1. TypeOK /\ RowsInv /\ DeliverInv /\ CreatedPast /\ OpenUnstored /\ now \in Int
    BY TimesAreIntegers DEF UpkeepInv, DeliverInv, RowsInv
<1>2. /\ stored \subseteq stored' /\ creating' \subseteq creating /\ now <= now'
      /\ \A r \in creating' : Ids(r) \cap stored' = {}
    BY <1>1 DEF OpenUnstored, createVars
<1>3. RowsInv'
    BY <1>1, <1>2, RowsCommitted
<1>4. CreatedPast'
    BY <1>1 DEF CreatedPast, broadcastVars
<1> QED
    BY <1>1, <1>2, <1>3, <1>4, DeliverStands DEF rowVars

LEMMA PreferenceStep ==
    ASSUME UpkeepInv, NEW s \in Subs, NEW c \in Categories, WritePreference(s, c)
    PROVE  UpkeepInv'
<1>1. /\ TypeOK /\ DeliverInv /\ ParkedInv /\ RestInv /\ now \in Int /\ now \in Times
      /\ UNCHANGED <<now, createVars, rowVars, counters, jobVars, broadcastVars, overrideVars,
                     subscriber_id, waiting, seen_mutes, parked, skewed>>
      /\ rebuilds' = rebuilds \cup {<<s, now>>} /\ hints' = hints \cup {{s}}
      /\ \A t, d : t # s => (<<t, d>> \in muted' <=> <<t, d>> \in muted)
      /\ muted' \subseteq Subs \X Categories
    BY TimesAreIntegers DEF UpkeepInv, UpkeepTypeOK, WritePreference, QueueRebuild, TypeOK
<1>2. TypeOK'
    BY <1>1 DEF TypeOK, createVars, rowVars, jobVars, broadcastVars, overrideVars
<1>3. DeliverInv' /\ CreatedPast'
    BY <1>1, <1>2, RowsAsTheyAre DEF WatermarksStand
<1>4. UpkeepTypeOK'
    BY <1>1, <1>2 DEF UpkeepInv, UpkeepTypeOK, createVars, jobVars
<1>5. ParkedInv'
    BY <1>1 DEF ParkedInv, createVars, rowVars, RunAt, Recipients
<1>6. ASSUME NEW t \in Subs \ skewed', Settled(t)'
      PROVE  ExactOf(t)'
    <2>1. t # s /\ Settled(t) /\ t \in Subs \ skewed
        <3>1. \A job \in rebuilds \cup {<<s, now>>} : job[1] # t
            BY <1>1, <1>6 DEF Settled
        <3>2. <<s, now>>[1] = s
            OBVIOUS
        <3> QED
            BY <1>1, <1>6, <3>1, <3>2 DEF Settled
    <2>2. CountedStands(t)
        BY <1>1, <2>1 DEF CountedStands, createVars, rowVars, jobVars, Muted, PendingDeliver
    <2> QED
        BY <1>1, <1>2, <2>1, <2>2, OthersExact
<1> QED
    BY <1>3, <1>4, <1>5, <1>6 DEF UpkeepInv, RestInv

LEMMA RebuildStep ==
    ASSUME UpkeepInv, NEW job \in rebuilds, ProcessCounterRebuild(job)
    PROVE  UpkeepInv'
<1>0. PICK s : s = job[1]
    OBVIOUS
<1>1. /\ TypeOK /\ DeliverInv /\ ParkedInv /\ RestInv /\ s \in Subs /\ job[2] \in Times
      /\ UNCHANGED <<now, createVars, rowVars, jobVars, broadcastVars, overrideVars,
                     subscriber_id, muted, waiting, seen_mutes, parked>>
      /\ rebuilds' = rebuilds \ {job} /\ hints' = hints \cup {{s}}
    BY <1>0 DEF UpkeepInv, UpkeepTypeOK, ProcessCounterRebuild, fixedVars
<1>2. PICK begin \in BeganSince(job[2]) :
          /\ counters' = [counters EXCEPT ![s] = Recount(s, begin, @, muted)]
          /\ Skews({s}, begin, muted)
    BY <1>0 DEF ProcessCounterRebuild
<1>3. begin \in Int /\ begin <= now /\ now \in Int
    BY <1>1, <1>2, TimesAreIntegers DEF BeganSince, Times
<1>4. PICK row : row = counters[s]
    OBVIOUS
<1>5. PICK hidden : hidden = muted
    OBVIOUS
<1>6. /\ counters'[s] = Recount(s, begin, row, hidden) /\ row \in CountersRow
      /\ \A t \in Subs \ {s} : counters'[t] = counters[t]
      /\ DOMAIN counters' = Subs /\ counters' = [t \in Subs |-> counters'[t]]
    BY <1>1, <1>2, <1>4, <1>5 DEF TypeOK
<1>7. PICK next : next = counters'[s]
    OBVIOUS
<1>8. /\ next \in CountersRow
      /\ next.read_watermark = row.read_watermark
      /\ next.seen_watermark = row.seen_watermark
      /\ next.archive_watermark = row.archive_watermark
    BY <1>1, <1>6, <1>7, RecountFields
<1>9. /\ \A t \in Subs : counters'[t] \in CountersRow
      /\ WatermarksStand
    BY <1>1, <1>4, <1>6, <1>7, <1>8 DEF TypeOK, WatermarksStand
<1>10. TypeOK'
    <2>1. counters' \in [Subs -> CountersRow]
        BY <1>6, <1>9
    <2> QED
        BY <1>1, <2>1 DEF TypeOK, createVars, rowVars, jobVars, broadcastVars, overrideVars
<1>11. DeliverInv' /\ CreatedPast'
    BY <1>1, <1>9, <1>10, RowsAsTheyAre
<1>12. /\ skewed' = (skewed \ {s}) \cup
              {t \in {s} : \/ \E n \in stored : /\ Recounts(t, n, now, muted)
                                               /\ ~Recounts(t, n, begin, muted)
                          \/ \E r \in parked : t \in Recipients(r)'}
    BY <1>2 DEF Skews
<1>13. UpkeepTypeOK'
    BY <1>1, <1>10, <1>12 DEF UpkeepInv, UpkeepTypeOK, createVars, jobVars
<1>14. ParkedInv'
    <2>1. \A r \in parked : RunAt(r)' = RunAt(r) /\ Recipients(r)' = Recipients(r)
        BY <1>1 DEF RunAt, Recipients, rowVars
    <2>2. \A r \in parked : Recipients(r)' \subseteq skewed'
        BY <1>1, <1>12, <2>1 DEF ParkedInv
    <2> QED
        BY <1>1, <2>1, <2>2 DEF ParkedInv, createVars, rowVars
<1>15. ASSUME NEW t \in Subs \ skewed', Settled(t)'
       PROVE  ExactOf(t)'
    <2>1. CASE t = s
        <3>1. \A n \in stored : Recounts(s, n, now, hidden) => Recounts(s, n, begin, hidden)
            BY <1>5, <1>12, <1>15, <2>1
        <3> QED
            BY <1>1, <1>3, <1>4, <1>5, <1>6, <1>10, <2>1, <3>1, RecountExact DEF createVars, rowVars
    <2>2. CASE t # s
        <3>1. Settled(t) /\ t \in Subs \ skewed
            BY <1>0, <1>1, <1>12, <1>15, <2>2 DEF Settled
        <3>2. CountedStands(t)
            BY <1>1, <1>6, <2>2 DEF CountedStands, createVars, rowVars, jobVars, Muted, PendingDeliver
        <3> QED
            BY <1>1, <1>3, <1>10, <3>1, <3>2, OthersExact
    <2> QED
        BY <2>1, <2>2
<1> QED
    BY <1>11, <1>13, <1>14, <1>15 DEF UpkeepInv, RestInv

----------------------------------------------------------------------------
(* Creates that wait *)

LEMMA StartStep ==
    ASSUME UpkeepInv, NEW r \in Requests, StartCountersUpdate(r)
    PROVE  UpkeepInv'
<1>1. creating \cap waiting \subseteq creating' /\ waiting' \subseteq creating' /\ [Next]_vars
    BY DEF UpkeepInv, UpkeepTypeOK, StartCountersUpdate, vars, createVars
<1>2. seen_mutes' \in [Requests -> SUBSET (Subs \X Categories)]
    BY DEF UpkeepInv, UpkeepTypeOK, TypeOK, StartCountersUpdate
<1>3. DeliverInv' /\ CreatedPast'
    BY <1>1, DeliverStep, CreatedStep DEF UpkeepInv, DeliverInv, RowsInv
<1>4. UpkeepTypeOK'
    BY <1>1, <1>2, <1>3 DEF UpkeepInv, UpkeepTypeOK, StartCountersUpdate, vars, jobVars,
       DeliverInv, RowsInv
<1>5. ParkedInv'
    BY DEF UpkeepInv, ParkedInv, StartCountersUpdate, vars, createVars, rowVars, fixedVars, RunAt,
       Recipients
<1>6. RestInv'
    BY <1>1, ExactOfStep DEF UpkeepInv, RestInv, Settled, StartCountersUpdate
<1> QED
    BY <1>3, <1>4, <1>5, <1>6 DEF UpkeepInv

LEMMA AbandonStep ==
    ASSUME UpkeepInv, NEW r \in Requests, AbandonCreate(r)
    PROVE  UpkeepInv'
<1>1. [Next]_vars
    BY DEF AbandonCreate, Next, Management
<1>2. /\ creating' = creating \ {r} /\ waiting' = waiting \ {r}
      /\ UNCHANGED <<rebuilds, parked, skewed>>
    BY DEF AbandonCreate, RollbackCreate
<1>3. /\ waiting' \subseteq waiting /\ waiting' \subseteq creating'
      /\ seen_mutes' \in [Requests -> SUBSET (Subs \X Categories)]
    BY <1>2 DEF UpkeepInv, UpkeepTypeOK, AbandonCreate
<1> QED
    BY <1>1, <1>2, <1>3, CoreUpkeep

\* A create that counted with the mutes it saw is right about everybody for
\* whose category they still hold; the others are excepted.
LEMMA FinishStep ==
    ASSUME UpkeepInv, NEW r \in Requests, FinishCreate(r)
    PROVE  UpkeepInv'
<1>1. PICK hidden : hidden = seen_mutes[r]
    OBVIOUS
<1>2. /\ CommitImmediate(r, hidden) /\ r \in creating
      /\ TypeOK /\ OpenUnstored /\ RowsInv /\ DeliverInv /\ CreatedPast /\ ParkedInv /\ RestInv
    BY <1>1 DEF FinishCreate, UpkeepInv, UpkeepTypeOK, DeliverInv, RowsInv
<1>3. TypeOK' /\ RowsInv' /\ DeliverInv'
    BY <1>2, TypeCommit, RowsCommit, DeliverCommitted
<1>4. /\ creating' = creating \ {r} /\ waiting' = waiting \ {r}
      /\ stored \subseteq stored' /\ now \in Int
      /\ UNCHANGED <<now, visible_at, subscriber_id, muted, jobs, offset, created_at, rebuilds, parked>>
      /\ skewed' = skewed \cup
             {RecipientOf[n] : n \in {n \in Ids(r) :
                 <<RecipientOf[n], CategoryOf[n]>> \in (muted \ hidden) \cup (hidden \ muted)}}
    BY <1>1, <1>2, TimesAreIntegers
       DEF FinishCreate, CommitImmediate, rowVars, fixedVars, jobVars, broadcastVars
<1>5. CreatedPast'
    BY <1>2, <1>4 DEF CreatedPast
<1>6. \A n \in Ids(r) : n \in Notifs /\ subscriber_id[n] = RecipientOf[n]
    BY <1>2, RequestFacts DEF OpenUnstored, DeliverInv
<1>7. UpkeepTypeOK'
    <2>1. skewed' \subseteq Subs
        <3>1. \A n \in Ids(r) : RecipientOf[n] \in Subs
            BY <1>6, RequestsAssumption DEF RequestsAssumption
        <3>2. skewed \subseteq Subs
            BY DEF UpkeepInv, UpkeepTypeOK
        <3> QED
            BY <1>4, <3>1, <3>2
    <2> QED
        BY <1>3, <1>4, <2>1 DEF UpkeepInv, UpkeepTypeOK, FinishCreate
<1>8. ParkedInv'
    BY <1>2, <1>4 DEF ParkedInv, RunAt, Recipients
<1>9. ASSUME NEW t \in Subs \ skewed', Settled(t)'
      PROVE  ExactOf(t)'
    <2>1. t \in Subs \ skewed /\ Settled(t) /\ ExactOf(t)
        BY <1>2, <1>4, <1>9 DEF RestInv, Settled
    <2>2. \A n \in Ids(r) : subscriber_id[n] = t => (Muted(n, hidden) <=> Muted(n, muted))
        BY <1>4, <1>6, <1>9 DEF Muted
    <2> QED
        BY <1>2, <1>3, <2>1, <2>2, ExactCommitted
<1> QED
    BY <1>3, <1>5, <1>7, <1>8, <1>9 DEF UpkeepInv, RestInv

----------------------------------------------------------------------------
(* Parked jobs *)

LEMMA ParkStep ==
    ASSUME UpkeepInv, NEW r \in Requests, ParkDeliver(r) \/ ReplayDeliver(r)
    PROVE  UpkeepInv'
<1>1. /\ TypeOK /\ RowsInv /\ OpenUnstored /\ DeliverInv /\ CreatedPast /\ ParkedInv /\ RestInv
      /\ now \in Int
      /\ UNCHANGED <<now, createVars, rowVars, counters, offset, broadcastVars, overrideVars,
                     subscriber_id, muted, rebuilds, waiting, seen_mutes>>
      /\ \A q \in Requests \ {r} : q \in jobs' <=> q \in jobs
      /\ jobs' \subseteq jobs \cup {r} /\ jobs \subseteq Requests /\ r \in jobs \cup parked
    BY TimesAreIntegers DEF UpkeepInv, UpkeepTypeOK, DeliverInv, RowsInv, ParkDeliver, ReplayDeliver,
       fixedVars, TypeOK
<1>2. TypeOK'
    BY <1>1 DEF TypeOK, createVars, rowVars, broadcastVars, overrideVars, ParkDeliver, ReplayDeliver
<1>3. /\ Ids(r) \subseteq stored /\ RunAt(r) <= now
      /\ \A n \in Ids(r) : visible_at[n] = RunAt(r)
    <2>1. CASE r \in parked
        BY <1>1, <2>1 DEF ParkedInv
    <2>2. CASE r \notin parked
        BY <1>1, <2>2 DEF DeliverInv, ParkDeliver, ReplayDeliver
    <2> QED
        BY <2>1, <2>2
<1>4. \A q \in Requests : RunAt(q)' = RunAt(q) /\ Recipients(q)' = Recipients(q)
    BY <1>1 DEF RunAt, Recipients, rowVars
<1>5. \A n : n \notin Ids(r) => (PendingDeliver(n)' <=> PendingDeliver(n))
    <2>1. jobs \in SUBSET Requests /\ jobs' \in SUBSET Requests
          /\ \A q \in Requests \ {r} : (q \in jobs' <=> q \in jobs) /\ offset'[q] = offset[q]
        BY <1>1
    <2>2. \A n : n \notin Ids(r) => (OwnedBy(jobs', offset', n) <=> OwnedBy(jobs, offset, n))
        BY <2>1, OwnedElsewhere
    <2> QED
        BY <2>2, PendingIsOwned
<1>6. RowsInv'
    <2>1. /\ stored \subseteq stored' /\ creating' \subseteq creating /\ now <= now'
          /\ \A q \in creating' : Ids(q) \cap stored' = {}
          /\ WatermarksStand
        BY <1>1 DEF OpenUnstored, createVars, WatermarksStand
    <2> QED
        BY <1>1, <1>2, <2>1, RowsCommitted
<1>7. DeliverInv'
    <2>1. \A n \in stored' : visible_at'[n] > now' => PendingDeliver(n)'
        <3>1. ASSUME NEW n \in stored, visible_at[n] > now
              PROVE  PendingDeliver(n)'
            <4>1. n \in Notifs /\ visible_at[n] \in Int /\ PendingDeliver(n)
                BY <1>1, <3>1, TimesAreIntegers DEF TypeOK, DeliverInv
            <4>2. n \notin Ids(r)
                BY <1>1, <1>3, <3>1, <4>1
            <4> QED
                BY <1>5, <4>1, <4>2
        <3> QED
            BY <1>1, <3>1 DEF createVars, rowVars
    <2>2. /\ \A n \in Notifs \ stored' : subscriber_id'[n] = RecipientOf[n]
          /\ \A q \in jobs' : Ids(q) \subseteq stored'
        BY <1>1, <1>3 DEF DeliverInv, createVars
    <2>3. \A q \in jobs' \cup creating' : \A n \in Ids(q) : visible_at'[n] = RunAt(q)'
        BY <1>1, <1>3, <1>4 DEF DeliverInv, createVars, rowVars, TypeOK
    <2>4. \A q \in creating' \ scheduled' : RunAt(q)' <= now'
        BY <1>1, <1>4 DEF DeliverInv, createVars, TypeOK
    <2> QED
        BY <1>6, <2>1, <2>2, <2>3, <2>4 DEF DeliverInv
<1>8. CreatedPast'
    BY <1>1 DEF CreatedPast, broadcastVars
<1>9. /\ skewed \subseteq skewed' /\ skewed' \subseteq Subs /\ Recipients(r) \subseteq skewed'
      /\ parked' \subseteq parked \cup {r} /\ parked' \cap jobs' = {}
    BY <1>1, RecipientsType DEF UpkeepInv, UpkeepTypeOK, ParkDeliver, ReplayDeliver, ParkedInv
<1>10. UpkeepTypeOK'
    BY <1>1, <1>2, <1>9 DEF UpkeepInv, UpkeepTypeOK, createVars
<1>11. ParkedInv'
    <2>1. ASSUME NEW q \in parked'
          PROVE  /\ Ids(q) \subseteq stored /\ RunAt(q) <= now /\ q \in Requests
                 /\ \A n \in Ids(q) : visible_at[n] = RunAt(q)
                 /\ Recipients(q) \subseteq skewed'
        BY <1>1, <1>3, <1>9 DEF ParkedInv, UpkeepInv, UpkeepTypeOK
    <2> QED
        BY <1>1, <1>4, <2>1 DEF ParkedInv, createVars, rowVars
<1>12. ASSUME NEW t \in Subs \ skewed', Settled(t)'
       PROVE  ExactOf(t)'
    <2>1. t \in Subs \ skewed /\ Settled(t)
        BY <1>1, <1>9, <1>12 DEF Settled
    <2>2. \A n \in stored : subscriber_id[n] = t => n \notin Ids(r)
        BY <1>9, <1>12 DEF Recipients
    <2>3. CountedStands(t)
        BY <1>1, <1>5, <2>2 DEF CountedStands, createVars, rowVars, Muted
    <2> QED
        BY <1>1, <1>2, <2>1, <2>3, OthersExact
<1> QED
    BY <1>7, <1>8, <1>10, <1>11, <1>12 DEF UpkeepInv, RestInv

----------------------------------------------------------------------------
(* Moves *)

\* The rows, the mutes and the counters as a move leaves them.
Moves(from, to, movable, begin, hidden) ==
    /\ begin \in Int /\ begin <= now /\ from # to /\ movable \subseteq stored
    /\ \A n \in movable : subscriber_id[n] = from
    /\ subscriber_id' = [n \in Notifs |-> IF n \in movable THEN to ELSE subscriber_id[n]]
    /\ read_at' = (read_at \ movable) \cup {n \in movable : EffectivelyRead(n)}
    /\ unread_at' = (unread_at \ movable) \cup
          {n \in movable : ~EffectivelyRead(n) /\ NeedsOverride(n, counters[to].read_watermark)}
    /\ archived_at' = (archived_at \ movable) \cup {n \in movable : EffectivelyArchived(n)}
    /\ unarchived_at' = (unarchived_at \ movable) \cup
          {n \in movable : ~EffectivelyArchived(n)
                           /\ NeedsOverride(n, counters[to].archive_watermark)}
    /\ muted' = hidden
    /\ hidden = muted \cup {<<to, c>> : c \in {c \in Categories : <<from, c>> \in muted}}
    /\ counters' = [counters EXCEPT ![from] = Recount(from, begin, @, hidden),
                                    ![to] = Recount(to, begin, @, hidden)]
    /\ hints' = hints \cup {{from, to}}
    /\ Skews({from, to}, begin, hidden)
    /\ UNCHANGED <<now, createVars, visible_at, jobVars, broadcastVars, overrideVars,
                   rebuilds, waiting, seen_mutes, parked>>

LEMMA MoveFacts ==
    ASSUME TypeOK, NEW from, NEW to, NEW ids, MoveNotifications(from, to, ids)
    PROVE  \E begin, movable, hidden : Moves(from, to, movable, begin, hidden)
<1>1. PICK begin \in BeganSince(1) :
          LET movable == {n \in ids : /\ n \in stored /\ subscriber_id[n] = from
                                      /\ visible_at[n] <= begin /\ ~PendingDeliver(n)}
              nowMuted == muted \cup {<<to, c>> : c \in {c \in Categories : <<from, c>> \in muted}}
              target == counters[to]
          IN  /\ Exists(from) /\ Exists(to) /\ from # to
              /\ movable # {}
              /\ subscriber_id' = [n \in Notifs |-> IF n \in movable THEN to ELSE subscriber_id[n]]
              /\ read_at' = (read_at \ movable) \cup {n \in movable : EffectivelyRead(n)}
              /\ unread_at' = (unread_at \ movable) \cup
                    {n \in movable : ~EffectivelyRead(n) /\ NeedsOverride(n, target.read_watermark)}
              /\ archived_at' = (archived_at \ movable) \cup {n \in movable : EffectivelyArchived(n)}
              /\ unarchived_at' = (unarchived_at \ movable) \cup
                    {n \in movable : ~EffectivelyArchived(n)
                                     /\ NeedsOverride(n, target.archive_watermark)}
              /\ muted' = nowMuted
              /\ counters' = [counters EXCEPT ![from] = Recount(from, begin, @, nowMuted),
                                              ![to] = Recount(to, begin, @, nowMuted)]
              /\ hints' = hints \cup {MoveTargets(from, to)}
              /\ Skews({from, to}, begin, nowMuted)
              /\ UNCHANGED <<now, createVars, visible_at, jobVars, broadcastVars, overrideVars,
                             rebuilds, waiting, seen_mutes, parked, flips, parks>>
    BY Zenon DEF MoveNotifications
<1>2. begin \in Int /\ begin <= now
    BY <1>1, TimesAreIntegers DEF BeganSince
<1>3. PICK movable : movable = {n \in ids : /\ n \in stored /\ subscriber_id[n] = from
                                            /\ visible_at[n] <= begin /\ ~PendingDeliver(n)}
    OBVIOUS
<1>4. PICK hidden : hidden = muted \cup {<<to, c>> : c \in {c \in Categories : <<from, c>> \in muted}}
    OBVIOUS
<1>5. movable \subseteq stored /\ \A n \in movable : subscriber_id[n] = from
    BY <1>3
<1>6. Moves(from, to, movable, begin, hidden)
    BY <1>1, <1>2, <1>3, <1>4, <1>5, Zenon DEF Moves, MoveTargets
<1> QED
    BY <1>6

\* Row by row, and counter by counter.
LEMMA MoveFields ==
    ASSUME TypeOK, NEW from \in Subs, NEW to \in Subs, NEW movable, NEW begin, NEW hidden,
           Moves(from, to, movable, begin, hidden)
    PROVE  /\ \A n \in Notifs \ movable :
                 /\ subscriber_id'[n] = subscriber_id[n]
                 /\ n \in read_at' <=> n \in read_at
                 /\ n \in unread_at' <=> n \in unread_at
                 /\ n \in archived_at' <=> n \in archived_at
                 /\ n \in unarchived_at' <=> n \in unarchived_at
           /\ \A n \in movable :
                 /\ n \in stored /\ n \in Notifs
                 /\ subscriber_id[n] = from /\ subscriber_id'[n] = to
                 /\ n \in read_at' <=> EffectivelyRead(n)
                 /\ n \in unread_at' <=>
                       ~EffectivelyRead(n) /\ visible_at[n] <= counters[to].read_watermark
                 /\ n \in archived_at' <=> EffectivelyArchived(n)
                 /\ n \in unarchived_at' <=>
                       ~EffectivelyArchived(n) /\ visible_at[n] <= counters[to].archive_watermark
           /\ WatermarksStand
           /\ counters' \in [Subs -> CountersRow]
           /\ counters'[from] = Recount(from, begin, counters[from], hidden)
           /\ counters'[to] = Recount(to, begin, counters[to], hidden)
           /\ \A t \in Subs \ {from, to} : counters'[t] = counters[t]
<1>1. /\ movable \subseteq stored /\ stored \subseteq Notifs /\ from # to
      /\ \A n \in movable : n \in stored /\ n \in Notifs /\ subscriber_id[n] = from
    BY DEF Moves, TypeOK
<1>2. \A n \in Notifs : subscriber_id'[n] = IF n \in movable THEN to ELSE subscriber_id[n]
    BY DEF Moves
<1>3. /\ \A n \in Notifs \ movable : /\ n \in read_at' <=> n \in read_at
                                     /\ n \in unread_at' <=> n \in unread_at
      /\ \A n \in movable :
            /\ n \in read_at' <=> EffectivelyRead(n)
            /\ n \in unread_at' <=>
                  ~EffectivelyRead(n) /\ visible_at[n] <= counters[to].read_watermark
    BY DEF Moves, NeedsOverride
<1>4. /\ \A n \in Notifs \ movable : /\ n \in archived_at' <=> n \in archived_at
                                     /\ n \in unarchived_at' <=> n \in unarchived_at
      /\ \A n \in movable :
            /\ n \in archived_at' <=> EffectivelyArchived(n)
            /\ n \in unarchived_at' <=>
                  ~EffectivelyArchived(n) /\ visible_at[n] <= counters[to].archive_watermark
    BY DEF Moves, NeedsOverride
<1>5. PICK rowFrom, rowTo : rowFrom = counters[from] /\ rowTo = counters[to]
    OBVIOUS
<1>6. PICK nextFrom, nextTo : /\ nextFrom = Recount(from, begin, rowFrom, hidden)
                              /\ nextTo = Recount(to, begin, rowTo, hidden)
    OBVIOUS
<1>7. rowFrom \in CountersRow /\ rowTo \in CountersRow
    BY <1>5 DEF TypeOK
<1>8. /\ nextFrom \in CountersRow
      /\ nextFrom.read_watermark = rowFrom.read_watermark
      /\ nextFrom.seen_watermark = rowFrom.seen_watermark
      /\ nextFrom.archive_watermark = rowFrom.archive_watermark
    BY <1>6, <1>7, RecountFields
<1>9. /\ nextTo \in CountersRow
      /\ nextTo.read_watermark = rowTo.read_watermark
      /\ nextTo.seen_watermark = rowTo.seen_watermark
      /\ nextTo.archive_watermark = rowTo.archive_watermark
    BY <1>6, <1>7, RecountFields
<1>10. counters' = [counters EXCEPT ![from] = nextFrom, ![to] = nextTo]
    BY <1>1, <1>5, <1>6, Zenon DEF Moves
<1>11. /\ counters' \in [Subs -> CountersRow]
       /\ counters'[from] = nextFrom /\ counters'[to] = nextTo
       /\ \A t \in Subs \ {from, to} : counters'[t] = counters[t]
    BY <1>1, <1>8, <1>9, <1>10 DEF TypeOK
<1>12. WatermarksStand
    BY <1>5, <1>8, <1>9, <1>11 DEF WatermarksStand
<1> QED
    BY <1>1, <1>2, <1>3, <1>4, <1>5, <1>6, <1>11, <1>12

LEMMA MoveRows ==
    ASSUME DeliverInv, NEW from \in Subs, NEW to \in Subs, NEW movable, NEW begin, NEW hidden,
           Moves(from, to, movable, begin, hidden)
    PROVE  TypeOK' /\ RowsInv' /\ DeliverInv'
<1>1. /\ TypeOK /\ RowsInv /\ WatermarksPast /\ FlagsOnStored /\ OverridesOnAnnounced
      /\ OpenUnstored /\ OverridesAreExceptions
    BY DEF DeliverInv, RowsInv
<1>2. /\ now \in Int /\ stored \subseteq Notifs
      /\ \A n \in Notifs : visible_at[n] \in Int
      /\ UNCHANGED <<now, createVars, visible_at, jobVars, broadcastVars, overrideVars>>
    BY <1>1, TimesAreIntegers DEF Moves, TypeOK
<1>3. /\ \A n \in Notifs \ movable :
            /\ subscriber_id'[n] = subscriber_id[n]
            /\ n \in read_at' <=> n \in read_at
            /\ n \in unread_at' <=> n \in unread_at
            /\ n \in archived_at' <=> n \in archived_at
            /\ n \in unarchived_at' <=> n \in unarchived_at
      /\ \A n \in movable :
            /\ n \in stored /\ n \in Notifs
            /\ subscriber_id'[n] = to
            /\ n \in read_at' <=> EffectivelyRead(n)
            /\ n \in unread_at' <=>
                  ~EffectivelyRead(n) /\ visible_at[n] <= counters[to].read_watermark
            /\ n \in archived_at' <=> EffectivelyArchived(n)
            /\ n \in unarchived_at' <=>
                  ~EffectivelyArchived(n) /\ visible_at[n] <= counters[to].archive_watermark
      /\ WatermarksStand
      /\ counters' \in [Subs -> CountersRow]
    BY <1>1, MoveFields
<1>4. /\ read_at' \subseteq stored /\ unread_at' \subseteq stored
      /\ archived_at' \subseteq stored /\ unarchived_at' \subseteq stored
    <2>1. /\ read_at \subseteq stored /\ unread_at \subseteq stored
          /\ archived_at \subseteq stored /\ unarchived_at \subseteq stored
          /\ movable \subseteq stored
        BY <1>1 DEF FlagsOnStored, Moves
    <2> QED
        BY <2>1 DEF Moves
<1>5. subscriber_id' \in [Notifs -> Subs] /\ muted' \subseteq Subs \X Categories
      /\ hints' \subseteq SUBSET Subs
    <2>1. \A c \in Categories : <<to, c>> \in Subs \X Categories
        OBVIOUS
    <2>2. muted \subseteq Subs \X Categories /\ hints \subseteq SUBSET Subs
          /\ subscriber_id \in [Notifs -> Subs]
        BY <1>1 DEF TypeOK
    <2>3. subscriber_id' \in [Notifs -> Subs]
        BY <2>2 DEF Moves
    <2>4. muted' \subseteq Subs \X Categories
        BY <2>1, <2>2 DEF Moves
    <2>5. hints' \subseteq SUBSET Subs
        BY <2>2 DEF Moves
    <2> QED
        BY <2>3, <2>4, <2>5
<1>6. TypeOK'
    BY <1>1, <1>2, <1>3, <1>4, <1>5
       DEF TypeOK, createVars, jobVars, broadcastVars, overrideVars
<1>7. WatermarksPast'
    BY <1>1, <1>2, <1>3 DEF WatermarksPast, WatermarksStand
<1>8. FlagsOnStored' /\ OverridesOnAnnounced' /\ OpenUnstored'
    BY <1>1, <1>2, <1>4
       DEF FlagsOnStored, OverridesOnAnnounced, OpenUnstored, createVars, broadcastVars, overrideVars
<1>9. OverridesAreExceptions'
    <2>1. ASSUME NEW n \in Notifs
          PROVE  /\ ~(n \in read_at' /\ n \in unread_at')
                 /\ ~(n \in archived_at' /\ n \in unarchived_at')
        <3>1. CASE n \in movable
            BY <1>3, <3>1
        <3>2. CASE n \notin movable
            BY <1>1, <1>3, <3>2 DEF OverridesAreExceptions
        <3> QED
            BY <3>1, <3>2
    <2>2. ASSUME NEW n \in Notifs
          PROVE  /\ n \in unread_at' =>
                       visible_at'[n] <= counters'[subscriber_id'[n]].read_watermark
                 /\ n \in unarchived_at' =>
                       visible_at'[n] <= counters'[subscriber_id'[n]].archive_watermark
        <3>1. CASE n \in movable
            BY <1>2, <1>3, <3>1 DEF WatermarksStand
        <3>2. CASE n \notin movable
            <4>1. /\ subscriber_id[n] \in Subs /\ subscriber_id'[n] = subscriber_id[n]
                  /\ n \in unread_at' <=> n \in unread_at
                  /\ n \in unarchived_at' <=> n \in unarchived_at
                  /\ visible_at'[n] = visible_at[n]
                BY <1>1, <1>2, <1>3, <3>2, TimesAreIntegers
            <4>2. /\ n \in unread_at => visible_at[n] <= counters[subscriber_id[n]].read_watermark
                  /\ n \in unarchived_at =>
                        visible_at[n] <= counters[subscriber_id[n]].archive_watermark
                BY <1>1 DEF OverridesAreExceptions
            <4> QED
                BY <1>3, <4>1, <4>2 DEF WatermarksStand
        <3> QED
            BY <3>1, <3>2
    <2>3. \A s \in Subs, b \in Broadcasts :
             /\ broadcast_reads'[s, b] = "true" => created_at'[b] > counters'[s].read_watermark
             /\ broadcast_reads'[s, b] = "false" => created_at'[b] <= counters'[s].read_watermark
             /\ broadcast_archives'[s, b] = "true" => created_at'[b] > counters'[s].archive_watermark
             /\ broadcast_archives'[s, b] = "false" => created_at'[b] <= counters'[s].archive_watermark
        BY <1>1, <1>2, <1>3 DEF OverridesAreExceptions, WatermarksStand, broadcastVars, overrideVars
    <2>4. /\ read_at' \subseteq Notifs /\ unread_at' \subseteq Notifs
          /\ archived_at' \subseteq Notifs /\ unarchived_at' \subseteq Notifs
        BY <1>2, <1>4
    <2> QED
        BY <2>1, <2>2, <2>3, <2>4 DEF OverridesAreExceptions
<1>10. RowsInv'
    BY <1>6, <1>7, <1>8, <1>9 DEF RowsInv
<1>11. DeliverInv'
    <2>1. /\ stored' = stored /\ jobs' = jobs /\ creating' = creating /\ scheduled' = scheduled
          /\ visible_at' = visible_at /\ now' = now
        BY <1>2 DEF createVars, jobVars
    <2>2. \A r \in Requests : RunAt(r)' = RunAt(r)
        BY <2>1 DEF RunAt
    <2>3. \A n : PendingDeliver(n)' <=> PendingDeliver(n)
        BY <1>2 DEF PendingDeliver, jobVars
    <2>4. \A n \in Notifs \ stored : subscriber_id'[n] = RecipientOf[n]
        BY <1>3 DEF DeliverInv
    <2>5. jobs \subseteq Requests /\ creating \subseteq Requests
        BY <1>1 DEF TypeOK
    <2>6. /\ \A r \in jobs : Ids(r) \subseteq stored
          /\ \A r \in jobs \cup creating : \A n \in Ids(r) : visible_at[n] = RunAt(r)'
          /\ \A r \in creating \ scheduled : RunAt(r)' <= now
        BY <2>2, <2>5 DEF DeliverInv
    <2>7. \A n \in stored : visible_at[n] > now => PendingDeliver(n)'
        BY <2>3 DEF DeliverInv
    <2> QED
        BY <1>10, <2>1, <2>4, <2>6, <2>7 DEF DeliverInv
<1> QED
    BY <1>6, <1>10, <1>11

\* The move mends the counters of both, unless a row came to be visible while
\* it waited; nobody else's change.
LEMMA MoveStep ==
    ASSUME UpkeepInv, NEW from \in Subs, NEW to \in Subs, NEW ids,
           MoveNotifications(from, to, ids)
    PROVE  UpkeepInv'
<1>1. /\ TypeOK /\ DeliverInv /\ CreatedPast /\ ParkedInv /\ RestInv /\ now \in Int
    BY TimesAreIntegers DEF UpkeepInv, UpkeepTypeOK
<1>2. PICK begin, movable, hidden : Moves(from, to, movable, begin, hidden)
    BY <1>1, MoveFacts, Zenon
<1>3. TypeOK' /\ DeliverInv'
    BY <1>1, <1>2, MoveRows, Zenon
<1>4. /\ begin \in Int /\ begin <= now /\ from # to /\ movable \subseteq stored
      /\ UNCHANGED <<now, createVars, visible_at, jobVars, broadcastVars, rebuilds, waiting,
                     seen_mutes, parked>>
      /\ muted' = hidden
      /\ hidden = muted \cup {<<to, c>> : c \in {c \in Categories : <<from, c>> \in muted}}
      /\ skewed' = (skewed \ {from, to}) \cup
            {s \in {from, to} : \/ \E n \in stored : /\ Recounts(s, n, now, hidden)
                                                    /\ ~Recounts(s, n, begin, hidden)
                                \/ \E r \in parked : s \in Recipients(r)'}
    BY <1>2 DEF Moves, Skews
<1>5. /\ \A n \in Notifs \ movable :
            /\ subscriber_id'[n] = subscriber_id[n]
            /\ n \in read_at' <=> n \in read_at
            /\ n \in unread_at' <=> n \in unread_at
            /\ n \in archived_at' <=> n \in archived_at
            /\ n \in unarchived_at' <=> n \in unarchived_at
      /\ \A n \in movable : subscriber_id[n] = from /\ subscriber_id'[n] = to
      /\ counters'[from] = Recount(from, begin, counters[from], hidden)
      /\ counters'[to] = Recount(to, begin, counters[to], hidden)
      /\ \A t \in Subs \ {from, to} : counters'[t] = counters[t]
    BY <1>1, <1>2, MoveFields
<1>6. CreatedPast'
    BY <1>1, <1>4 DEF CreatedPast, broadcastVars
<1>7. UpkeepTypeOK'
    <2>1. skewed' \subseteq Subs
        BY <1>4 DEF UpkeepInv, UpkeepTypeOK
    <2> QED
        BY <1>3, <1>4, <2>1 DEF UpkeepInv, UpkeepTypeOK, createVars, jobVars
<1>8. ParkedInv'
    <2>1. ASSUME NEW r \in parked
          PROVE  Recipients(r)' \subseteq skewed'
        <3>1. ASSUME NEW n \in Ids(r)
              PROVE  subscriber_id'[n] \in skewed'
            <4>1. n \in Notifs /\ subscriber_id[n] \in skewed /\ subscriber_id'[n] \in Recipients(r)'
                BY <1>1, <2>1, <3>1, RequestFacts DEF ParkedInv, Recipients, UpkeepInv, UpkeepTypeOK
            <4>2. CASE subscriber_id'[n] \in {from, to}
                BY <1>4, <2>1, <4>1, <4>2
            <4>3. CASE subscriber_id'[n] \notin {from, to}
                BY <1>4, <1>5, <4>1, <4>3
            <4> QED
                BY <4>2, <4>3
        <3> QED
            BY <3>1 DEF Recipients
    <2>2. \A r \in parked : RunAt(r)' = RunAt(r)
        BY <1>4 DEF RunAt
    <2> QED
        BY <1>1, <1>4, <2>1, <2>2 DEF ParkedInv, createVars
<1>9. ASSUME NEW t \in Subs \ skewed', Settled(t)'
      PROVE  ExactOf(t)'
    <2>1. CASE t \in {from, to}
        <3>1. PICK row : row = counters[t]
            OBVIOUS
        <3>2. /\ \A n \in stored : Recounts(t, n, now, hidden) => Recounts(t, n, begin, hidden)
              /\ counters'[t] = Recount(t, begin, row, hidden)
            BY <1>4, <1>5, <1>9, <2>1, <3>1
        <3> QED
            BY <1>1, <1>3, <1>4, <3>1, <3>2, RecountExact DEF createVars
    <2>2. CASE t \notin {from, to}
        <3>1. Settled(t) /\ t \in Subs \ skewed
            BY <1>4, <1>9, <2>2 DEF Settled
        <3>2. \A n \in stored : n \in Notifs
            BY <1>1 DEF TypeOK
        <3>3. \A n \in stored : /\ subscriber_id'[n] = t <=> subscriber_id[n] = t
                                /\ subscriber_id[n] = t => n \notin movable
            BY <1>5, <2>2, <3>2
        <3>4. \A n \in stored : subscriber_id[n] = t => (Muted(n, muted)' <=> Muted(n, muted))
            <4>1. \A c : <<t, c>> \in hidden <=> <<t, c>> \in muted
                BY <1>4, <2>2
            <4> QED
                BY <1>4, <3>3, <4>1 DEF Muted
        <3>5. \A n : PendingDeliver(n)' <=> PendingDeliver(n)
            BY <1>4 DEF PendingDeliver, jobVars
        <3>6. CountedStands(t)
            BY <1>4, <1>5, <2>2, <3>2, <3>3, <3>4, <3>5 DEF CountedStands, createVars
        <3> QED
            BY <1>1, <1>3, <1>4, <3>1, <3>6, OthersExact
    <2> QED
        BY <2>1, <2>2
<1> QED
    BY <1>3, <1>6, <1>7, <1>8, <1>9 DEF UpkeepInv, RestInv

----------------------------------------------------------------------------
(* The specification *)

LEMMA UpkeepInvStep == UpkeepInv /\ [UpkeepNext]_allUpkeepVars => UpkeepInv'
<1> SUFFICES ASSUME UpkeepInv, [UpkeepNext]_allUpkeepVars
             PROVE  UpkeepInv'
    OBVIOUS
<1>1. /\ waiting \subseteq creating
      /\ seen_mutes \in [Requests -> SUBSET (Subs \X Categories)]
      /\ TypeOK /\ OpenUnstored
    BY DEF UpkeepInv, UpkeepTypeOK, DeliverInv, RowsInv
<1>2. CASE Next /\ creating \cap waiting \subseteq creating' /\ UNCHANGED upkeepVars
    BY <1>1, <1>2, CoreUpkeep DEF upkeepVars
<1>3. CASE UNCHANGED allUpkeepVars
    <2>1. UNCHANGED vars /\ UNCHANGED upkeepVars /\ UNCHANGED creating
        BY <1>3 DEF allUpkeepVars, vars, createVars
    <2> QED
        BY <1>1, <2>1, CoreUpkeep DEF upkeepVars
<1>4. ASSUME NEW s \in Acting, NEW c \in Categories, WritePreference(s, c)
      PROVE  UpkeepInv'
    BY <1>4, BoundsAssumption, PreferenceStep DEF BoundsAssumption
<1>5. ASSUME NEW job \in rebuilds, ProcessCounterRebuild(job)
      PROVE  UpkeepInv'
    BY <1>5, RebuildStep
<1>6. ASSUME NEW r \in Requests,
             \/ StartCountersUpdate(r) \/ FinishCreate(r) \/ AbandonCreate(r)
             \/ ParkDeliver(r) \/ ReplayDeliver(r)
      PROVE  UpkeepInv'
    BY <1>6, StartStep, FinishStep, AbandonStep, ParkStep
<1>7. ASSUME NEW from \in Subs, NEW to \in Acting, NEW ids \in SUBSET Notifs,
             MoveNotifications(from, to, ids)
      PROVE  UpkeepInv'
    BY <1>7, BoundsAssumption, MoveStep DEF BoundsAssumption
<1> QED
    BY <1>2, <1>3, <1>4, <1>5, <1>6, <1>7 DEF UpkeepNext

LEMMA ExactIsExactFor ==
    ASSUME NEW s \in Subs, ExactOf(s)
    PROVE  ExactFor(s)
<1>1. {n \in ListDirect(s, "unread") : ~PendingDeliver(n)} = UnreadSet(s)
    BY DEF ListDirect, UnreadSet, InUnread
<1>2. {n \in ListDirect(s, "default") \cup ListDirect(s, "archived") :
           ~PendingDeliver(n) /\ visible_at[n] > counters[s].seen_watermark} = UnseenSet(s)
    <2>1. \A n : n \in ListDirect(s, "default") \cup ListDirect(s, "archived") <=>
                    n \in Notifs /\ Visible(n) /\ subscriber_id[n] = s /\ ~Muted(n, muted)
        BY DEF ListDirect
    <2> QED
        BY <2>1 DEF UnseenSet, InUnseen
<1> QED
    BY <1>1, <1>2 DEF ExactOf, ExactFor

\* With no recount queued for a subscriber, and nothing since their last one
\* that only a recount mends, their counters are what the list says, whoever
\* writes preferences, moves notifications, parks and replays jobs, and however
\* long a transaction waited for its locks (recount_subscriber,
\* process_counter_rebuild, move_notifications_txn, replay_where).
THEOREM RestsExact == UpkeepSpec => []ExactAtRest
<1>1. UpkeepInv => ExactAtRest
    BY ExactIsExactFor DEF UpkeepInv, RestInv, Settled, ExactAtRest
<1> QED
    BY <1>1, UpkeepInvInit, UpkeepInvStep, PTL DEF UpkeepSpec

LEMMA MoveKeeps ==
    ASSUME TypeOK, NEW from \in Subs, NEW to \in Subs, NEW ids,
           MoveNotifications(from, to, ids),
           NEW n \in Notifs, subscriber_id'[n] # subscriber_id[n]
    PROVE  /\ EffectivelyRead(n)' = EffectivelyRead(n)
           /\ EffectivelyArchived(n)' = EffectivelyArchived(n)
<1>1. PICK begin, movable, hidden : Moves(from, to, movable, begin, hidden)
    BY MoveFacts, Zenon
<1>2. /\ \A m \in Notifs \ movable : subscriber_id'[m] = subscriber_id[m]
      /\ \A m \in movable :
            /\ subscriber_id'[m] = to
            /\ m \in read_at' <=> EffectivelyRead(m)
            /\ m \in unread_at' <=>
                  ~EffectivelyRead(m) /\ visible_at[m] <= counters[to].read_watermark
            /\ m \in archived_at' <=> EffectivelyArchived(m)
            /\ m \in unarchived_at' <=>
                  ~EffectivelyArchived(m) /\ visible_at[m] <= counters[to].archive_watermark
      /\ WatermarksStand
    BY <1>1, MoveFields
<1>3. /\ subscriber_id'[n] = to
      /\ n \in read_at' <=> EffectivelyRead(n)
      /\ n \in unread_at' <=> ~EffectivelyRead(n) /\ visible_at[n] <= counters[to].read_watermark
      /\ n \in archived_at' <=> EffectivelyArchived(n)
      /\ n \in unarchived_at' <=>
            ~EffectivelyArchived(n) /\ visible_at[n] <= counters[to].archive_watermark
      /\ visible_at'[n] = visible_at[n]
      /\ counters'[to].read_watermark = counters[to].read_watermark
      /\ counters'[to].archive_watermark = counters[to].archive_watermark
    BY <1>1, <1>2 DEF Moves, WatermarksStand
<1>4. /\ EffectivelyRead(n)' <=>
            \/ n \in read_at'
            \/ n \notin unread_at' /\ visible_at[n] <= counters[to].read_watermark
      /\ EffectivelyArchived(n)' <=>
            \/ n \in archived_at'
            \/ n \notin unarchived_at' /\ visible_at[n] <= counters[to].archive_watermark
    BY <1>3 DEF EffectivelyRead, EffectivelyArchived
<1>5. (EffectivelyRead(n)' <=> EffectivelyRead(n))
      /\ (EffectivelyArchived(n)' <=> EffectivelyArchived(n))
    BY <1>3, <1>4, Zenon
<1>6. /\ EffectivelyRead(n) \in BOOLEAN /\ EffectivelyRead(n)' \in BOOLEAN
      /\ EffectivelyArchived(n) \in BOOLEAN /\ EffectivelyArchived(n)' \in BOOLEAN
    BY DEF EffectivelyRead, EffectivelyArchived
<1> QED
    BY <1>5, <1>6

LEMMA OwnersStand ==
    ASSUME TypeOK,
           \/ Next
           \/ UNCHANGED allUpkeepVars
           \/ \E s \in Acting, c \in Categories : WritePreference(s, c)
           \/ \E job \in rebuilds : ProcessCounterRebuild(job)
           \/ \E r \in Requests : \/ StartCountersUpdate(r) \/ FinishCreate(r)
                                  \/ AbandonCreate(r) \/ ParkDeliver(r) \/ ReplayDeliver(r)
    PROVE  subscriber_id' = subscriber_id
<1>1. CASE Next
    BY <1>1, CoreKeeps
<1>2. CASE UNCHANGED allUpkeepVars
    BY <1>2 DEF allUpkeepVars, vars, fixedVars
<1>3. CASE \/ \E s \in Acting, c \in Categories : WritePreference(s, c)
           \/ \E job \in rebuilds : ProcessCounterRebuild(job)
    BY <1>3 DEF WritePreference, ProcessCounterRebuild, fixedVars
<1>4. ASSUME NEW r \in Requests,
             \/ StartCountersUpdate(r) \/ FinishCreate(r)
             \/ AbandonCreate(r) \/ ParkDeliver(r) \/ ReplayDeliver(r)
      PROVE  subscriber_id' = subscriber_id
    BY <1>4
       DEF StartCountersUpdate, FinishCreate, AbandonCreate, ParkDeliver, ReplayDeliver,
           CommitImmediate, RollbackCreate, vars, fixedVars
<1> QED
    BY <1>1, <1>2, <1>3, <1>4

\* A notification that changes hands is read, or archived, for its new
\* subscriber exactly if it was for the old one, whatever the watermarks of
\* either are; and nothing but a move changes hands (move_notifications_txn).
THEOREM MovesLookTheSame == UpkeepSpec => MovesKeepState
<1>1. UpkeepInv /\ [UpkeepNext]_allUpkeepVars =>
         [\A n \in Notifs : subscriber_id'[n] # subscriber_id[n] =>
             /\ EffectivelyRead(n)' = EffectivelyRead(n)
             /\ EffectivelyArchived(n)' = EffectivelyArchived(n)]_allUpkeepVars
    <2> SUFFICES ASSUME UpkeepInv, UpkeepNext, NEW n \in Notifs,
                        subscriber_id'[n] # subscriber_id[n]
                 PROVE  /\ EffectivelyRead(n)' = EffectivelyRead(n)
                        /\ EffectivelyArchived(n)' = EffectivelyArchived(n)
        OBVIOUS
    <2>1. TypeOK
        BY DEF UpkeepInv, UpkeepTypeOK
    <2>2. PICK from \in Subs, to \in Acting, ids \in SUBSET Notifs :
              MoveNotifications(from, to, ids)
        BY <2>1, OwnersStand DEF UpkeepNext
    <2> QED
        BY <2>1, <2>2, BoundsAssumption, MoveKeeps, Zenon DEF BoundsAssumption
<1> QED
    BY <1>1, UpkeepInvInit, UpkeepInvStep, PTL DEF UpkeepSpec, MovesKeepState

----------------------------------------------------------------------------
(* What changes is announced *)

\* Steps that write no row, no counter and no broadcast show everybody whose
\* mutes they leave what they were shown.
LEMMA SameRowsUntouched ==
    ASSUME NEW t, \A c : <<t, c>> \in muted' <=> <<t, c>> \in muted,
           counters'[t] = counters[t],
           UNCHANGED <<now, stored, rowVars, broadcastVars, overrideVars, subscriber_id>>
    PROVE  Untouched(t)
BY DEF Untouched, Has, Hears, Visible, BroadcastVisible, rowVars, broadcastVars, overrideVars

LEMMA PreferenceTells ==
    ASSUME NEW s \in Subs, NEW c \in Categories, WritePreference(s, c), NEW t \in Subs
    PROVE  Told(t)
<1>1. CASE t = s
    BY <1>1, HintTells DEF WritePreference
<1>2. CASE t # s
    <2>1. \A d : <<t, d>> \in muted' <=> <<t, d>> \in muted
        BY <1>2 DEF WritePreference
    <2>2. /\ UNCHANGED <<now, stored, rowVars, broadcastVars, overrideVars, subscriber_id>>
          /\ counters' = counters
        BY DEF WritePreference, createVars
    <2> QED
        BY <2>1, <2>2, SameRowsUntouched DEF Told
<1> QED
    BY <1>1, <1>2

LEMMA RebuildTells ==
    ASSUME TypeOK, NEW job \in rebuilds, ProcessCounterRebuild(job), NEW t \in Subs
    PROVE  Told(t)
<1>1. PICK s : s = job[1]
    OBVIOUS
<1>2. CASE t = s
    BY <1>1, <1>2, HintTells DEF ProcessCounterRebuild
<1>3. CASE t # s
    <2>1. /\ UNCHANGED <<now, stored, rowVars, broadcastVars, overrideVars, subscriber_id>>
          /\ muted' = muted
          /\ counters'[t] = counters[t]
        BY <1>1, <1>3 DEF ProcessCounterRebuild, createVars, fixedVars, TypeOK
    <2> QED
        BY <2>1, SameRowsUntouched DEF Told
<1> QED
    BY <1>2, <1>3

LEMMA MoveTells ==
    ASSUME TypeOK, NEW from \in Subs, NEW to \in Subs, NEW ids,
           MoveNotifications(from, to, ids), NEW t \in Subs
    PROVE  Told(t)
<1>1. PICK begin, movable, hidden : Moves(from, to, movable, begin, hidden)
    BY MoveFacts, Zenon
<1>2. CASE t \in {from, to}
    BY <1>1, <1>2, HintTells DEF Moves
<1>3. CASE t \notin {from, to}
    <2>1. /\ \A n \in Notifs \ movable :
                /\ subscriber_id'[n] = subscriber_id[n]
                /\ n \in read_at' <=> n \in read_at
                /\ n \in unread_at' <=> n \in unread_at
                /\ n \in archived_at' <=> n \in archived_at
                /\ n \in unarchived_at' <=> n \in unarchived_at
          /\ \A n \in movable : subscriber_id[n] = from /\ subscriber_id'[n] = to
          /\ counters'[t] = counters[t]
        BY <1>1, <1>3, MoveFields
    <2>2. /\ UNCHANGED <<now, stored, visible_at, broadcastVars, overrideVars>>
          /\ muted' = muted \cup {<<to, c>> : c \in {c \in Categories : <<from, c>> \in muted}}
        BY <1>1 DEF Moves, createVars
    <2>3. \A c : <<t, c>> \in muted' <=> <<t, c>> \in muted
        BY <1>3, <2>2
    <2>4. \A n \in Notifs : /\ subscriber_id'[n] = t <=> subscriber_id[n] = t
                            /\ subscriber_id[n] = t => n \notin movable
        BY <1>3, <2>1
    <2>5. Has(t)' = Has(t)
        BY <2>2, <2>4 DEF Has, Visible
    <2>6. \A n \in Has(t) : n \in Notifs \ movable
        BY <2>4 DEF Has
    <2>7. Hears(t)' = Hears(t)
        BY <2>2 DEF Hears, BroadcastVisible, broadcastVars
    <2>8. Untouched(t)
        BY <2>1, <2>2, <2>3, <2>5, <2>6, <2>7 DEF Untouched, broadcastVars, overrideVars
    <2> QED
        BY <2>8 DEF Told
<1> QED
    BY <1>2, <1>3

LEMMA RequestTells ==
    ASSUME DeliverInv, RowsInv', NEW r \in Requests,
           \/ StartCountersUpdate(r) \/ FinishCreate(r) \/ AbandonCreate(r)
           \/ ParkDeliver(r) \/ ReplayDeliver(r),
           NEW t \in Subs
    PROVE  Told(t)
<1>1. CASE FinishCreate(r)
    <2>1. PICK hidden : hidden = seen_mutes[r]
        OBVIOUS
    <2>2. CommitImmediate(r, hidden)
        BY <1>1, <2>1 DEF FinishCreate
    <2> QED
        BY <2>2, CreateTells
<1>2. CASE AbandonCreate(r)
    <2>1. RollbackCreate(r)
        BY <1>2 DEF AbandonCreate
    <2> QED
        BY <2>1, CreateTells
<1>3. CASE StartCountersUpdate(r) \/ ParkDeliver(r) \/ ReplayDeliver(r)
    <2>1. /\ UNCHANGED <<now, stored, rowVars, broadcastVars, overrideVars, subscriber_id>>
          /\ muted' = muted /\ counters' = counters
        BY <1>3
           DEF StartCountersUpdate, ParkDeliver, ReplayDeliver, vars, createVars, fixedVars
    <2> QED
        BY <2>1, SameRowsUntouched DEF Told
<1> QED
    BY <1>1, <1>2, <1>3

\* Preference writes, recounts, moves and creates that waited included:
\* whatever changes what a subscriber is shown leaves a hint for them queued,
\* or a due deliver job that will queue one (put_preference,
\* process_counter_rebuild, move_notifications_txn).
THEOREM UpkeepIsHinted == UpkeepSpec => UpkeepHintsCoverChanges
<1>1. UpkeepInv /\ UpkeepInv' /\ [UpkeepNext]_allUpkeepVars =>
         [\A s \in Subs : Shown(s)' # Shown(s) => Announced(s)']_allUpkeepVars
    <2> SUFFICES ASSUME UpkeepInv, UpkeepInv', UpkeepNext, NEW t \in Subs, Shown(t)' # Shown(t)
                 PROVE  Announced(t)'
        OBVIOUS
    <2>1. /\ TypeOK /\ DeliverInv /\ PromiseInv
          /\ TypeOK' /\ RowsInv'
        BY DEF UpkeepInv, UpkeepTypeOK, DeliverInv, PromiseInv
    <2>2. CASE Next
        BY <2>1, <2>2, StepTells, UntouchedShown DEF Told
    <2>3. ASSUME NEW s \in Acting, NEW c \in Categories, WritePreference(s, c)
          PROVE  Told(t)
        BY <2>3, BoundsAssumption, PreferenceTells DEF BoundsAssumption
    <2>4. ASSUME NEW job \in rebuilds, ProcessCounterRebuild(job)
          PROVE  Told(t)
        BY <2>1, <2>4, RebuildTells
    <2>5. ASSUME NEW r \in Requests,
                 \/ StartCountersUpdate(r) \/ FinishCreate(r) \/ AbandonCreate(r)
                 \/ ParkDeliver(r) \/ ReplayDeliver(r)
          PROVE  Told(t)
        BY <2>1, <2>5, RequestTells
    <2>6. ASSUME NEW from \in Subs, NEW to \in Acting, NEW ids \in SUBSET Notifs,
                 MoveNotifications(from, to, ids)
          PROVE  Told(t)
        BY <2>1, <2>6, BoundsAssumption, MoveTells DEF BoundsAssumption
    <2>7. Next \/ Told(t)
        BY <2>3, <2>4, <2>5, <2>6 DEF UpkeepNext
    <2> QED
        BY <2>1, <2>2, <2>7, UntouchedShown DEF Told
<1>2. UpkeepInv /\ [UpkeepNext]_allUpkeepVars => UpkeepInv'
    BY UpkeepInvStep
<1> QED
    BY <1>1, <1>2, UpkeepInvInit, PTL DEF UpkeepSpec, UpkeepHintsCoverChanges

----------------------------------------------------------------------------
(***************************************************************************)
(* The validator of a list.  Until the counters row is written again, what *)
(* the reader was shown stands (Undisturbed), and what comes to be shown   *)
(* is younger than the latest item the validator names, or was overtaken   *)
(* by it.                                                                  *)
(***************************************************************************)

MyRows == {n \in Notifs : Visible(n) /\ subscriber_id[n] = Reader}

\* The latest item exists, and is the one that comes after all others.
LatestIsFirst ==
    /\ LatestDirect \subseteq MyRows
    /\ MyRows # {} => LatestDirect # {}
    /\ \A m \in LatestDirect, n \in MyRows : n = m \/ After(RowKey(m), RowKey(n))
    /\ \A m \in MyRows :
          (\A n \in MyRows : n = m \/ After(RowKey(m), RowKey(n))) => LatestDirect = {m}
    /\ LatestBroadcast \subseteq announced
    /\ announced # {} => LatestBroadcast # {}
    /\ \A m \in LatestBroadcast, b \in announced :
          b = m \/ After(BroadcastKey(m), BroadcastKey(b))
    /\ \A m \in announced :
          (\A b \in announced : b = m \/ After(BroadcastKey(m), BroadcastKey(b)))
              => LatestBroadcast = {m}

LEMMA LatestOf == ArchiveTypeOK => LatestIsFirst
<1> SUFFICES ASSUME ArchiveTypeOK PROVE LatestIsFirst
    OBVIOUS
<1>1. /\ \A n \in Notifs : RowKey(n) \in Keys
      /\ \A b \in Broadcasts : BroadcastKey(b) \in Keys
    BY KeyTypes
<1>2. /\ \A n, m \in Notifs : RowKey(n) = RowKey(m) => n = m
      /\ \A b, c \in Broadcasts : BroadcastKey(b) = BroadcastKey(c) => b = c
    BY ArchiveAssumption DEF ArchiveAssumption, RowKey, BroadcastKey
<1>3. MyRows \in SUBSET Notifs /\ announced \in SUBSET Broadcasts
    BY DEF MyRows, ArchiveTypeOK, TypeOK
<1>4. MyRows # {} => \E m \in MyRows : \A n \in MyRows \ {m} : After(RowKey(m), RowKey(n))
    <2> SUFFICES ASSUME MyRows # {}
                 PROVE  \E m \in MyRows : \A n \in MyRows \ {m} : After(RowKey(m), RowKey(n))
        OBVIOUS
    <2> DEFINE K == {RowKey(n) : n \in MyRows}
    <2>1. K \in SUBSET Keys /\ IsFiniteSet(K) /\ K # {}
        BY <1>3, WindowKeys
    <2>2. PICK m \in MyRows : RowKey(m) = Last(K)
        BY <2>1, LastKey
    <2>3. \A n \in MyRows \ {m} : RowKey(n) # Last(K) /\ RowKey(n) \in K
        BY <1>2, <1>3, <2>2
    <2>4. \A n \in MyRows \ {m} : After(Last(K), RowKey(n))
        BY <2>1, <2>3, LastKey
    <2> QED
        BY <2>2, <2>4
<1>5. announced # {} =>
          \E m \in announced : \A b \in announced \ {m} : After(BroadcastKey(m), BroadcastKey(b))
    <2> SUFFICES ASSUME announced # {}
                 PROVE  \E m \in announced :
                            \A b \in announced \ {m} : After(BroadcastKey(m), BroadcastKey(b))
        OBVIOUS
    <2> DEFINE K == {BroadcastKey(b) : b \in announced}
    <2>1. K \in SUBSET Keys /\ IsFiniteSet(K) /\ K # {}
        BY <1>3, WindowKeys
    <2>2. PICK m \in announced : BroadcastKey(m) = Last(K)
        BY <2>1, LastKey
    <2>3. \A b \in announced \ {m} : BroadcastKey(b) # Last(K) /\ BroadcastKey(b) \in K
        BY <1>2, <1>3, <2>2
    <2>4. \A b \in announced \ {m} : After(Last(K), BroadcastKey(b))
        BY <2>1, <2>3, LastKey
    <2> QED
        BY <2>2, <2>4
<1>6. \A m, n \in Notifs : ~(After(RowKey(m), RowKey(n)) /\ After(RowKey(n), RowKey(m)))
    BY <1>1, AfterIsOrder
<1>7. \A m, n \in Broadcasts :
          ~(After(BroadcastKey(m), BroadcastKey(n)) /\ After(BroadcastKey(n), BroadcastKey(m)))
    BY <1>1, AfterIsOrder
<1>8. /\ LatestDirect = IF MyRows = {} THEN {}
             ELSE {CHOOSE m \in MyRows : \A n \in MyRows \ {m} : After(RowKey(m), RowKey(n))}
      /\ LatestBroadcast = IF announced = {} THEN {}
             ELSE {CHOOSE m \in announced :
                       \A b \in announced \ {m} : After(BroadcastKey(m), BroadcastKey(b))}
    BY DEF LatestDirect, LatestBroadcast, Newest, MyRows
<1>9. MyRows # {} => \E m \in MyRows : /\ LatestDirect = {m}
                                       /\ \A n \in MyRows \ {m} : After(RowKey(m), RowKey(n))
    BY <1>4, <1>8
<1>10. announced # {} =>
          \E m \in announced : /\ LatestBroadcast = {m}
                               /\ \A b \in announced \ {m} : After(BroadcastKey(m), BroadcastKey(b))
    BY <1>5, <1>8
<1>11. /\ LatestDirect \subseteq MyRows
       /\ MyRows # {} => LatestDirect # {}
       /\ \A m \in LatestDirect, n \in MyRows : n = m \/ After(RowKey(m), RowKey(n))
       /\ \A m \in MyRows :
             (\A n \in MyRows : n = m \/ After(RowKey(m), RowKey(n))) => LatestDirect = {m}
    <2>1. CASE MyRows = {}
        BY <1>8, <2>1
    <2>2. CASE MyRows # {}
        BY <1>3, <1>6, <1>9, <2>2
    <2> QED
        BY <2>1, <2>2
<1>12. /\ LatestBroadcast \subseteq announced
       /\ announced # {} => LatestBroadcast # {}
       /\ \A m \in LatestBroadcast, b \in announced :
             b = m \/ After(BroadcastKey(m), BroadcastKey(b))
       /\ \A m \in announced :
             (\A b \in announced : b = m \/ After(BroadcastKey(m), BroadcastKey(b)))
                 => LatestBroadcast = {m}
    <2>1. CASE announced = {}
        BY <1>8, <2>1
    <2>2. CASE announced # {}
        BY <1>3, <1>7, <1>10, <2>2
    <2> QED
        BY <2>1, <2>2
<1> QED
    BY <1>11, <1>12 DEF LatestIsFirst

----------------------------------------------------------------------------
(* What a step leaves while the counters row is not written *)

\* What the reader's rows, watermarks, mutes and broadcasts are stands, and a
\* row that becomes theirs waits for its deliver job.
RowsUndisturbed ==
    /\ now <= now' /\ stored \subseteq stored'
    /\ \A n \in stored : subscriber_id'[n] = Reader <=> subscriber_id[n] = Reader
    /\ \A n \in stored : subscriber_id[n] = Reader =>
          /\ visible_at'[n] = visible_at[n]
          /\ n \in read_at' <=> n \in read_at
          /\ n \in unread_at' <=> n \in unread_at
          /\ n \in archived_at' <=> n \in archived_at
          /\ n \in unarchived_at' <=> n \in unarchived_at
          /\ PendingDeliver(n)' <=> PendingDeliver(n)
    /\ \A n \in stored' \ stored : subscriber_id'[n] = Reader => PendingDeliver(n)'

NewsUndisturbed ==
    /\ announced \subseteq announced'
    /\ \A b \in announced :
          /\ created_at'[b] = created_at[b]
          /\ broadcast_reads'[Reader, b] = broadcast_reads[Reader, b]
          /\ broadcast_archives'[Reader, b] = broadcast_archives[Reader, b]

Undisturbed ==
    /\ RowsUndisturbed /\ NewsUndisturbed
    /\ counters'[Reader].read_watermark = counters[Reader].read_watermark
    /\ counters'[Reader].archive_watermark = counters[Reader].archive_watermark
    /\ \A c : <<Reader, c>> \in muted' <=> <<Reader, c>> \in muted

\* The validator names items the reader was shown or might be.
HeldInv ==
    /\ held = [phase |-> held.phase, filter |-> held.filter, direct |-> held.direct,
               broadcast |-> held.broadcast, page |-> held.page, known |-> held.known]
    /\ held.phase \in {"none", "tagged", "held"}
    /\ held.phase # "none" =>
          /\ held.direct \subseteq stored /\ held.broadcast \subseteq announced
          /\ ~moved => held.direct \subseteq MyRows
    /\ held.phase = "held" =>
          /\ held.direct \subseteq held.known /\ held.broadcast \subseteq held.known
          /\ held.known \subseteq stored \cup announced

\* The instants of two states.
LEMMA Clocks ==
    ASSUME TypeOK, TypeOK'
    PROVE  /\ now \in Int /\ now' \in Int
           /\ \A n \in Notifs : visible_at[n] \in Int /\ visible_at'[n] \in Int
<1>1. Times \subseteq Int
    BY DEF Times
<1> QED
    BY <1>1 DEF TypeOK

LEMMA RowsRemain ==
    ASSUME TypeOK, TypeOK', RowsUndisturbed
    PROVE  /\ MyRows \subseteq MyRows'
           /\ \A n \in MyRows : RowKey(n)' = RowKey(n)
<1>1. ASSUME NEW n \in MyRows
      PROVE  n \in MyRows' /\ RowKey(n)' = RowKey(n)
    <2>1. n \in Notifs /\ n \in stored /\ subscriber_id[n] = Reader /\ visible_at[n] <= now
        BY DEF MyRows, Visible
    <2>2. /\ n \in stored' /\ subscriber_id'[n] = Reader /\ visible_at'[n] = visible_at[n]
          /\ now <= now'
        BY <2>1 DEF RowsUndisturbed
    <2>3. visible_at'[n] <= now'
        BY <2>1, <2>2, Clocks
    <2> QED
        BY <2>1, <2>2, <2>3 DEF MyRows, Visible, RowKey
<1> QED
    BY <1>1

LEMMA SameLatestDirect ==
    ASSUME ArchiveTypeOK, ArchiveTypeOK', RowsUndisturbed, NEW direct \in SUBSET MyRows,
           direct = LatestDirect'
    PROVE  direct = LatestDirect
<1>1. LatestIsFirst /\ LatestIsFirst'
    BY LatestOf, PTL
<1>2. /\ MyRows \subseteq MyRows'
      /\ \A n \in MyRows : RowKey(n)' = RowKey(n)
    BY RowsRemain DEF ArchiveTypeOK
<1>3. CASE MyRows = {}
    BY <1>1, <1>3 DEF LatestIsFirst
<1>4. CASE MyRows # {}
    <2>1. PICK m \in direct : TRUE
        BY <1>1, <1>2, <1>4 DEF LatestIsFirst
    <2>2. m \in MyRows /\ m \in LatestDirect'
        BY <2>1
    <2>3. \A n \in MyRows : n = m \/ After(RowKey(m)', RowKey(n)')
        BY <1>1, <1>2, <2>2 DEF LatestIsFirst
    <2>4. LatestDirect = {m}
        BY <1>1, <1>2, <2>2, <2>3 DEF LatestIsFirst
    <2>5. \A l \in direct : l = m
        <3> SUFFICES ASSUME NEW l \in direct PROVE l = m
            OBVIOUS
        <3>1. \A n \in MyRows : n = l \/ After(RowKey(l)', RowKey(n)')
            BY <1>1, <1>2 DEF LatestIsFirst
        <3>2. LatestDirect = {l}
            BY <1>1, <1>2, <3>1 DEF LatestIsFirst
        <3> QED
            BY <2>4, <3>2
    <2> QED
        BY <2>1, <2>4, <2>5
<1> QED
    BY <1>3, <1>4

LEMMA SameLatestBroadcast ==
    ASSUME ArchiveTypeOK, ArchiveTypeOK', NewsUndisturbed, NEW news \in SUBSET announced,
           news = LatestBroadcast'
    PROVE  news = LatestBroadcast
<1>1. LatestIsFirst /\ LatestIsFirst'
    BY LatestOf, PTL
<1>2. /\ announced \subseteq announced'
      /\ \A b \in announced : BroadcastKey(b)' = BroadcastKey(b)
    BY DEF NewsUndisturbed, BroadcastKey
<1>3. CASE announced = {}
    BY <1>1, <1>3 DEF LatestIsFirst
<1>4. CASE announced # {}
    <2>1. PICK m \in news : TRUE
        BY <1>1, <1>2, <1>4 DEF LatestIsFirst
    <2>2. \A l \in news : LatestBroadcast = {l}
        <3> SUFFICES ASSUME NEW l \in news PROVE LatestBroadcast = {l}
            OBVIOUS
        <3>1. \A b \in announced : b = l \/ After(BroadcastKey(l)', BroadcastKey(b)')
            BY <1>1, <1>2 DEF LatestIsFirst
        <3> QED
            BY <1>1, <1>2, <3>1 DEF LatestIsFirst
    <2> QED
        BY <2>1, <2>2
<1> QED
    BY <1>3, <1>4

----------------------------------------------------------------------------
(* The page *)

\* What the validator's names say of the rows and news of the next state.
Matched ==
    /\ ArchiveTypeOK /\ ArchiveTypeOK' /\ Undisturbed /\ HeldInv
    /\ held.phase = "held" /\ ~moved /\ held' = held
    /\ held.direct = LatestDirect' /\ held.broadcast = LatestBroadcast'

LEMMA RowsAsListed ==
    ASSUME Matched, NEW filter
    PROVE  /\ ListDirect(Reader, filter)' \ Overtaken' = ListDirect(Reader, filter) \ Overtaken
           /\ \A n \in ListDirect(Reader, filter) :
                 /\ EffectivelyRead(n)' = EffectivelyRead(n)
                 /\ EffectivelyArchived(n)' = EffectivelyArchived(n)
<1> USE DEF Matched
<1>0. PICK direct, known : direct = held.direct /\ known = held.known
    OBVIOUS
<1>1. /\ now \in Int /\ now' \in Int /\ now <= now'
      /\ stored \subseteq Notifs /\ stored' \subseteq Notifs
      /\ announced \subseteq Broadcasts /\ announced' \subseteq Broadcasts
      /\ \A n \in Notifs : visible_at[n] \in Int /\ visible_at'[n] \in Int
      /\ \A n \in Notifs : n \notin Broadcasts
      /\ direct \subseteq MyRows /\ direct \subseteq known
      /\ known \subseteq stored \cup announced
      /\ direct = LatestDirect'
    <2>1. TypeOK /\ TypeOK'
        BY DEF ArchiveTypeOK
    <2>2. /\ stored \subseteq Notifs /\ stored' \subseteq Notifs
          /\ announced \subseteq Broadcasts /\ announced' \subseteq Broadcasts
        BY <2>1 DEF TypeOK
    <2>3. now <= now'
        BY DEF Undisturbed, RowsUndisturbed
    <2>4. /\ direct \subseteq MyRows /\ direct \subseteq known
          /\ known \subseteq stored \cup announced /\ direct = LatestDirect'
        BY <1>0 DEF HeldInv
    <2>5. \A n \in Notifs : n \notin Broadcasts
        BY SourcesAssumption
    <2> QED
        BY <2>1, <2>2, <2>3, <2>4, <2>5, Clocks
<1>2. \A n \in Notifs : n \in Overtaken <=>
          /\ n \in stored /\ n \notin known /\ PendingDeliver(n)
          /\ \E latest \in direct : After(RowKey(latest), RowKey(n))
    BY <1>0, <1>1 DEF Overtaken
<1>3. \A n \in Notifs : n \in Overtaken' <=>
          /\ n \in stored' /\ n \notin known /\ PendingDeliver(n)'
          /\ \E latest \in direct : After(RowKey(latest)', RowKey(n)')
    BY <1>0, <1>1 DEF Overtaken
<1>4. ASSUME NEW n \in MyRows
      PROVE  /\ n \in MyRows' /\ RowKey(n)' = RowKey(n)
             /\ PendingDeliver(n)' <=> PendingDeliver(n)
             /\ EffectivelyRead(n)' = EffectivelyRead(n)
             /\ EffectivelyArchived(n)' = EffectivelyArchived(n)
             /\ Muted(n, muted)' <=> Muted(n, muted)
    <2>1. n \in Notifs /\ n \in stored /\ subscriber_id[n] = Reader /\ visible_at[n] <= now
        BY <1>4 DEF MyRows, Visible
    <2>2. /\ subscriber_id'[n] = Reader /\ visible_at'[n] = visible_at[n] /\ n \in stored'
          /\ n \in read_at' <=> n \in read_at
          /\ n \in unread_at' <=> n \in unread_at
          /\ n \in archived_at' <=> n \in archived_at
          /\ n \in unarchived_at' <=> n \in unarchived_at
          /\ PendingDeliver(n)' <=> PendingDeliver(n)
        BY <2>1 DEF Undisturbed, RowsUndisturbed
    <2>3. n \in MyRows' /\ RowKey(n)' = RowKey(n)
        BY <1>1, <2>1, <2>2 DEF MyRows, Visible, RowKey
    <2>4. /\ EffectivelyRead(n)' = EffectivelyRead(n)
          /\ EffectivelyArchived(n)' = EffectivelyArchived(n)
        BY <2>1, <2>2 DEF EffectivelyRead, EffectivelyArchived, Undisturbed
    <2>5. Muted(n, muted)' <=> Muted(n, muted)
        BY <2>1, <2>2 DEF Muted, Undisturbed
    <2> QED
        BY <2>2, <2>3, <2>4, <2>5
<1>5. \A n \in MyRows : n \in Overtaken' <=> n \in Overtaken
    <2>1. \A n \in MyRows : n \in Notifs /\ n \in stored /\ n \in stored'
        BY <1>4 DEF MyRows, Visible
    <2> QED
        BY <1>1, <1>2, <1>3, <1>4, <2>1
<1>6. ASSUME NEW n \in MyRows', n \notin Overtaken'
      PROVE  n \in MyRows
    <2>1. n \in Notifs /\ n \in stored' /\ subscriber_id'[n] = Reader /\ visible_at'[n] <= now'
        BY <1>6 DEF MyRows, Visible
    <2>2. PICK m \in direct : n = m \/ After(RowKey(m)', RowKey(n)')
        <3>1. LatestIsFirst'
            BY LatestOf, PTL
        <3> QED
            BY <1>1, <1>6, <3>1 DEF LatestIsFirst
    <2>3. m \in MyRows /\ m \in Notifs /\ m \in stored /\ m \in known /\ visible_at[m] <= now
        BY <1>1 DEF MyRows, Visible
    <2>4. CASE n \notin stored
        <3>1. PendingDeliver(n)'
            BY <2>1, <2>4 DEF Undisturbed, RowsUndisturbed
        <3>2. n \notin known /\ n # m
            BY <1>1, <2>1, <2>3, <2>4
        <3> QED
            BY <1>3, <1>6, <2>1, <2>2, <3>1, <3>2
    <2>5. CASE n \in stored
        <3>1. subscriber_id[n] = Reader /\ visible_at'[n] = visible_at[n]
            BY <2>1, <2>5 DEF Undisturbed, RowsUndisturbed
        <3>2. CASE visible_at[n] <= now
            BY <2>1, <2>5, <3>1, <3>2 DEF MyRows, Visible
        <3>3. CASE visible_at[n] > now
            <4>1. visible_at'[m] = visible_at[m] /\ n # m
                BY <2>3, <3>3, <1>1 DEF Undisturbed, RowsUndisturbed, MyRows
            <4>2. visible_at'[m] < visible_at'[n]
                BY <1>1, <2>1, <2>3, <3>1, <3>3, <4>1
            <4>3. ~After(RowKey(m)', RowKey(n)')
                BY <1>1, <2>1, <2>3, <4>2 DEF After, RowKey
            <4> QED
                BY <2>2, <4>1, <4>3
        <3> QED
            BY <1>1, <2>1, <3>2, <3>3
    <2> QED
        BY <2>4, <2>5
<1>7. \A n : n \in ListDirect(Reader, filter) <=>
                /\ n \in MyRows
                /\ filter = "unread" => ~EffectivelyRead(n)
                /\ EffectivelyArchived(n) <=> filter = "archived"
                /\ ~Muted(n, muted)
    BY DEF ListDirect, MyRows
<1>8. \A n : n \in ListDirect(Reader, filter)' <=>
                /\ n \in MyRows'
                /\ filter = "unread" => ~EffectivelyRead(n)'
                /\ EffectivelyArchived(n)' <=> filter = "archived"
                /\ ~Muted(n, muted)'
    BY DEF ListDirect, MyRows
<1>9. \A n \in MyRows : n \in ListDirect(Reader, filter)' <=> n \in ListDirect(Reader, filter)
    BY <1>4, <1>7, <1>8, Zenon
<1>10. \A n : n \in ListDirect(Reader, filter)' /\ n \notin Overtaken'
                <=> n \in ListDirect(Reader, filter) /\ n \notin Overtaken
    BY <1>5, <1>6, <1>7, <1>8, <1>9
<1> QED
    BY <1>4, <1>7, <1>10

LEMMA NewsAsListed ==
    ASSUME Matched, NEW filter
    PROVE  /\ ListBroadcast(Reader, filter)' \ Overtaken' = ListBroadcast(Reader, filter) \ Overtaken
           /\ \A b \in ListBroadcast(Reader, filter) :
                 /\ BroadcastRead(Reader, b)' = BroadcastRead(Reader, b)
                 /\ BroadcastArchived(Reader, b)' = BroadcastArchived(Reader, b)
<1> USE DEF Matched
<1>0. PICK news, known : news = held.broadcast /\ known = held.known
    OBVIOUS
<1>1. /\ stored \subseteq Notifs /\ stored' \subseteq Notifs
      /\ announced \subseteq Broadcasts /\ announced' \subseteq Broadcasts
      /\ announced \subseteq announced'
      /\ \A b \in Broadcasts : b \notin Notifs
      /\ news \subseteq announced /\ news \subseteq known
      /\ known \subseteq stored \cup announced
      /\ news = LatestBroadcast'
    BY <1>0, SourcesAssumption
       DEF ArchiveTypeOK, TypeOK, Undisturbed, NewsUndisturbed, HeldInv
<1>2. \A b \in Broadcasts : b \in Overtaken <=>
          /\ b \in announced /\ b \notin known
          /\ \E latest \in news : After(BroadcastKey(latest), BroadcastKey(b))
    BY <1>0, <1>1 DEF Overtaken
<1>3. \A b \in Broadcasts : b \in Overtaken' <=>
          /\ b \in announced' /\ b \notin known
          /\ \E latest \in news : After(BroadcastKey(latest)', BroadcastKey(b)')
    BY <1>0, <1>1 DEF Overtaken
<1>4. ASSUME NEW b \in announced
      PROVE  /\ b \in announced' /\ BroadcastKey(b)' = BroadcastKey(b)
             /\ BroadcastVisible(Reader, b)' <=> BroadcastVisible(Reader, b)
             /\ BroadcastRead(Reader, b)' = BroadcastRead(Reader, b)
             /\ BroadcastArchived(Reader, b)' = BroadcastArchived(Reader, b)
             /\ BroadcastMuted(Reader, b)' <=> BroadcastMuted(Reader, b)
    <2>1. /\ b \in announced' /\ created_at'[b] = created_at[b]
          /\ broadcast_reads'[Reader, b] = broadcast_reads[Reader, b]
          /\ broadcast_archives'[Reader, b] = broadcast_archives[Reader, b]
        BY <1>4 DEF Undisturbed, NewsUndisturbed
    <2>2. b \in announced' /\ BroadcastKey(b)' = BroadcastKey(b)
        BY <2>1 DEF BroadcastKey
    <2>3. BroadcastVisible(Reader, b)' <=> BroadcastVisible(Reader, b)
        BY <1>4, <2>1 DEF BroadcastVisible
    <2>4. /\ BroadcastRead(Reader, b)' = BroadcastRead(Reader, b)
          /\ BroadcastArchived(Reader, b)' = BroadcastArchived(Reader, b)
        BY <2>1 DEF BroadcastRead, BroadcastArchived, Undisturbed
    <2>5. BroadcastMuted(Reader, b)' <=> BroadcastMuted(Reader, b)
        BY DEF BroadcastMuted, Undisturbed
    <2> QED
        BY <2>2, <2>3, <2>4, <2>5
<1>5. \A b \in announced : b \in Overtaken' <=> b \in Overtaken
    BY <1>1, <1>2, <1>3, <1>4
<1>6. ASSUME NEW b \in announced', b \notin announced
      PROVE  b \in Overtaken'
    <2>1. b \in Broadcasts /\ b \notin known
        BY <1>1, <1>6
    <2>2. PICK m \in news : b = m \/ After(BroadcastKey(m)', BroadcastKey(b)')
        <3>1. LatestIsFirst'
            BY LatestOf, PTL
        <3> QED
            BY <1>1, <1>6, <3>1 DEF LatestIsFirst
    <2> QED
        BY <1>1, <1>3, <1>6, <2>1, <2>2
<1>7. \A b : b \in ListBroadcast(Reader, filter) <=>
                /\ b \in announced /\ b \in Broadcasts /\ BroadcastVisible(Reader, b)
                /\ filter = "unread" => ~BroadcastRead(Reader, b)
                /\ BroadcastArchived(Reader, b) <=> filter = "archived"
                /\ ~BroadcastMuted(Reader, b)
    BY DEF ListBroadcast, BroadcastVisible
<1>8. \A b : b \in ListBroadcast(Reader, filter)' <=>
                /\ b \in announced' /\ b \in Broadcasts /\ BroadcastVisible(Reader, b)'
                /\ filter = "unread" => ~BroadcastRead(Reader, b)'
                /\ BroadcastArchived(Reader, b)' <=> filter = "archived"
                /\ ~BroadcastMuted(Reader, b)'
    BY DEF ListBroadcast, BroadcastVisible
<1>9. \A b \in announced :
          b \in ListBroadcast(Reader, filter)' <=> b \in ListBroadcast(Reader, filter)
    BY <1>4, <1>7, <1>8, Zenon
<1>10. \A b : b \in ListBroadcast(Reader, filter)' /\ b \notin Overtaken'
                <=> b \in ListBroadcast(Reader, filter) /\ b \notin Overtaken
    BY <1>1, <1>5, <1>6, <1>7, <1>8, <1>9
<1> QED
    BY <1>4, <1>7, <1>10

\* A page without what was overtaken, source by source.
LEMMA PageBySource ==
    ASSUME NEW filter
    PROVE  {i \in Page(filter) : i[1] \notin Overtaken} =
              {<<n, EffectivelyRead(n), EffectivelyArchived(n)>> :
                  n \in ListDirect(Reader, filter) \ Overtaken}
              \cup {<<b, BroadcastRead(Reader, b), BroadcastArchived(Reader, b)>> :
                       b \in ListBroadcast(Reader, filter) \ Overtaken}
<1>1. \A a, b, c : <<a, b, c>>[1] = a
    OBVIOUS
<1> QED
    BY <1>1 DEF Page

LEMMA PageStands ==
    ASSUME Matched, NEW filter
    PROVE  {i \in Page(filter)' : i[1] \notin Overtaken'} =
              {i \in Page(filter) : i[1] \notin Overtaken}
<1> DEFINE R == ListDirect(Reader, filter) \ Overtaken
           N == ListBroadcast(Reader, filter) \ Overtaken
<1>1. {i \in Page(filter) : i[1] \notin Overtaken} =
         {<<n, EffectivelyRead(n), EffectivelyArchived(n)>> : n \in R}
         \cup {<<b, BroadcastRead(Reader, b), BroadcastArchived(Reader, b)>> : b \in N}
    BY PageBySource
<1>2. {i \in Page(filter)' : i[1] \notin Overtaken'} =
         {<<n, EffectivelyRead(n)', EffectivelyArchived(n)'>> : n \in R'}
         \cup {<<b, BroadcastRead(Reader, b)', BroadcastArchived(Reader, b)'>> : b \in N'}
    <2>1. \A a, b, c : <<a, b, c>>[1] = a
        OBVIOUS
    <2> QED
        BY <2>1 DEF Page
<1>3. /\ R' = R /\ R \subseteq ListDirect(Reader, filter)
      /\ N' = N /\ N \subseteq ListBroadcast(Reader, filter)
    BY RowsAsListed, NewsAsListed
<1>4. /\ \A n \in R : /\ EffectivelyRead(n)' = EffectivelyRead(n)
                      /\ EffectivelyArchived(n)' = EffectivelyArchived(n)
      /\ \A b \in N : /\ BroadcastRead(Reader, b)' = BroadcastRead(Reader, b)
                      /\ BroadcastArchived(Reader, b)' = BroadcastArchived(Reader, b)
    BY <1>3, RowsAsListed, NewsAsListed
<1> HIDE DEF R, N
<1> QED
    BY <1>1, <1>2, <1>3, <1>4

----------------------------------------------------------------------------
(* The steps *)

\* A step that writes nothing of the reader's keeps what the page says.
LEMMA TruthStays ==
    ASSUME ArchiveTypeOK, ArchiveTypeOK', HeldInv, ValidatorTruthful,
           held' = held, archive_jobs' = archive_jobs, ~moved' => ~moved /\ Undisturbed
    PROVE  ValidatorTruthful'
<1> SUFFICES ASSUME Matches', \A job \in archive_jobs : job.subscriber # Reader
             PROVE  held.page = {i \in Page(held.filter)' : i[1] \notin Overtaken'}
    BY DEF ValidatorTruthful
<1>1. /\ held.phase = "held" /\ ~moved' /\ ~moved /\ Undisturbed
      /\ held.direct = LatestDirect' /\ held.broadcast = LatestBroadcast'
    BY DEF Matches
<1>2. Matched
    BY <1>1 DEF Matched
<1>3. held.direct = LatestDirect /\ held.broadcast = LatestBroadcast
    <2>1. held.direct \in SUBSET MyRows /\ held.broadcast \in SUBSET announced
        BY <1>1 DEF HeldInv
    <2> QED
        BY <1>1, <2>1, SameLatestDirect, SameLatestBroadcast DEF Undisturbed
<1>4. held.page = {i \in Page(held.filter) : i[1] \notin Overtaken}
    BY <1>1, <1>3 DEF ValidatorTruthful, Matches
<1>5. PICK filter : filter = held.filter
    OBVIOUS
<1>6. {i \in Page(filter)' : i[1] \notin Overtaken'} = {i \in Page(filter) : i[1] \notin Overtaken}
    BY <1>2, PageStands
<1> QED
    BY <1>4, <1>5, <1>6

LEMMA HeldStays ==
    ASSUME HeldInv, held' = held, stored \subseteq stored', announced \subseteq announced',
           ~moved' => ~moved /\ MyRows \subseteq MyRows'
    PROVE  HeldInv'
BY DEF HeldInv

ReaderJobs == IsFiniteSet(archive_jobs) /\ \A job \in archive_jobs : job.subscriber = Reader

ListInv ==
    /\ ArchiveInv
    /\ rebuilds \subseteq Subs \X Times
    /\ ReaderJobs
    /\ HeldInv
    /\ ValidatorTruthful

LEMMA CoreIsNext == CoreStep => Next
<1> SUFFICES ASSUME CoreStep PROVE Next
    OBVIOUS
<1>1. CASE Tick
    BY <1>1 DEF Next
<1>2. ASSUME NEW r \in Requests, CreateStep(r)
      PROVE  Next
    BY <1>2 DEF CreateStep, Next, Management, Worker
<1>3. ASSUME NEW b \in Broadcasts, BroadcastStep(b)
      PROVE  Next
    BY <1>3 DEF BroadcastStep, Next, Management
<1>4. CASE ReaderStep
    <2>1. Subscriber
        BY <1>4, ReaderAssumption DEF ReaderStep, Subscriber, ReaderAssumption
    <2> QED
        BY <2>1 DEF Next
<1> QED
    BY <1>1, <1>2, <1>3, <1>4 DEF CoreStep

LEMMA CoreAnnounces == Next => announced \subseteq announced'
<1>1. Tick => announced \subseteq announced'
    BY DEF Tick, broadcastVars
<1>2. Management => announced \subseteq announced'
    BY DEF Management, BeginCreate, CommitImmediate, CommitScheduled, RollbackCreate,
       BeginBroadcast, CommitBroadcast, RollbackBroadcast, broadcastVars
<1>3. Worker => announced \subseteq announced'
    BY WorkerLeaves DEF broadcastVars
<1>4. Subscriber => announced \subseteq announced'
    BY SubscriberLeaves DEF broadcastVars
<1> QED
    BY <1>1, <1>2, <1>3, <1>4 DEF Next

LEMMA CoreUndisturbed ==
    ASSUME TypeOK, TypeOK', OpenUnstored, CoreStep, ~moved'
    PROVE  ~moved /\ Undisturbed
<1> DEFINE Stands ==
        /\ ~moved
        /\ UNCHANGED <<read_at, unread_at, archived_at, unarchived_at, overrideVars>>
        /\ announced \subseteq announced'
        /\ WatermarksStand
        /\ \A n \in stored : subscriber_id[n] = Reader =>
              (PendingDeliver(n)' <=> PendingDeliver(n))
        /\ \A n \in stored' \ stored : subscriber_id[n] = Reader => PendingDeliver(n)'
<1>0. stored \subseteq Notifs /\ stored' \subseteq Notifs
    BY DEF TypeOK
<1>1. ASSUME Tick, Touches({})
      PROVE  Stands
    BY <1>1 DEF Tick, Touches, createVars, rowVars, jobVars, broadcastVars, WatermarksStand,
       PendingDeliver
<1>2. ASSUME NEW r \in Requests, CreateStep(r)
      PROVE  Stands
    <2>1. CASE CommitImmediate(r, muted) /\ Touches(Recipients(r))
        <3>1. ~moved /\ Reader \notin Recipients(r)
            BY <2>1 DEF Touches
        <3>2. /\ stored' = stored \cup Ids(r) /\ \A n \in Ids(r) : subscriber_id[n] # Reader
              /\ UNCHANGED <<rowVars, jobVars, broadcastVars, overrideVars>>
            BY <2>1, <3>1 DEF CommitImmediate, Recipients
        <3>3. WatermarksStand
            BY <2>1, CommitFields
        <3> QED
            BY <3>1, <3>2, <3>3 DEF rowVars, jobVars, broadcastVars, PendingDeliver
    <2>2. CASE ProcessDeliver(r) /\ Touches({subscriber_id[n] : n \in Chunk(r)})
        <3>1. ~moved /\ \A n \in Chunk(r) : subscriber_id[n] # Reader
            BY <2>2 DEF Touches
        <3>2. UNCHANGED <<createVars, rowVars, broadcastVars, overrideVars>>
            BY <2>2 DEF ProcessDeliver
        <3>3. WatermarksStand
            BY <2>2, DeliverFields
        <3>4. \A n \in Notifs : subscriber_id[n] = Reader =>
                 (PendingDeliver(n)' <=> PendingDeliver(n))
            BY <2>2, <3>1, DeliverPending
        <3> QED
            BY <1>0, <3>1, <3>2, <3>3, <3>4 DEF createVars, rowVars, broadcastVars
    <2>3. CASE BeginCreate(r) /\ Touches({})
        BY <2>3 DEF BeginCreate, Touches, broadcastVars, jobVars, WatermarksStand, PendingDeliver
    <2>4. CASE CommitScheduled(r) /\ Touches({})
        <3>1. /\ stored' = stored \cup Ids(r) /\ Ids(r) \cap stored = {}
              /\ UNCHANGED <<rowVars, counters, broadcastVars, overrideVars>> /\ ~moved
            BY <2>4 DEF CommitScheduled, Touches, OpenUnstored
        <3>2. \A n \in Notifs : PendingDeliver(n)' <=> PendingDeliver(n) \/ n \in Ids(r)
            BY <2>4, ScheduledPending
        <3> QED
            BY <1>0, <3>1, <3>2 DEF rowVars, broadcastVars, WatermarksStand
    <2>5. CASE RollbackCreate(r) /\ Touches({})
        BY <2>5 DEF RollbackCreate, Touches, broadcastVars, jobVars, WatermarksStand, PendingDeliver
    <2> QED
        BY <1>2, <2>1, <2>2, <2>3, <2>4, <2>5 DEF CreateStep
<1>3. ASSUME NEW b \in Broadcasts, BroadcastStep(b)
      PROVE  Stands
    BY <1>3 DEF BroadcastStep, BeginBroadcast, CommitBroadcast, RollbackBroadcast, Touches,
       createVars, rowVars, jobVars, broadcastVars, WatermarksStand, PendingDeliver
<1>4. ~ReaderStep
    BY DEF ReaderStep, Touches
<1>5. Stands
    BY <1>1, <1>2, <1>3, <1>4 DEF CoreStep
<1> HIDE DEF Stands
<1>6. /\ now <= now' /\ stored \subseteq stored'
      /\ subscriber_id' = subscriber_id /\ muted' = muted
      /\ \A n \in stored : visible_at'[n] = visible_at[n]
      /\ \A b \in announced : created_at'[b] = created_at[b]
    BY CoreIsNext, CoreKeeps, CommittedStays
<1>7. RowsUndisturbed
    BY <1>5, <1>6 DEF Stands, RowsUndisturbed
<1>8. NewsUndisturbed
    BY <1>5, <1>6 DEF Stands, NewsUndisturbed, overrideVars
<1>9. Reader \in Subs
    BY ReaderAssumption, BoundsAssumption DEF ReaderAssumption, BoundsAssumption
<1> QED
    BY <1>5, <1>6, <1>7, <1>8, <1>9 DEF Stands, Undisturbed, WatermarksStand

\* What an upkeep transaction leaves, whatever else it finds.
LEMMA UpkeepLeaves ==
    ASSUME TypeOK, rebuilds \subseteq Subs \X Times, UpkeepStep
    PROVE  /\ TypeOK' /\ rebuilds' \subseteq Subs \X Times
           /\ UNCHANGED <<now, createVars, visible_at, jobVars, broadcastVars, overrideVars,
                          archive_jobs>>
           /\ Owe(NothingNew) /\ held' = held
           /\ ~moved' => ~moved /\ Undisturbed
<1> DEFINE Left ==
        /\ TypeOK' /\ rebuilds' \subseteq Subs \X Times
        /\ UNCHANGED <<now, createVars, visible_at, jobVars, broadcastVars, overrideVars>>
        /\ held' = held
        /\ ~moved' => ~moved /\ Undisturbed
<1>0. Reader \in Subs /\ Acting \subseteq Subs /\ now \in Int
    BY ReaderAssumption, BoundsAssumption, TimesAreIntegers
       DEF ReaderAssumption, BoundsAssumption
<1>1. ASSUME NEW c \in Categories, WritePreference(Reader, c), Touches({Reader})
      PROVE  Left
    <2>1. /\ UNCHANGED <<now, createVars, rowVars, counters, jobVars, broadcastVars, overrideVars,
                         subscriber_id>>
          /\ rebuilds' = rebuilds \cup {<<Reader, now>>} /\ hints' = hints \cup {{Reader}}
          /\ muted' \subseteq Subs \X Categories /\ now \in Times
        BY <1>0, <1>1 DEF WritePreference, QueueRebuild, TypeOK
    <2>2. TypeOK'
        BY <1>0, <2>1 DEF TypeOK, createVars, rowVars, jobVars, broadcastVars, overrideVars
    <2> QED
        <3>1. rebuilds' \subseteq Subs \X Times
            BY <1>0, <2>1
        <3>2. moved' /\ held' = held
            BY <1>1 DEF Touches
        <3> QED
            BY <2>1, <2>2, <3>1, <3>2 DEF rowVars
<1>2. ASSUME NEW job \in rebuilds, ProcessCounterRebuild(job), Touches({job[1]})
      PROVE  Left
    <2>0. PICK s : s = job[1]
        OBVIOUS
    <2>1. /\ s \in Subs
          /\ UNCHANGED <<now, createVars, rowVars, jobVars, broadcastVars, overrideVars,
                         subscriber_id, muted>>
          /\ rebuilds' = rebuilds \ {job} /\ hints' = hints \cup {{s}}
        BY <1>2, <2>0 DEF ProcessCounterRebuild, fixedVars
    <2>2. PICK begin, row, hidden :
              /\ row = counters[s] /\ hidden = muted
              /\ counters' = [counters EXCEPT ![s] = Recount(s, begin, row, hidden)]
        BY <1>2, <2>0 DEF ProcessCounterRebuild
    <2>3. PICK next : next = Recount(s, begin, row, hidden)
        OBVIOUS
    <2>4. /\ next \in CountersRow
          /\ next.read_watermark = row.read_watermark
          /\ next.seen_watermark = row.seen_watermark
          /\ next.archive_watermark = row.archive_watermark
        <3>1. row \in CountersRow
            BY <2>1, <2>2 DEF TypeOK
        <3> QED
            BY <2>3, <3>1, RecountFields
    <2>5. counters' = [counters EXCEPT ![s] = next]
        BY <2>2, <2>3
    <2>6. counters' \in [Subs -> CountersRow] /\ WatermarksStand
        BY <2>1, <2>2, <2>4, <2>5 DEF TypeOK, WatermarksStand
    <2>7. TypeOK'
        BY <2>1, <2>6 DEF TypeOK, createVars, rowVars, jobVars, broadcastVars, overrideVars
    <2>8. Undisturbed
        BY <1>0, <2>1, <2>6
           DEF Undisturbed, RowsUndisturbed, NewsUndisturbed, WatermarksStand, createVars, rowVars,
               jobVars, broadcastVars, overrideVars, PendingDeliver
    <2> QED
        BY <1>2, <2>1, <2>7, <2>8 DEF Touches, rowVars
<1>3. ASSUME NEW from \in Acting, NEW to \in Acting, NEW ids \in SUBSET Notifs,
             MoveNotifications(from, to, ids), Touches(RecountedByMove(from, to))
      PROVE  Left
    <2>1. PICK begin, movable, hidden : Moves(from, to, movable, begin, hidden)
        BY <1>3, MoveFacts, Zenon
    <2>2. from \in Subs /\ to \in Subs
        BY <1>0
    <2>3. /\ \A n \in Notifs \ movable :
                /\ subscriber_id'[n] = subscriber_id[n]
                /\ n \in read_at' <=> n \in read_at
                /\ n \in unread_at' <=> n \in unread_at
                /\ n \in archived_at' <=> n \in archived_at
                /\ n \in unarchived_at' <=> n \in unarchived_at
          /\ \A n \in movable : subscriber_id[n] = from /\ subscriber_id'[n] = to
          /\ WatermarksStand /\ counters' \in [Subs -> CountersRow]
        BY <2>1, <2>2, MoveFields
    <2>4. /\ UNCHANGED <<now, createVars, visible_at, jobVars, broadcastVars, overrideVars, rebuilds>>
          /\ muted' = muted \cup {<<to, c>> : c \in {c \in Categories : <<from, c>> \in muted}}
          /\ hints' = hints \cup {{from, to}} /\ movable \subseteq stored
          /\ subscriber_id' = [n \in Notifs |-> IF n \in movable THEN to ELSE subscriber_id[n]]
        BY <2>1 DEF Moves
    <2>5. /\ read_at' \subseteq Notifs /\ unread_at' \subseteq Notifs
          /\ archived_at' \subseteq Notifs /\ unarchived_at' \subseteq Notifs
        BY <2>1, <2>4 DEF Moves, TypeOK
    <2>6. TypeOK'
        <3>1. subscriber_id' \in [Notifs -> Subs]
            BY <2>2, <2>4 DEF TypeOK
        <3>2. hints' \subseteq SUBSET Subs
            BY <2>2, <2>4 DEF TypeOK
        <3>3. muted' \subseteq Subs \X Categories
            <4>1. muted \subseteq Subs \X Categories
                BY DEF TypeOK
            <4>2. \A c \in Categories : <<to, c>> \in Subs \X Categories
                BY <2>2
            <4>3. \A p \in muted' : \/ p \in muted
                                    \/ \E c \in Categories : p = <<to, c>>
                BY <2>4
            <4> QED
                BY <4>1, <4>2, <4>3
        <3> QED
            BY <2>3, <2>4, <2>5, <3>1, <3>2, <3>3
               DEF TypeOK, createVars, jobVars, broadcastVars, overrideVars
    <2>7. ASSUME Reader \notin {from, to}
          PROVE  Undisturbed
        <3>1. stored \subseteq Notifs
            BY DEF TypeOK
        <3>2. RowsUndisturbed
            BY <1>0, <2>3, <2>4, <2>7, <3>1
               DEF RowsUndisturbed, createVars, jobVars, PendingDeliver
        <3>3. NewsUndisturbed
            BY <2>4 DEF NewsUndisturbed, broadcastVars, overrideVars
        <3>4. \A c : <<Reader, c>> \in muted' <=> <<Reader, c>> \in muted
            BY <2>4, <2>7
        <3> QED
            BY <1>0, <2>3, <3>2, <3>3, <3>4 DEF Undisturbed, WatermarksStand
    <2>8. held' = held /\ moved' = (moved \/ Reader \in {from, to})
        BY <1>3 DEF Touches, RecountedByMove
    <2> QED
        BY <2>4, <2>6, <2>7, <2>8
<1>4. Left
    BY <1>1, <1>2, <1>3 DEF UpkeepStep
<1> QED
    BY <1>4 DEF UpkeepStep

LEMMA UpkeepOwes ==
    ASSUME ArchiveInv, TypeOK',
           UNCHANGED <<now, createVars, visible_at, broadcastVars, archive_jobs>>, Owe(NothingNew)
    PROVE  ArchiveInv'
<1>1. ArchiveTypeOK'
    BY OwedType DEF ArchiveInv, ArchiveTypeOK
<1>2. OpenUnstored' /\ CreatedPast'
    BY DEF ArchiveInv, OpenUnstored, CreatedPast, createVars, broadcastVars
<1>3. ASSUME NEW s \in Subs, NEW i \in owed'[s]
      PROVE  i \in ReadNotArchived(s)' /\ Owing(s, i)'
    <2>1. i \in ReadNotArchived(s)' /\ i \in owed[s]
        BY OweKeeps DEF NothingNew
    <2>2. Owing(s, i)
        BY <2>1 DEF ArchiveInv, OwedAhead
    <2>3. Owing(s, i)'
        BY <2>2 DEF Owing, Ahead, RowKey, BroadcastKey, broadcastVars
    <2> QED
        BY <2>1, <2>3
<1> QED
    BY <1>1, <1>2, <1>3 DEF ArchiveInv, OwedAhead

LEMMA JobGoesOn ==
    ASSUME NEW job \in ArchiveJob, NEW phase, NEW after, Advance(job, phase, after)
    PROVE  \E next : archive_jobs' = (archive_jobs \ {job}) \cup {next}
                     /\ next.subscriber = job.subscriber
<1>1. PICK next : next = [job EXCEPT !.phase = phase, !.after = after]
    OBVIOUS
<1>2. next.subscriber = job.subscriber
    BY <1>1 DEF ArchiveJob
<1> QED
    BY <1>1, <1>2 DEF Advance

LEMMA ListInvInit == ListInit => ListInv
<1> SUFFICES ASSUME ListInit PROVE ListInv
    OBVIOUS
<1>1. ArchiveInv /\ archive_jobs = {} /\ rebuilds = {}
    BY ArchiveInvInit DEF ListInit, ArchiveInit, UpkeepInit
<1>2. held = Nothing /\ held.phase = "none"
    BY DEF ListInit, Nothing
<1>3. HeldInv
    BY <1>2 DEF HeldInv, Nothing
<1>4. ValidatorTruthful
    BY <1>2 DEF ValidatorTruthful, Matches
<1>5. ReaderJobs
    BY <1>1, FS_EmptySet DEF ReaderJobs
<1> QED
    BY <1>1, <1>3, <1>4, <1>5 DEF ListInv

\* The steps of the core, and those of the upkeep.
LEMMA OtherStep ==
    ASSUME ListInv, CoreStep \/ UpkeepStep
    PROVE  ListInv'
<1>1. /\ ArchiveInv /\ ArchiveTypeOK /\ TypeOK /\ OpenUnstored
      /\ rebuilds \subseteq Subs \X Times /\ ReaderJobs /\ HeldInv /\ ValidatorTruthful
    BY DEF ListInv, ArchiveInv, ArchiveTypeOK
<1>2. /\ ArchiveInv' /\ rebuilds' \subseteq Subs \X Times
      /\ archive_jobs' = archive_jobs /\ held' = held
      /\ stored \subseteq stored' /\ announced \subseteq announced'
      /\ ~moved' => ~moved /\ Undisturbed
    <2>1. CASE CoreStep
        <3>1. Next
            BY <2>1, CoreIsNext
        <3>2. /\ archive_jobs' = archive_jobs /\ rebuilds' = rebuilds /\ Owe(NothingNew)
            BY <2>1 DEF CoreStep, upkeepVars
        <3>3. ArchiveInv'
            BY <1>1, <3>1, <3>2, CoreOwes
        <3>4. TypeOK'
            BY <3>3 DEF ArchiveInv, ArchiveTypeOK
        <3>5. ~moved' => ~moved /\ Undisturbed
            BY <1>1, <2>1, <3>4, CoreUndisturbed
        <3>6. held' = held
            BY <2>1 DEF CoreStep, CreateStep, BroadcastStep, ReaderStep, Touches
        <3>7. stored \subseteq stored'
            BY <1>1, <3>1, CoreKeeps
        <3>8. announced \subseteq announced'
            BY <1>1, <3>1, CoreAnnounces
        <3> QED
            BY <1>1, <3>2, <3>3, <3>5, <3>6, <3>7, <3>8
    <2>2. CASE UpkeepStep
        <3>1. /\ TypeOK' /\ rebuilds' \subseteq Subs \X Times
              /\ UNCHANGED <<now, createVars, visible_at, jobVars, broadcastVars, overrideVars,
                             archive_jobs>>
              /\ Owe(NothingNew) /\ held' = held
              /\ ~moved' => ~moved /\ Undisturbed
            BY <1>1, <2>2, UpkeepLeaves
        <3>2. ArchiveInv'
            BY <1>1, <3>1, UpkeepOwes
        <3> QED
            BY <3>1, <3>2 DEF createVars, broadcastVars
    <2> QED
        BY <2>1, <2>2
<1>3. ArchiveTypeOK' /\ TypeOK'
    BY <1>2 DEF ArchiveInv, ArchiveTypeOK
<1>4. ValidatorTruthful'
    BY <1>1, <1>2, <1>3, TruthStays
<1>5. HeldInv'
    <2>1. ~moved' => MyRows \subseteq MyRows'
        BY <1>1, <1>2, <1>3, RowsRemain DEF Undisturbed
    <2> QED
        BY <1>1, <1>2, <2>1, HeldStays
<1>6. ReaderJobs'
    BY <1>1, <1>2 DEF ReaderJobs
<1> QED
    BY <1>2, <1>4, <1>5, <1>6 DEF ListInv

\* The archive-read job: the last of its chunks writes the counters row, the
\* others leave a job of the reader's behind.
LEMMA ArchiveStepKeeps ==
    ASSUME ListInv, ArchiveStep
    PROVE  ListInv'
<1>1. /\ ArchiveInv /\ ArchiveTypeOK /\ TypeOK
      /\ rebuilds \subseteq Subs \X Times /\ ReaderJobs /\ HeldInv
    BY DEF ListInv, ArchiveInv, ArchiveTypeOK
<1>2. rebuilds' = rebuilds
    BY DEF ArchiveStep, upkeepVars
<1> DEFINE Kept == /\ ArchiveInv' /\ ReaderJobs'
                   /\ UNCHANGED <<now, stored, visible_at, subscriber_id, announced, held>>
                   /\ ~moved' => ~moved /\ \E job \in archive_jobs' : job.subscriber = Reader
<1>3. Reader \in Acting /\ Reader \in Subs
    BY ReaderAssumption, BoundsAssumption DEF ReaderAssumption, BoundsAssumption
<1>4. ASSUME RequestArchiveRead(Reader), Touches({})
      PROVE  Kept
    <2>1. ArchiveInv'
        BY <1>1, <1>3, <1>4, RequestOwes
    <2>2. PICK job : /\ job = [subscriber |-> Reader, as_of |-> now, phase |-> "direct",
                              after |-> Start]
                     /\ archive_jobs' = archive_jobs \cup {job}
                     /\ UNCHANGED vars
        BY <1>4 DEF RequestArchiveRead
    <2>3. job.subscriber = Reader
        BY <2>2
    <2>4. ReaderJobs'
        BY <1>1, <2>2, <2>3, FS_AddElement DEF ReaderJobs
    <2> QED
        BY <1>4, <2>1, <2>2, <2>3, <2>4
           DEF Touches, vars, createVars, rowVars, fixedVars, broadcastVars
<1>5. ASSUME NEW job \in archive_jobs, NEW next,
             archive_jobs' = (archive_jobs \ {job}) \cup {next}, next.subscriber = job.subscriber
      PROVE  ReaderJobs' /\ \E j \in archive_jobs' : j.subscriber = Reader
    <2>1. next.subscriber = Reader
        BY <1>1, <1>5 DEF ReaderJobs
    <2>2. IsFiniteSet(archive_jobs')
        BY <1>1, <1>5, FS_Subset, FS_AddElement DEF ReaderJobs
    <2> QED
        BY <1>1, <1>5, <2>1, <2>2 DEF ReaderJobs
<1>6. ASSUME NEW job \in archive_jobs, ArchiveDirectChunk(job), Touches({})
      PROVE  Kept
    <2>1. ArchiveInv'
        BY <1>1, <1>6, DirectOwes
    <2>2. job \in ArchiveJob
        BY <1>1 DEF ArchiveTypeOK
    <2>3. \E phase, after : Advance(job, phase, after)
        BY <1>6 DEF ArchiveDirectChunk
    <2>4. ReaderJobs' /\ \E j \in archive_jobs' : j.subscriber = Reader
        BY <1>5, <2>2, <2>3, JobGoesOn
    <2> QED
        BY <1>6, <2>1, <2>4
           DEF ArchiveDirectChunk, Touches, createVars, fixedVars, broadcastVars
<1>7. ASSUME NEW job \in archive_jobs, ArchiveBroadcastChunk(job),
             Touches(IF Cardinality(archive_jobs') < Cardinality(archive_jobs)
                     THEN {Reader} ELSE {})
      PROVE  Kept
    <2>1. ArchiveInv'
        BY <1>1, <1>7, BroadcastOwes
    <2>2. job \in ArchiveJob
        BY <1>1 DEF ArchiveTypeOK
    <2>3. \/ \E phase, after : Advance(job, phase, after)
          \/ archive_jobs' = archive_jobs \ {job}
        BY <1>7 DEF ArchiveBroadcastChunk
    <2>4. ReaderJobs' /\ (moved' \/ \E j \in archive_jobs' : j.subscriber = Reader)
        <3>1. CASE \E phase, after : Advance(job, phase, after)
            BY <1>5, <2>2, <3>1, JobGoesOn
        <3>2. CASE archive_jobs' = archive_jobs \ {job}
            <4>1. /\ IsFiniteSet(archive_jobs')
                  /\ Cardinality(archive_jobs') = Cardinality(archive_jobs) - 1
                  /\ Cardinality(archive_jobs) \in Nat
                BY <1>1, <1>7, <3>2, FS_RemoveElement, FS_CardinalityType DEF ReaderJobs
            <4>2. moved'
                <5>1. Cardinality(archive_jobs') < Cardinality(archive_jobs)
                    BY <4>1
                <5>2. Touches({Reader})
                    BY <1>7, <5>1
                <5> QED
                    BY <5>2 DEF Touches
            <4> QED
                BY <1>1, <3>2, <4>1, <4>2 DEF ReaderJobs
        <3> QED
            BY <2>3, <3>1, <3>2
    <2> QED
        BY <1>7, <2>1, <2>4
           DEF ArchiveBroadcastChunk, Touches, createVars, rowVars, fixedVars, broadcastVars
<1>8. Kept
    BY <1>4, <1>6, <1>7 DEF ArchiveStep
<1>9. HeldInv'
    <2>1. MyRows' = MyRows
        BY <1>8 DEF MyRows, Visible
    <2> QED
        BY <1>1, <1>8, <2>1, HeldStays
<1>10. ValidatorTruthful'
    BY <1>8 DEF ValidatorTruthful, Matches
<1> QED
    BY <1>1, <1>2, <1>8, <1>9, <1>10 DEF ListInv

\* A request for the list: the validator, then the page.
LEMMA FetchStep ==
    ASSUME ListInv, (\E filter \in Filters : ComputeEtag(filter)) \/ ListItems
    PROVE  ListInv'
<1>1. /\ ArchiveInv /\ ArchiveTypeOK /\ HeldInv
      /\ UNCHANGED <<vars, archive_jobs, owed, rebuilds>>
    BY DEF ListInv, ArchiveInv, ComputeEtag, ListItems, archiveVars, upkeepVars
<1>2. MyRows' = MyRows /\ stored' = stored /\ announced' = announced
    BY <1>1 DEF MyRows, Visible, vars, createVars, rowVars, fixedVars, broadcastVars
<1>3. ArchiveInv'
    BY <1>1, ArchiveInvStep DEF allVars, archiveVars
<1>4. LatestDirect \subseteq MyRows /\ LatestBroadcast \subseteq announced
    BY <1>1, LatestOf DEF LatestIsFirst
<1>5. MyRows \subseteq stored
    BY DEF MyRows, Visible
<1>6. ASSUME NEW filter \in Filters, ComputeEtag(filter)
      PROVE  HeldInv' /\ ValidatorTruthful'
    <2>1. PICK direct, news : direct = LatestDirect /\ news = LatestBroadcast
        OBVIOUS
    <2>2. /\ held'.phase = "tagged" /\ held'.direct = direct /\ held'.broadcast = news
          /\ held' = [phase |-> held'.phase, filter |-> held'.filter, direct |-> held'.direct,
                      broadcast |-> held'.broadcast, page |-> held'.page, known |-> held'.known]
        BY <1>6, <2>1 DEF ComputeEtag, Nothing
    <2>3. HeldInv'
        BY <1>2, <1>4, <1>5, <2>1, <2>2 DEF HeldInv
    <2> QED
        BY <2>2, <2>3 DEF ValidatorTruthful, Matches
<1>7. ASSUME ListItems
      PROVE  HeldInv' /\ ValidatorTruthful'
    <2>1. PICK page, known : page = Page(held.filter) /\ known = stored \cup announced
        OBVIOUS
    <2>2. /\ held.phase = "tagged" /\ moved' = moved
          /\ held' = [held EXCEPT !.phase = "held", !.page = page, !.known = known]
        BY <1>7, <2>1 DEF ListItems
    <2>3. PICK h : h = held
        OBVIOUS
    <2>4. /\ h = [phase |-> h.phase, filter |-> h.filter, direct |-> h.direct,
                  broadcast |-> h.broadcast, page |-> h.page, known |-> h.known]
          /\ held' = [h EXCEPT !.phase = "held", !.page = page, !.known = known]
        BY <1>1, <2>2, <2>3 DEF HeldInv
    <2>5. held' = [phase |-> "held", filter |-> h.filter, direct |-> h.direct,
                   broadcast |-> h.broadcast, page |-> page, known |-> known]
        BY <2>4
    <2>6. HeldInv'
        <3>1. /\ held'.phase = "held" /\ held'.direct = h.direct /\ held'.broadcast = h.broadcast
              /\ held'.known = known /\ known = stored \cup announced
              /\ held' = [phase |-> held'.phase, filter |-> held'.filter, direct |-> held'.direct,
                          broadcast |-> held'.broadcast, page |-> held'.page, known |-> held'.known]
            BY <2>1, <2>5
        <3>2. /\ h.direct \subseteq stored /\ h.broadcast \subseteq announced
              /\ ~moved => h.direct \subseteq MyRows
            BY <1>1, <2>2, <2>3 DEF HeldInv
        <3> QED
            BY <1>2, <2>2, <3>1, <3>2 DEF HeldInv
    <2>7. Overtaken' = {}
        BY <1>2, <2>1, <2>5 DEF Overtaken
    <2>8. Page(h.filter)' = Page(h.filter)
        BY <1>1 DEF Page, ListDirect, ListBroadcast, Visible, EffectivelyRead, EffectivelyArchived,
           Muted, BroadcastVisible, BroadcastRead, BroadcastArchived, BroadcastMuted,
           vars, createVars, rowVars, broadcastVars, overrideVars, fixedVars
    <2> QED
        BY <2>1, <2>3, <2>5, <2>6, <2>7, <2>8 DEF ValidatorTruthful
<1>8. ReaderJobs' /\ rebuilds' \subseteq Subs \X Times
    BY <1>1 DEF ListInv, ReaderJobs
<1> QED
    BY <1>3, <1>6, <1>7, <1>8 DEF ListInv

LEMMA ListInvStep == ListInv /\ [ListNext]_everyVars => ListInv'
<1> SUFFICES ASSUME ListInv, [ListNext]_everyVars PROVE ListInv'
    OBVIOUS
<1>1. CASE CoreStep \/ UpkeepStep
    BY <1>1, OtherStep
<1>2. CASE ArchiveStep
    BY <1>2, ArchiveStepKeeps
<1>3. CASE (\E filter \in Filters : ComputeEtag(filter)) \/ ListItems
    BY <1>3, FetchStep
<1>4. CASE UNCHANGED everyVars
    <2>1. UNCHANGED <<vars, archive_jobs, owed, rebuilds, moved, held>>
        BY <1>4 DEF everyVars, archiveVars, upkeepVars, listVars
    <2>2. ArchiveInv'
        BY <2>1, ArchiveInvStep DEF ListInv, allVars, archiveVars
    <2>3. Undisturbed
        <3>1. now \in Int
            BY DEF ListInv, ArchiveInv, ArchiveTypeOK, TypeOK, Times
        <3> QED
            BY <2>1, <3>1
               DEF Undisturbed, RowsUndisturbed, NewsUndisturbed, PendingDeliver, vars, createVars,
                   rowVars, jobVars, broadcastVars, overrideVars, fixedVars
    <2>4. HeldInv'
        <3>1. MyRows' = MyRows
            BY <2>1 DEF MyRows, Visible, vars, createVars, rowVars, fixedVars
        <3> QED
            BY <2>1, <3>1, HeldStays DEF ListInv, vars, createVars, broadcastVars
    <2>5. ValidatorTruthful'
        BY <2>1, <2>2, <2>3, TruthStays DEF ListInv, ArchiveInv
    <2> QED
        BY <2>1, <2>2, <2>4, <2>5 DEF ListInv, ReaderJobs
<1> QED
    BY <1>1, <1>2, <1>3, <1>4 DEF ListNext

\* For every number of rows, broadcasts, subscribers and jobs: while the
\* reader's validator matches, their page is what the list query would give,
\* but for what was overtaken and between the chunks of an archive-read job
\* (inbox.rs, compute_etag, list_items).
THEOREM MatchesAreTrue == ListSpec => []ValidatorTruthful
<1>1. ListInv => ValidatorTruthful
    BY DEF ListInv
<1> QED
    BY <1>1, ListInvInit, ListInvStep, PTL DEF ListSpec

----------------------------------------------------------------------------
(* What an archive-read job takes is read, so no unread list loses it *)

UnreadStands ==
    /\ \A s \in Subs : /\ ListDirect(s, "unread")' = ListDirect(s, "unread")
                       /\ ListBroadcast(s, "unread")' = ListBroadcast(s, "unread")
    /\ UNCHANGED <<now, createVars, visible_at, counters, jobVars, fixedVars>>

LEMMA ExactWhileUnreadStands ==
    ASSUME UnreadStands, CountersExact
    PROVE  CountersExact'
<1>1. UNCHANGED <<now, stored, visible_at, subscriber_id, muted, counters, jobs, offset>>
    BY DEF UnreadStands, createVars, jobVars, fixedVars
<1>2. \A n : PendingDeliver(n)' <=> PendingDeliver(n)
    BY <1>1 DEF PendingDeliver
<1>3. ASSUME NEW s \in Subs
      PROVE  /\ {n \in ListDirect(s, "unread") : ~PendingDeliver(n)}' =
                   {n \in ListDirect(s, "unread") : ~PendingDeliver(n)}
             /\ {n \in Notifs :
                    /\ Visible(n) /\ subscriber_id[n] = s /\ ~PendingDeliver(n)
                    /\ visible_at[n] > counters[s].seen_watermark
                    /\ ~Muted(n, muted)}' =
                   {n \in Notifs :
                       /\ Visible(n) /\ subscriber_id[n] = s /\ ~PendingDeliver(n)
                       /\ visible_at[n] > counters[s].seen_watermark
                       /\ ~Muted(n, muted)}
    <2>1. ListDirect(s, "unread")' = ListDirect(s, "unread")
        BY DEF UnreadStands
    <2> QED
        BY <1>1, <1>2, <2>1 DEF Visible, Muted
<1>4. ASSUME NEW s \in Subs
      PROVE  /\ counters'[s].unread =
                   Cardinality({n \in ListDirect(s, "unread")' : ~PendingDeliver(n)'})
             /\ counters'[s].unseen =
                   Cardinality({n \in Notifs :
                       /\ Visible(n)' /\ subscriber_id'[n] = s /\ ~PendingDeliver(n)'
                       /\ visible_at'[n] > counters'[s].seen_watermark
                       /\ ~Muted(n, muted)'})
    BY <1>1, <1>3 DEF CountersExact
<1> QED
    BY <1>4 DEF CountersExact

LEMMA DirectKeepsUnread ==
    ASSUME NEW job, ArchiveDirectChunk(job)
    PROVE  UnreadStands
<1> DEFINE s      == job.subscriber
           window == {n \in stored : /\ subscriber_id[n] = s
                                     /\ visible_at[n] <= job.as_of
                                     /\ After(RowKey(n), job.after)}
           hit    == {n \in window : /\ RowKey(n) \in FirstChunk({RowKey(m) : m \in window})
                                     /\ Archives(n)}
<1>1. /\ \A n \in hit : EffectivelyRead(n)
      /\ archived_at' = archived_at \cup hit
      /\ unarchived_at' = unarchived_at \ hit
      /\ UNCHANGED <<now, createVars, visible_at, read_at, unread_at, counters, jobVars,
                     broadcastVars, overrideVars, fixedVars>>
    BY DEF ArchiveDirectChunk, Archives
<1> HIDE DEF hit
<1>2. UNCHANGED <<now, stored, visible_at, read_at, unread_at, counters, announced, created_at,
                  broadcast_reads, broadcast_archives, subscriber_id, muted>>
    BY <1>1 DEF createVars, broadcastVars, overrideVars, fixedVars
<1>3. \A n : /\ EffectivelyRead(n)' <=> EffectivelyRead(n)
             /\ Muted(n, muted)' <=> Muted(n, muted)
             /\ Visible(n)' <=> Visible(n)
    BY <1>2 DEF EffectivelyRead, Muted, Visible
<1>4. \A n : ~EffectivelyRead(n) => (EffectivelyArchived(n)' <=> EffectivelyArchived(n))
    BY <1>1, <1>2 DEF EffectivelyArchived
<1>5. ASSUME NEW t \in Subs
      PROVE  /\ ListDirect(t, "unread")' = ListDirect(t, "unread")
             /\ ListBroadcast(t, "unread")' = ListBroadcast(t, "unread")
    <2>1. ListDirect(t, "unread")' = ListDirect(t, "unread")
        <3>1. \A n : n \in ListDirect(t, "unread") <=>
                  /\ n \in Notifs /\ Visible(n) /\ subscriber_id[n] = t
                  /\ ~EffectivelyRead(n) /\ ~EffectivelyArchived(n) /\ ~Muted(n, muted)
            BY DEF ListDirect
        <3>2. \A n : n \in ListDirect(t, "unread")' <=>
                  /\ n \in Notifs /\ Visible(n)' /\ subscriber_id'[n] = t
                  /\ ~EffectivelyRead(n)' /\ ~EffectivelyArchived(n)' /\ ~Muted(n, muted)'
            BY DEF ListDirect
        <3>3. \A n : n \in ListDirect(t, "unread")' <=> n \in ListDirect(t, "unread")
            BY <1>2, <1>3, <1>4, <3>1, <3>2
        <3> QED
            BY <3>3
    <2>2. ListBroadcast(t, "unread")' = ListBroadcast(t, "unread")
        BY <1>2 DEF ListBroadcast, BroadcastVisible, BroadcastRead, BroadcastArchived,
           BroadcastMuted
    <2> QED
        BY <2>1, <2>2
<1> QED
    BY <1>1, <1>5 DEF UnreadStands

LEMMA BroadcastKeepsUnread ==
    ASSUME TypeOK, NEW job, ArchiveBroadcastChunk(job)
    PROVE  UnreadStands
<1> DEFINE owner  == job.subscriber
           window == {b \in announced : /\ BroadcastVisible(owner, b)
                                        /\ created_at[b] <= job.as_of
                                        /\ After(BroadcastKey(b), job.after)}
           hit    == {b \in window : /\ BroadcastKey(b) \in
                                            FirstChunk({BroadcastKey(c) : c \in window})
                                     /\ BroadcastRead(owner, b) /\ ~BroadcastArchived(owner, b)}
<1>1. /\ \A b \in hit : BroadcastRead(owner, b)
      /\ broadcast_archives' = [p \in Subs \X Broadcasts |->
            IF p[1] = owner /\ p[2] \in hit THEN "true" ELSE broadcast_archives[p]]
      /\ UNCHANGED <<now, createVars, rowVars, counters, jobVars, broadcastVars,
                     broadcast_reads, fixedVars>>
    BY DEF ArchiveBroadcastChunk
<1> HIDE DEF hit, owner
<1>2. UNCHANGED <<now, stored, rowVars, counters, announced, created_at, broadcast_reads,
                  subscriber_id, muted>>
    BY <1>1 DEF createVars, broadcastVars, fixedVars
<1>3. ASSUME NEW s \in Subs, NEW b \in Broadcasts
      PROVE  /\ BroadcastRead(s, b)' = BroadcastRead(s, b)
             /\ BroadcastMuted(s, b)' <=> BroadcastMuted(s, b)
             /\ BroadcastVisible(s, b)' <=> BroadcastVisible(s, b)
    BY <1>2 DEF BroadcastRead, BroadcastMuted, BroadcastVisible
<1>4. ASSUME NEW s \in Subs, NEW b \in Broadcasts, ~BroadcastRead(s, b)
      PROVE  BroadcastArchived(s, b)' = BroadcastArchived(s, b)
    <2>1. ~(s = owner /\ b \in hit)
        BY <1>1, <1>4
    <2>2. broadcast_archives'[<<s, b>>] = broadcast_archives[<<s, b>>]
        BY <1>1, <2>1
    <2> QED
        BY <1>2, <2>2 DEF BroadcastArchived
<1>5. ASSUME NEW s \in Subs
      PROVE  /\ ListDirect(s, "unread")' = ListDirect(s, "unread")
             /\ ListBroadcast(s, "unread")' = ListBroadcast(s, "unread")
    <2>1. ListDirect(s, "unread")' = ListDirect(s, "unread")
        BY <1>2 DEF ListDirect, Visible, EffectivelyRead, EffectivelyArchived, Muted, rowVars
    <2>2. ListBroadcast(s, "unread")' = ListBroadcast(s, "unread")
        <3>1. \A b : b \in ListBroadcast(s, "unread") <=>
                  /\ b \in Broadcasts /\ BroadcastVisible(s, b) /\ ~BroadcastRead(s, b)
                  /\ ~BroadcastArchived(s, b) /\ ~BroadcastMuted(s, b)
            BY DEF ListBroadcast
        <3>2. \A b : b \in ListBroadcast(s, "unread")' <=>
                  /\ b \in Broadcasts /\ BroadcastVisible(s, b)' /\ ~BroadcastRead(s, b)'
                  /\ ~BroadcastArchived(s, b)' /\ ~BroadcastMuted(s, b)'
            BY DEF ListBroadcast
        <3>3. \A b : b \in ListBroadcast(s, "unread")' <=> b \in ListBroadcast(s, "unread")
            BY <1>3, <1>4, <3>1, <3>2, Zenon
        <3> QED
            BY <3>3
    <2> QED
        BY <2>1, <2>2
<1> QED
    BY <1>1, <1>5 DEF UnreadStands, rowVars

\* For every number of rows, broadcasts, subscribers and jobs: queueing an
\* archive-read job and each of its chunks leave the unread lists as they are,
\* and the counters as exact as they found them (worker.rs,
\* process_archive_read, which writes no counter).
THEOREM ArchivingKeepsUnread == ListSpec => ArchiveReadKeepsUnread
<1> DEFINE Keeps == archive_jobs' # archive_jobs =>
               \A s \in Subs :
                   /\ ListDirect(s, "unread")' = ListDirect(s, "unread")
                   /\ ListBroadcast(s, "unread")' = ListBroadcast(s, "unread")
                   /\ CountersExact => CountersExact'
<1>1. ListInv /\ [ListNext]_everyVars => [Keeps]_allVars
    <2> SUFFICES ASSUME ListInv, ListNext, archive_jobs' # archive_jobs
                 PROVE  Keeps
        BY DEF everyVars, archiveVars, allVars
    <2>1. ArchiveStep
        BY DEF ListNext, CoreStep, UpkeepStep, ComputeEtag, ListItems, archiveVars
    <2>2. TypeOK
        BY DEF ListInv, ArchiveInv, ArchiveTypeOK
    <2>3. CASE RequestArchiveRead(Reader)
        <3>1. UNCHANGED vars
            BY <2>3 DEF RequestArchiveRead
        <3> QED
            BY <3>1, ExactWhileUnreadStands
               DEF UnreadStands, ListDirect, ListBroadcast, Visible, EffectivelyRead,
                   EffectivelyArchived, Muted, BroadcastVisible, BroadcastRead,
                   BroadcastArchived, BroadcastMuted, vars, createVars, rowVars, broadcastVars,
                   overrideVars, fixedVars
    <2>4. ASSUME NEW job \in archive_jobs, ArchiveDirectChunk(job) \/ ArchiveBroadcastChunk(job)
          PROVE  Keeps
        <3>1. UnreadStands
            BY <2>2, <2>4, DirectKeepsUnread, BroadcastKeepsUnread
        <3> QED
            BY <3>1, ExactWhileUnreadStands DEF UnreadStands
    <2> QED
        BY <2>1, <2>3, <2>4 DEF ArchiveStep
<1>2. ArchiveReadKeepsUnread <=> [][Keeps]_allVars
    BY DEF ArchiveReadKeepsUnread
<1> QED
    BY <1>1, <1>2, ListInvInit, ListInvStep, PTL DEF ListSpec
=============================================================================
