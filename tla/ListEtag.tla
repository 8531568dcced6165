------------------------------ MODULE ListEtag ------------------------------
(***************************************************************************)
(* GET /v1/inbox/items with If-None-Match.  The validator is computed by a *)
(* statement of its own, before the list query, from four cheap inputs: the*)
(* counters row's updated_at, the latest preference, the latest visible    *)
(* direct item and the latest broadcast.  One reader keeps a page and its  *)
(* ETag while everything that can change a page goes on: the core, the     *)
(* archive-read job, preference writes and moves.                          *)
(*                                                                         *)
(* updated_at is now() or clock_timestamp() of the transaction that writes *)
(* it, so no two writes leave the same value: `moved' says whether the row *)
(* was written since the reader's validator was computed.  The preferences *)
(* input is left out: it changes only together with updated_at.            *)
(***************************************************************************)
EXTENDS ArchiveRead, InboxUpkeep

CONSTANTS
    Reader,      \* the subscriber whose list is fetched
    MaxActs      \* bound: the reader's other requests and moves

ASSUME ReaderAssumption == Reader \in Acting /\ MaxActs \in Nat

VARIABLES
    acts,        \* requests and moves so far
    moved,       \* counters.updated_at was written since the validator
    held         \* the reader's last answer: the validator and the page

listVars == <<acts, moved, held>>
everyVars == <<vars, archiveVars, upkeepVars, listVars>>

Filters == {"default", "unread", "archived"}

\* The first page is long enough for the whole list.
Page(filter) ==
    {<<n, EffectivelyRead(n), EffectivelyArchived(n)>> : n \in ListDirect(Reader, filter)}
    \cup {<<b, BroadcastRead(Reader, b), BroadcastArchived(Reader, b)>> :
            b \in ListBroadcast(Reader, filter)}

Newest(items, Key(_)) ==
    IF items = {} THEN {}
    ELSE {CHOOSE i \in items : \A j \in items \ {i} : After(Key(i), Key(j))}

LatestDirect ==
    Newest({n \in Notifs : Visible(n) /\ subscriber_id[n] = Reader}, RowKey)

\* The environment's latest, whether the subscriber is shown it or not.
LatestBroadcast == Newest(announced, BroadcastKey)

Nothing == [phase |-> "none", filter |-> "default", direct |-> {}, broadcast |-> {},
            page |-> {}, known |-> {}]

\* The If-None-Match the reader would send matches the validator computed now.
Matches ==
    /\ held.phase = "held"
    /\ ~moved
    /\ held.direct = LatestDirect
    /\ held.broadcast = LatestBroadcast

----------------------------------------------------------------------------

\* compute_etag: a match is answered 304 and changes nothing; otherwise the
\* list query follows.  setFilter forgets the ETag.
ComputeEtag(filter) ==
    /\ Exists(Reader)
    /\ held.phase = "tagged" => filter # held.filter
    /\ ~(Matches /\ filter = held.filter)
    /\ held' = [Nothing EXCEPT !.phase = "tagged", !.filter = filter,
                               !.direct = LatestDirect, !.broadcast = LatestBroadcast]
    /\ moved' = FALSE
    /\ UNCHANGED <<vars, archiveVars, upkeepVars, acts>>

\* list_items_for, a later statement with a snapshot of its own.
ListItems ==
    /\ held.phase = "tagged"
    /\ held' = [held EXCEPT !.phase = "held", !.page = Page(held.filter),
                            !.known = stored \cup announced]
    /\ UNCHANGED <<vars, archiveVars, upkeepVars, acts, moved>>

\* Mutant: the row is only touched when a count in it changes.
TouchesCounted(subs) ==
    /\ moved' = (moved \/ (Reader \in subs /\ counters'[Reader] # counters[Reader]))
    /\ UNCHANGED held

\* The counters rows a transaction writes, and so their updated_at.
Touches(subs) ==
    /\ moved' = (moved \/ Reader \in subs)
    /\ UNCHANGED held

CreateStep(r) ==
    \/ CommitImmediate(r, muted) /\ Touches(Recipients(r))
    \/ ProcessDeliver(r) /\ Touches({subscriber_id[n] : n \in Chunk(r)})
    \/ (BeginCreate(r) \/ CommitScheduled(r) \/ RollbackCreate(r)) /\ Touches({})

BroadcastStep(b) ==
    (BeginBroadcast(b) \/ CommitBroadcast(b) \/ RollbackBroadcast(b)) /\ Touches({})

RecountedByMove(from, to) == {from, to}

Act == acts < MaxActs /\ acts' = acts + 1

\* Every mutation the reader sends writes the row, also those that change no
\* count.  Another subscriber's writes no row that the reader's list shows.
ReaderStep ==
    /\ Act
    /\ \/ MarkAllRead(Reader) \/ MarkAllSeen(Reader) \/ ArchiveAll(Reader)
       \/ \E n \in Notifs :
             /\ subscriber_id[n] = Reader
             /\ \/ MarkNotificationRead(n) \/ MarkNotificationUnread(n)
                \/ ArchiveNotification(n) \/ UnarchiveNotification(n)
       \/ \E b \in Broadcasts :
             \/ MarkBroadcastRead(Reader, b) \/ MarkBroadcastUnread(Reader, b)
             \/ ArchiveBroadcast(Reader, b) \/ UnarchiveBroadcast(Reader, b)
    /\ Touches({Reader})

\* Hints are not published here: no list reads them.
CoreStep ==
    /\ \/ Tick /\ Touches({}) /\ UNCHANGED acts
       \/ \E r \in Requests : CreateStep(r) /\ UNCHANGED acts
       \/ \E b \in Broadcasts : BroadcastStep(b) /\ UNCHANGED acts
       \/ ReaderStep
    /\ UNCHANGED <<archive_jobs, upkeepVars>>
    /\ Owe(NothingNew)

\* The chunks before the last one leave the row alone.
ArchiveStep ==
    /\ \/ RequestArchiveRead(Reader) /\ Touches({}) /\ Act
       \/ /\ UNCHANGED acts
          /\ \E job \in archive_jobs :
                \/ ArchiveDirectChunk(job) /\ Touches({})
                \/ /\ ArchiveBroadcastChunk(job)
                   /\ Touches(IF Cardinality(archive_jobs') < Cardinality(archive_jobs)
                              THEN {Reader} ELSE {})
    /\ UNCHANGED upkeepVars

\* Creates that wait and parked jobs are looked at in InboxUpkeep alone.
UpkeepStep ==
    /\ \/ \E c \in Categories :
             WritePreference(Reader, c) /\ Touches({Reader}) /\ UNCHANGED acts
       \/ \E job \in rebuilds :
             ProcessCounterRebuild(job) /\ Touches({job[1]}) /\ UNCHANGED acts
       \/ \E from, to \in Acting, ids \in SUBSET Notifs :
             /\ MoveNotifications(from, to, ids)
             /\ Touches(RecountedByMove(from, to))
             /\ Act
    /\ UNCHANGED archive_jobs
    /\ Owe(NothingNew)

ListInit ==
    /\ ArchiveInit /\ UpkeepInit
    /\ flips = 0 /\ acts = 0
    /\ moved = FALSE
    /\ held = Nothing

ListNext ==
    \/ CoreStep \/ ArchiveStep \/ UpkeepStep
    \/ \E filter \in Filters : ComputeEtag(filter)
    \/ ListItems

ListSpec == ListInit /\ [][ListNext]_everyVars

----------------------------------------------------------------------------

\* What the validator cannot tell: what committed below the latest item it
\* names, a broadcast or a scheduled item that its job has still to count.
Overtaken ==
    {b \in announced \ held.known :
        \E latest \in held.broadcast : After(BroadcastKey(latest), BroadcastKey(b))}
    \cup {n \in stored \ held.known :
        PendingDeliver(n) /\ \E latest \in held.direct : After(RowKey(latest), RowKey(n))}

\* A 304 is true but for three named cases: while the reader's ETag matches,
\* their page is the page the list query would give, the overtaken items apart
\* and except between the chunks of an archive-read job (inbox.rs,
\* compute_etag and list_items; preferences.rs, write, which relies on the
\* counters row alone).
ValidatorTruthful ==
    (Matches /\ \A job \in archive_jobs : job.subscriber # Reader) =>
        held.page = {i \in Page(held.filter) : i[1] \notin Overtaken}
=============================================================================
