---------------------------- MODULE ArchiveRead ----------------------------
(***************************************************************************)
(* POST /v1/inbox/archive-read: the handler freezes a horizon and queues a *)
(* job; the worker archives the items that are read by then in keyset      *)
(* chunks, direct rows first, then broadcasts.  Everything else the core   *)
(* does may happen between two chunks.                                     *)
(***************************************************************************)
EXTENDS Inbox

CONSTANTS
    IdOrder,         \* the order of ids within one timestamp
    ArchiveChunk,    \* rows one claim of the job scans
    MaxArchiveJobs   \* bound: archive_read jobs queued at once

ASSUME ArchiveAssumption ==
    /\ IdOrder \in [Notifs \cup Broadcasts -> Nat \ {0}]
    /\ \A i, j \in Notifs \cup Broadcasts : i # j => IdOrder[i] # IdOrder[j]
    /\ ArchiveChunk \in Nat \ {0}
    /\ MaxArchiveJobs \in Nat

VARIABLES
    archive_jobs,    \* the queued archive_read jobs with their cursors
    owed             \* history: what the queued jobs have promised to archive

archiveVars == <<archive_jobs, owed>>
allVars == <<vars, archiveVars>>

\* A position in the keyset order, and the one before every row.
Position == Times \X Nat
Start == <<0, 0>>

ArchiveJob == [subscriber : Subs, as_of : Times,
               phase : {"direct", "broadcast"}, after : Position]

After(p, q) == p[1] > q[1] \/ (p[1] = q[1] /\ p[2] > q[2])

RowKey(n) == <<visible_at[n], IdOrder[n]>>
BroadcastKey(b) == <<created_at[b], IdOrder[b]>>

\* The first ArchiveChunk members of a set of positions (ORDER BY .. LIMIT).
FirstChunk(window) ==
    {p \in window : Cardinality({q \in window : After(p, q)}) < ArchiveChunk}

\* Mutant: off by one.
OverFull(chunk) == Cardinality(chunk) > ArchiveChunk

Full(chunk) == Cardinality(chunk) = ArchiveChunk

Last(chunk) == CHOOSE p \in chunk : \A q \in chunk \ {p} : After(p, q)

ReadNotArchived(s) ==
    {n \in Notifs : /\ Visible(n) /\ subscriber_id[n] = s
                    /\ EffectivelyRead(n) /\ ~EffectivelyArchived(n)}
    \cup {b \in Broadcasts : /\ BroadcastVisible(s, b)
                             /\ BroadcastRead(s, b) /\ ~BroadcastArchived(s, b)}

\* The history: an item stays owed until it is archived or is read no more.
Owe(promised) ==
    owed' = [s \in Subs |-> (owed[s] \cup promised[s]) \cap ReadNotArchived(s)']

NothingNew == [s \in Subs |-> {}]

----------------------------------------------------------------------------

\* archive_read, the handler: as_of is clock_timestamp() under the lock.
RequestArchiveRead(s) ==
    /\ Exists(s)
    /\ Cardinality(archive_jobs) < MaxArchiveJobs
    /\ archive_jobs' = archive_jobs \cup
          {[subscriber |-> s, as_of |-> now, phase |-> "direct", after |-> Start]}
    /\ UNCHANGED vars
    /\ Owe([NothingNew EXCEPT ![s] = ReadNotArchived(s)])

\* Mutant: the cursor is not saved.
AdvanceInPlace(job, phase, after) ==
    archive_jobs' = (archive_jobs \ {job}) \cup {[job EXCEPT !.phase = phase]}

Advance(job, phase, after) ==
    archive_jobs' = (archive_jobs \ {job})
                    \cup {[job EXCEPT !.phase = phase, !.after = after]}

\* Mutant: whether the item is read is not asked.
ArchivesAny(n) == ~EffectivelyArchived(n)

Archives(n) == EffectivelyRead(n) /\ ~EffectivelyArchived(n)

\* The direct phase: scan a chunk, archive what is read and not archived in
\* it, save the cursor.  A short chunk ends the phase.
ArchiveDirectChunk(job) ==
    LET s      == job.subscriber
        window == {n \in stored : /\ subscriber_id[n] = s
                                  /\ visible_at[n] <= job.as_of
                                  /\ After(RowKey(n), job.after)}
        chunk  == FirstChunk({RowKey(n) : n \in window})
        hit    == {n \in window : RowKey(n) \in chunk /\ Archives(n)}
    IN  /\ job.phase = "direct"
        /\ archived_at' = archived_at \cup hit
        /\ unarchived_at' = unarchived_at \ hit
        /\ IF Full(chunk)
           THEN Advance(job, "direct", Last(chunk))
           ELSE Advance(job, "broadcast", Start)
        /\ UNCHANGED <<now, createVars, visible_at, read_at, unread_at, counters,
                       jobVars, broadcastVars, overrideVars, fixedVars, hints>>
        /\ Owe(NothingNew)

\* The broadcast phase: the same with override rows; the last chunk deletes
\* the job and queues one hint.
ArchiveBroadcastChunk(job) ==
    LET s      == job.subscriber
        window == {b \in announced : /\ BroadcastVisible(s, b)
                                     /\ created_at[b] <= job.as_of
                                     /\ After(BroadcastKey(b), job.after)}
        chunk  == FirstChunk({BroadcastKey(b) : b \in window})
        hit    == {b \in window : /\ BroadcastKey(b) \in chunk
                                  /\ BroadcastRead(s, b) /\ ~BroadcastArchived(s, b)}
    IN  /\ job.phase = "broadcast"
        /\ broadcast_archives' = [p \in Subs \X Broadcasts |->
              IF p[1] = s /\ p[2] \in hit THEN "true" ELSE broadcast_archives[p]]
        /\ \/ /\ Full(chunk)
              /\ Advance(job, "broadcast", Last(chunk))
              /\ hints' = hints
           \/ /\ ~Full(chunk)
              /\ archive_jobs' = archive_jobs \ {job}
              /\ hints' = hints \cup {{s}}
        /\ UNCHANGED <<now, createVars, rowVars, counters, jobVars, broadcastVars,
                       broadcast_reads, fixedVars>>
        /\ Owe(NothingNew)

ProcessArchiveRead(job) == ArchiveDirectChunk(job) \/ ArchiveBroadcastChunk(job)

ArchiveInit == Init /\ archive_jobs = {} /\ owed = NothingNew

ArchiveNext ==
    \/ Next /\ UNCHANGED archive_jobs /\ Owe(NothingNew)
    \/ \E s \in Acting : RequestArchiveRead(s)
    \/ \E job \in archive_jobs : ProcessArchiveRead(job)

ArchiveSpec == ArchiveInit /\ [][ArchiveNext]_allVars

\* Claims go by run_at, so no queued job is passed over for ever.
ArchiveFairSpec ==
    /\ ArchiveSpec
    /\ \A s \in Subs :
          WF_allVars(\E job \in archive_jobs : job.subscriber = s /\ ProcessArchiveRead(job))

----------------------------------------------------------------------------

ArchiveTypeOK ==
    /\ TypeOK
    /\ archive_jobs \subseteq ArchiveJob
    /\ owed \in [Subs -> SUBSET (Notifs \cup Broadcasts)]

\* Nothing is forgotten between the chunks: once a subscriber has no job left,
\* every item that was read and in the inbox when they asked has been archived
\* or has turned unread since (worker.rs, process_archive_read: the cursor
\* over both sources and its two chunk boundaries).
NothingForgotten ==
    \A s \in Subs : (\A job \in archive_jobs : job.subscriber # s) => owed[s] = {}

\* The job archives without touching a counter, which is right only because
\* it meets read items alone: the unread list and the badge stand still.
ArchiveReadKeepsUnread ==
    [][archive_jobs' # archive_jobs =>
        \A s \in Subs :
            /\ ListDirect(s, "unread")' = ListDirect(s, "unread")
            /\ ListBroadcast(s, "unread")' = ListBroadcast(s, "unread")
            /\ CountersExact => CountersExact']_allVars

\* A chunk's changes are announced when the job is done, and the job always
\* gets there: chunk by chunk it leaves the queue.
ArchiveReadEnds ==
    \A s \in Subs : (\E job \in archive_jobs : job.subscriber = s)
        ~> (owed[s] = {} /\ \E targets \in hints : s \in targets)
=============================================================================
