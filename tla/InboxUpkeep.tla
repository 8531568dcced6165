---------------------------- MODULE InboxUpkeep ----------------------------
(***************************************************************************)
(* What else writes the counters and the rows: preference writes and the   *)
(* counter_rebuild job they queue, moving notifications from one subscriber*)
(* to another, and parking and replaying a deliver job.                    *)
(*                                                                         *)
(* Two things a transaction saw before it got its locks survive into what  *)
(* it writes: recount_subscriber compares visible_at with now(), which is  *)
(* BEGIN, and the counters UPDATE of a create reads the preferences in the *)
(* snapshot it started with, although it re-reads the counters row it      *)
(* waited for.  RecountLag and UpdateWaits bound how long the wait may be. *)
(***************************************************************************)
EXTENDS Inbox

CONSTANTS
    RecountLag,    \* bound: time from BEGIN to the counters lock in a recount
    UpdateWaits,   \* whether the counters UPDATE of a create may have to wait
    MaxFlips,      \* bound: preference writes
    MaxParks       \* bound: deliver jobs parked

ASSUME UpkeepAssumption ==
    /\ RecountLag \in Nat
    /\ UpdateWaits \in BOOLEAN
    /\ MaxFlips \in Nat
    /\ MaxParks \in Nat

VARIABLES
    rebuilds,   \* queued counter_rebuild jobs: subscriber and run_at
    waiting,    \* creates whose counters UPDATE has started
    seen_mutes, \* the preferences in the snapshot of that statement
    parked,     \* deliver jobs in dead_letters
    skewed,     \* history: subscribers whose counters a stale read or a parked
                \* job may have put off since their last recount
    flips, parks

upkeepVars == <<rebuilds, waiting, seen_mutes, parked, skewed, flips, parks>>
allUpkeepVars == <<vars, upkeepVars>>

\* A parked job is not in the jobs table, so its rows are not pending here.
Recounts(s, n, asOf, hidden) ==
    /\ subscriber_id'[n] = s /\ visible_at[n] <= asOf
    /\ ~PendingDeliver(n)
    /\ <<s, CategoryOf[n]>> \notin hidden

\* recount_subscriber, with the now() of its transaction.
Recount(s, asOf, row, hidden) ==
    LET mine == {n \in stored : Recounts(s, n, asOf, hidden)}
    IN  [row EXCEPT
            !.unread = Cardinality({n \in mine :
                /\ n \notin read_at'
                /\ n \in unread_at' \/ visible_at[n] > row.read_watermark
                /\ n \notin archived_at'
                /\ n \in unarchived_at' \/ visible_at[n] > row.archive_watermark}),
            !.unseen = Cardinality({n \in mine : visible_at[n] > row.seen_watermark})]

\* A recount as of an instant before its lock misses what was counted meanwhile;
\* what a parked job has still to count, a recount does not mend.
Skews(subs, asOf, hidden) ==
    skewed' = (skewed \ subs) \cup
        {s \in subs : \/ \E n \in stored : /\ Recounts(s, n, now, hidden)
                                          /\ ~Recounts(s, n, asOf, hidden)
                     \/ \E r \in parked : s \in Recipients(r)'}

\* The instants at which a transaction that now holds its locks may have begun.
BeganSince(t) == {begin \in t .. now : now - begin <= RecountLag}

QueueRebuild(s) == rebuilds' = rebuilds \cup {<<s, now>>}

\* PUT preferences: one (subscriber, category) pair changes; the recount is
\* left to a job.
WritePreference(s, c) ==
    /\ Exists(s)
    /\ flips < MaxFlips
    /\ flips' = flips + 1
    /\ muted' = IF <<s, c>> \in muted THEN muted \ {<<s, c>>} ELSE muted \cup {<<s, c>>}
    /\ QueueRebuild(s)
    /\ hints' = hints \cup {{s}}
    /\ UNCHANGED <<now, createVars, rowVars, counters, jobVars, broadcastVars,
                   overrideVars, subscriber_id, waiting, seen_mutes, parked, skewed, parks>>

ProcessCounterRebuild(job) ==
    LET s == job[1] IN
    /\ job \in rebuilds
    /\ UNCHANGED <<now, createVars, rowVars, jobVars, broadcastVars, overrideVars,
                   fixedVars, waiting, seen_mutes, parked, flips, parks>>
    /\ \E begin \in BeganSince(job[2]) :
          /\ counters' = [counters EXCEPT ![s] = Recount(s, begin, @, muted)]
          /\ Skews({s}, begin, muted)
    /\ rebuilds' = rebuilds \ {job}
    /\ hints' = hints \cup {{s}}

\* The counters UPDATE of an immediate create takes its snapshot, and waits
\* for one of the several rows it has to lock.
StartCountersUpdate(r) ==
    /\ UpdateWaits
    /\ Cardinality(Recipients(r)) > 1
    /\ r \in creating \ (scheduled \cup waiting)
    /\ waiting' = waiting \cup {r}
    /\ seen_mutes' = [seen_mutes EXCEPT ![r] = muted]
    /\ UNCHANGED <<vars, rebuilds, parked, skewed, flips, parks>>

FinishCreate(r) ==
    /\ r \in waiting
    /\ CommitImmediate(r, seen_mutes[r])
    /\ waiting' = waiting \ {r}
    /\ seen_mutes' = [seen_mutes EXCEPT ![r] = {}]
    /\ skewed' = skewed \cup
           {RecipientOf[n] : n \in {n \in Ids(r) :
               <<RecipientOf[n], CategoryOf[n]>> \in (muted \ seen_mutes[r])
                                              \cup (seen_mutes[r] \ muted)}}
    /\ UNCHANGED <<rebuilds, parked, flips, parks>>

AbandonCreate(r) ==
    /\ r \in waiting
    /\ RollbackCreate(r)
    /\ waiting' = waiting \ {r}
    /\ seen_mutes' = [seen_mutes EXCEPT ![r] = {}]
    /\ UNCHANGED <<rebuilds, parked, skewed, flips, parks>>

\* Mutant: an item at the target's watermark gets no override.
NeedsOverrideBefore(n, watermark) == visible_at[n] < watermark

NeedsOverride(n, watermark) == visible_at[n] <= watermark

\* Mutant: only the new subscriber is told.
MoveTargetsOne(from, to) == {to}

MoveTargets(from, to) == {from, to}

\* move_notifications_txn: state becomes explicit per row under both counters
\* locks, an override only at or below the target's watermark; the target
\* inherits the mutes; both subscribers are recounted.
MoveNotifications(from, to, ids) ==
    \E begin \in BeganSince(1) :
    LET movable == {n \in ids : /\ n \in stored /\ subscriber_id[n] = from
                                /\ visible_at[n] <= begin /\ ~PendingDeliver(n)}
        nowMuted == muted \cup {<<to, c>> : c \in {c \in Categories : <<from, c>> \in muted}}
        target == counters[to]
    IN  /\ Exists(from) /\ Exists(to) /\ from # to
        /\ movable # {}
        /\ subscriber_id' = [n \in Notifs |-> IF n \in movable THEN to ELSE subscriber_id[n]]
        /\ read_at' = (read_at \ movable) \cup {n \in movable : EffectivelyRead(n)}
        /\ unread_at' = (unread_at \ movable) \cup
              {n \in movable : ~EffectivelyRead(n) /\ NeedsOverride(n, target.read_watermark)}
        /\ archived_at' = (archived_at \ movable) \cup {n \in movable : EffectivelyArchived(n)}
        /\ unarchived_at' = (unarchived_at \ movable) \cup
              {n \in movable : ~EffectivelyArchived(n)
                               /\ NeedsOverride(n, target.archive_watermark)}
        /\ muted' = nowMuted
        /\ counters' = [counters EXCEPT ![from] = Recount(from, begin, @, nowMuted),
                                        ![to] = Recount(to, begin, @, nowMuted)]
        /\ hints' = hints \cup {MoveTargets(from, to)}
        /\ Skews({from, to}, begin, nowMuted)
        /\ UNCHANGED <<now, createVars, visible_at, jobVars, broadcastVars, overrideVars,
                       rebuilds, waiting, seen_mutes, parked, flips, parks>>

\* A deliver job that failed max_attempts times goes to dead_letters with its
\* cursor, and comes back with it.  A failure before that only delays the job.
ParkDeliver(r) ==
    /\ r \in jobs /\ RunAt(r) <= now
    /\ parks < MaxParks
    /\ jobs' = jobs \ {r}
    /\ parked' = parked \cup {r}
    /\ parks' = parks + 1
    /\ skewed' = skewed \cup Recipients(r)
    /\ UNCHANGED <<now, createVars, rowVars, counters, offset, broadcastVars,
                   overrideVars, fixedVars, hints, rebuilds, waiting, seen_mutes, flips>>

\* Mutant: the job is inserted and not deleted.
ReplayCopy(r) ==
    /\ r \in parked
    /\ jobs' = jobs \cup {r}
    /\ UNCHANGED <<now, createVars, rowVars, counters, offset, broadcastVars,
                   overrideVars, fixedVars, hints, upkeepVars>>

ReplayDeliver(r) ==
    /\ r \in parked
    /\ jobs' = jobs \cup {r}
    /\ parked' = parked \ {r}
    /\ UNCHANGED <<now, createVars, rowVars, counters, offset, broadcastVars,
                   overrideVars, fixedVars, hints, rebuilds, waiting, seen_mutes, skewed,
                   flips, parks>>

UpkeepInit ==
    /\ Init
    /\ rebuilds = {}
    /\ waiting = {}
    /\ seen_mutes = [r \in Requests |-> {}]
    /\ parked = {} /\ skewed = {}
    /\ flips \in 0..MaxFlips /\ parks \in 0..MaxParks

\* A create that waits for its locks commits or rolls back with the actions
\* above.
UpkeepNext ==
    \/ Next /\ creating \cap waiting \subseteq creating' /\ UNCHANGED upkeepVars
    \/ \E s \in Acting, c \in Categories : WritePreference(s, c)
    \/ \E job \in rebuilds : ProcessCounterRebuild(job)
    \/ \E r \in Requests : \/ StartCountersUpdate(r)
                           \/ FinishCreate(r)
                           \/ AbandonCreate(r)
                           \/ ParkDeliver(r)
                           \/ ReplayDeliver(r)
    \/ \E from \in Subs, to \in Acting, ids \in SUBSET Notifs : MoveNotifications(from, to, ids)

UpkeepSpec == UpkeepInit /\ [][UpkeepNext]_allUpkeepVars

----------------------------------------------------------------------------

UpkeepTypeOK ==
    /\ TypeOK
    /\ rebuilds \subseteq Subs \X Times
    /\ waiting \subseteq creating
    /\ seen_mutes \in [Requests -> SUBSET (Subs \X Categories)]
    /\ parked \subseteq Requests /\ parked \cap jobs = {}
    /\ skewed \subseteq Subs

ExactFor(s) ==
    /\ counters[s].unread = Cardinality({n \in ListDirect(s, "unread") : ~PendingDeliver(n)})
    /\ counters[s].unseen =
          Cardinality({n \in ListDirect(s, "default") \cup ListDirect(s, "archived") :
                          ~PendingDeliver(n) /\ visible_at[n] > counters[s].seen_watermark})

\* Counters come to rest exact: with no recount queued for a subscriber, their
\* counters are what the list says (worker.rs, recount_subscriber and
\* process_counter_rebuild; management.rs, move_notifications_txn; dlq.rs,
\* replay_where), but for three ways to put them off, which last until a recount:
\* a recount that began before a row it should count was visible, a create that
\* counts with preferences that were changed and recounted while it waited, and
\* a deliver job that was parked.
ExactAtRest ==
    \A s \in Subs \ skewed : (\A job \in rebuilds : job[1] # s) => ExactFor(s)

\* A notification that changes hands looks to its new subscriber as it did to
\* the old one, whatever their watermarks are (management.rs,
\* move_notifications_txn).
MovesKeepState ==
    [][\A n \in Notifs : subscriber_id'[n] # subscriber_id[n] =>
          /\ EffectivelyRead(n)' = EffectivelyRead(n)
          /\ EffectivelyArchived(n)' = EffectivelyArchived(n)]_allUpkeepVars

\* Every client whose view changes is told, preference writes and moves
\* included.
UpkeepHintsCoverChanges ==
    [][\A s \in Subs : Shown(s)' # Shown(s) => Announced(s)']_allUpkeepVars
=============================================================================
