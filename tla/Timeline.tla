------------------------------ MODULE Timeline ------------------------------
(***************************************************************************)
(* The status timeline of direct notifications: created, delivered_hint,   *)
(* seen and read rows, appended once each by the transactions that make    *)
(* them true.  A watermark move leaves a job that walks its window in      *)
(* chunks; a per-item read appends its own row; both check that the row is *)
(* missing under the subscriber's counters row.  Creates commit late,      *)
(* notifications move between subscribers, and workers die between a scan  *)
(* and a commit.                                                           *)
(***************************************************************************)
EXTENDS Integers, FiniteSets

CONSTANTS
    Subscribers,
    N,        \* bound: notifications, numbered in the order of their uuids
    Delay,    \* how far ahead a scheduled notification is put
    Chunk,    \* rows of one timeline transaction (TIMELINE_CHUNK)
    MaxTime   \* bound: instants taken

ASSUME TimelineAssumption ==
    /\ N \in Nat /\ Delay \in Nat /\ MaxTime \in Nat
    /\ Chunk \in Nat \ {0}

Notifications == 1 .. N
Times == 0 .. MaxTime
Statuses == {"created", "delivered_hint", "seen", "read"}
Moves == {"seen", "read"}       \* the statuses a watermark move gives

VARIABLES
    clock,      \* the last instant taken; every transaction takes its own
    state,      \* of a notification: "unborn", "open" (not committed), "stored"
    owner,      \* its subscriber
    born,       \* now() of its creation, its created_at
    visible,    \* its visible_at
    mark,       \* "read" (read_at), "unread" (unread_at) or "none"
    watermark,  \* [subscriber -> ["seen", "read" -> instant]]
    due,        \* notifications a deliver job still owns
    hints,      \* [id, to]: pending hint jobs
    jobs,       \* pending timeline jobs
    work,       \* the claimed timeline job and the rows it has scanned, or None
    reading,    \* the mark-read request in progress, or None
    log,        \* notification_status_log: <<id, status, occurred_at>>
    was,        \* history: [status -> notifications that have had it]
    late,       \* history: committed at or below a watermark
    moved       \* history: moved to another subscriber

rowVars == <<state, owner, born, visible>>
jobVars == <<due, hints, jobs, work>>
ghostVars == <<was, late, moved>>
vars == <<clock, rowVars, mark, watermark, jobVars, reading, log, ghostVars>>

None == [s |-> "none"]

Init ==
    /\ clock = 0
    /\ state = [n \in Notifications |-> "unborn"]
    /\ owner \in [Notifications -> {CHOOSE s \in Subscribers : TRUE}]
    /\ born = [n \in Notifications |-> 0]
    /\ visible = [n \in Notifications |-> 0]
    /\ mark = [n \in Notifications |-> "none"]
    /\ watermark = [s \in Subscribers |-> [m \in Moves |-> 0]]
    /\ due = {} /\ hints = {} /\ jobs = {}
    /\ work = None
    /\ reading = None
    /\ log = {}
    /\ was = [m \in Moves |-> {}]
    /\ late = {} /\ moved = {}

----------------------------------------------------------------------------
(* What the subscriber is shown *)

IsRead(n) ==
    \/ mark[n] = "read"
    \/ mark[n] = "none" /\ visible[n] <= watermark[owner[n]]["read"]

IsSeen(n) == visible[n] <= watermark[owner[n]]["seen"]

Shown(n) == state[n] = "stored" /\ visible[n] <= clock

\* The histories, as a step leaves the rows.
Remember ==
    was' = [was EXCEPT !["read"] = @ \cup {n \in Notifications : Shown(n)' /\ IsRead(n)'},
                       !["seen"] = @ \cup {n \in Notifications : Shown(n)' /\ IsSeen(n)'}]

Now == clock + 1
Instant == clock < MaxTime /\ clock' = Now

HasRow(n, status) == \E r \in log : r[1] = n /\ r[2] = status

\* The rows an append adds: those that are not there.
Missing(ids, status, at) == {<<n, status, at>> : n \in {i \in ids : ~HasRow(i, status)}}

\* Mutant: the job does not lock the counters row.
JobTakesNoLock(s) == FALSE

\* The two transactions that hold a counters row across statements.
JobHolds(s) == work.s = s
ReaderHolds(s) == reading.s = s /\ reading.held
Locked(s) == JobHolds(s) \/ ReaderHolds(s)

----------------------------------------------------------------------------
(* Creating, delivering, announcing *)

\* Everything of the transaction before its counters row.
CreateBegin(n, s, ahead) ==
    /\ state[n] = "unborn"
    /\ Instant
    /\ state' = [state EXCEPT ![n] = "open"]
    /\ owner' = [owner EXCEPT ![n] = s]
    /\ born' = [born EXCEPT ![n] = Now]
    /\ visible' = [visible EXCEPT ![n] = Now + ahead]
    /\ UNCHANGED <<mark, watermark, jobVars, reading, log, ghostVars>>

\* The bump of the counters row, which a scheduled create does not do, and COMMIT.
CreateCommit(n) ==
    /\ state[n] = "open"
    /\ state' = [state EXCEPT ![n] = "stored"]
    /\ \/ /\ visible[n] = born[n]
          /\ ~Locked(owner[n])
          /\ hints' = hints \cup {[id |-> n, to |-> owner[n]]}
          /\ UNCHANGED due
       \/ /\ visible[n] > born[n]
          /\ due' = due \cup {n}
          /\ UNCHANGED hints
    /\ log' = log \cup Missing({n}, "created", born[n])
    /\ late' = IF \E m \in Moves : visible[n] <= watermark[owner[n]][m]
               THEN late \cup {n} ELSE late
    /\ UNCHANGED <<clock, owner, born, visible, mark, watermark, jobs, work, reading, moved>>
    /\ Remember

CreateAbort(n) ==
    /\ state[n] = "open"
    /\ state' = [state EXCEPT ![n] = "unborn"]
    /\ UNCHANGED <<clock, owner, born, visible, mark, watermark, jobVars, reading, log, ghostVars>>

Deliver(n) ==
    /\ n \in due
    /\ visible[n] <= clock
    /\ ~Locked(owner[n])
    /\ due' = due \ {n}
    /\ hints' = hints \cup {[id |-> n, to |-> owner[n]]}
    /\ UNCHANGED <<clock, rowVars, mark, watermark, jobs, work, reading, log, ghostVars>>

\* append_delivered: only the announced subscribers' notifications get the row.
PublishHint(h) ==
    /\ h \in hints
    /\ Instant
    /\ hints' = hints \ {h}
    /\ log' = log \cup (IF owner[h.id] = h.to
                        THEN Missing({h.id}, "delivered_hint", Now) ELSE {})
    /\ UNCHANGED <<rowVars, mark, watermark, due, jobs, work, reading, late, moved>>
    /\ Remember

----------------------------------------------------------------------------
(* Marking *)

ReadBegin(n) ==
    /\ reading = None
    /\ state[n] = "stored"
    /\ Instant
    /\ reading' = [s |-> owner[n], id |-> n, at |-> Now, held |-> FALSE, rows |-> {}]
    /\ UNCHANGED <<rowVars, mark, watermark, jobVars, log, late, moved>>
    /\ Remember

\* A 404: not the subscriber's any more, or not visible when the request began.
ReadRefused ==
    owner[reading.id] # reading.s \/ visible[reading.id] > reading.at

\* With the counters row in hand: the row is checked and the append prepared.
ReadLock ==
    /\ reading # None
    /\ ~reading.held
    /\ ~Locked(reading.s)
    /\ reading' = IF ReadRefused \/ mark[reading.id] = "read" THEN None
                  ELSE [reading EXCEPT !.held = TRUE,
                                       !.rows = Missing({reading.id}, "read", reading.at)]
    /\ UNCHANGED <<clock, rowVars, mark, watermark, jobVars, log, ghostVars>>

ReadCommit ==
    /\ reading # None
    /\ reading.held
    /\ mark' = [mark EXCEPT ![reading.id] = "read"]
    /\ log' = log \cup reading.rows
    /\ reading' = None
    /\ UNCHANGED <<clock, rowVars, watermark, jobVars, late, moved>>
    /\ Remember

ReadAbort ==
    /\ reading # None
    /\ reading' = None
    /\ UNCHANGED <<clock, rowVars, mark, watermark, jobVars, log, ghostVars>>

Unread(n) ==
    /\ Shown(n)
    /\ ~Locked(owner[n])
    /\ IsRead(n)
    /\ mark' = [mark EXCEPT ![n] = IF visible[n] <= watermark[owner[n]]["read"]
                                   THEN "unread" ELSE "none"]
    /\ UNCHANGED <<clock, rowVars, watermark, jobVars, reading, log, ghostVars>>

\* The job a watermark move leaves; its lower bound is its first cursor.
Window(s, m) ==
    [s |-> s, status |-> m, from |-> watermark[s][m], to |-> Now,
     after |-> <<watermark[s][m], 0>>]

\* mark_all_read and mark_all_seen, at the instant the row lock is held.
MoveWatermark(s, m) ==
    /\ ~Locked(s)
    /\ Instant
    /\ watermark' = [watermark EXCEPT ![s][m] = Now]
    /\ jobs' = jobs \cup {Window(s, m)}
    /\ mark' = [n \in Notifications |->
                  IF m = "read" /\ state[n] = "stored" /\ owner[n] = s
                     /\ mark[n] = "unread" /\ visible[n] <= Now
                  THEN "none" ELSE mark[n]]
    /\ UNCHANGED <<rowVars, due, hints, work, reading, log, late, moved>>
    /\ Remember

MoveLocks(n, t) == ~Locked(owner[n]) /\ ~Locked(t)

\* Each notification keeps its read state, as an override where the target's
\* watermark would change it; rows of a pending deliver job stay.
Move(n, t) ==
    /\ Shown(n)
    /\ n \notin due
    /\ t # owner[n]
    /\ MoveLocks(n, t)
    /\ owner' = [owner EXCEPT ![n] = t]
    /\ mark' = [mark EXCEPT ![n] =
                  CASE IsRead(n) -> "read"
                    [] ~IsRead(n) /\ visible[n] <= watermark[t]["read"] -> "unread"
                    [] OTHER -> "none"]
    /\ moved' = moved \cup {n}
    /\ UNCHANGED <<clock, state, born, visible, watermark, jobVars, reading, log, late>>
    /\ Remember

----------------------------------------------------------------------------
(* The timeline job *)

\* Mutant: the window has no upper end.
AboveFrom(n, j) ==
    /\ state[n] = "stored" /\ owner[n] = j.s
    /\ visible[n] > j.from

InWindow(n, j) ==
    /\ state[n] = "stored" /\ owner[n] = j.s
    /\ visible[n] > j.from /\ visible[n] <= j.to

Beyond(n, after) ==
    \/ visible[n] > after[1]
    \/ visible[n] = after[1] /\ n > after[2]

\* The next chunk in the order (visible_at, id).
Scanned(j) ==
    LET ahead == {n \in Notifications : InWindow(n, j) /\ Beyond(n, j.after)}
    IN  {n \in ahead : Cardinality({i \in ahead : Beyond(n, <<visible[i], i>>)}) < Chunk}

\* Mutant: the cursor goes to the end of the window.
CursorAtEnd(j, rows) == <<j.to, N>>

Cursor(j, rows) ==
    LET last == CHOOSE n \in rows : \A i \in rows : i = n \/ Beyond(n, <<visible[i], i>>)
    IN  <<visible[last], last>>

JobScan(j) ==
    /\ work = None
    /\ j \in jobs
    /\ ~ReaderHolds(j.s)
    /\ work' = [s |-> j.s, job |-> j, rows |-> Scanned(j)]
    /\ UNCHANGED <<clock, rowVars, mark, watermark, due, hints, jobs, reading, log, ghostVars>>

\* The append, the cursor and the commit; the guard reads what is committed now.
JobCommit ==
    /\ work # None
    /\ LET j == work.job
           rest == jobs \ {j}
       IN  /\ log' = log \cup Missing(work.rows, j.status, j.to)
           /\ jobs' = IF Cardinality(work.rows) < Chunk THEN rest
                      ELSE rest \cup {[j EXCEPT !.after = Cursor(j, work.rows)]}
    /\ work' = None
    /\ UNCHANGED <<clock, rowVars, mark, watermark, due, hints, reading, ghostVars>>

\* The worker dies or its transaction fails: all of it is rolled back.
JobAbort ==
    /\ work # None
    /\ work' = None
    /\ UNCHANGED <<clock, rowVars, mark, watermark, due, hints, jobs, reading, log, ghostVars>>

Next ==
    \/ \E n \in Notifications :
         \/ \E s \in Subscribers : CreateBegin(n, s, 0) \/ CreateBegin(n, s, Delay)
         \/ CreateCommit(n) \/ CreateAbort(n) \/ Deliver(n)
         \/ ReadBegin(n) \/ Unread(n)
         \/ \E t \in Subscribers : Move(n, t)
    \/ \E h \in hints : PublishHint(h)
    \/ ReadLock \/ ReadCommit \/ ReadAbort
    \/ \E s \in Subscribers, m \in Moves : MoveWatermark(s, m)
    \/ \E j \in jobs : JobScan(j)
    \/ JobCommit \/ JobAbort

Spec == Init /\ [][Next]_vars

----------------------------------------------------------------------------

TypeOK ==
    /\ clock \in Times
    /\ state \in [Notifications -> {"unborn", "open", "stored"}]
    /\ owner \in [Notifications -> Subscribers]
    /\ born \in [Notifications -> Times]
    /\ visible \in [Notifications -> 0 .. MaxTime + Delay]
    /\ mark \in [Notifications -> {"none", "read", "unread"}]
    /\ watermark \in [Subscribers -> [Moves -> Times]]
    /\ due \subseteq Notifications
    /\ hints \subseteq [id : Notifications, to : Subscribers]
    /\ \A j \in jobs : /\ j.s \in Subscribers /\ j.status \in Moves
                       /\ 0 <= j.from /\ j.from < j.to /\ j.to <= clock
                       /\ j.after[1] \in j.from .. j.to /\ j.after[2] \in 0 .. N
    /\ work = None \/ (work.job \in jobs /\ work.rows \subseteq Notifications)
    /\ reading = None \/ reading.id \in Notifications
    /\ log \subseteq Notifications \X Statuses \X Times

\* "Two writers can never observe the same status as missing": whatever reads,
\* watermark moves, jobs and moves do at once, a notification has at most one row
\* of a status (timeline.rs, append, append_delivered and append_window_chunk).
OneRowPerStatus ==
    \A r1, r2 \in log : (r1[1] = r2[1] /\ r1[2] = r2[2]) => r1 = r2

Resting == jobs = {} /\ hints = {} /\ due = {} /\ reading = None

Untouched(n) == n \notin late /\ n \notin moved

\* When the jobs are done, what a notification went through is in its timeline:
\* the hint that announced it, and that it was seen or read at some time, even if
\* it was marked unread before the job came to it.  Not so for one that committed
\* after a watermark had passed its visible_at, or that moved (worker.rs,
\* process_timeline and process_hint; inbox.rs, mark_all_read).
NothingMissing ==
    Resting => \A n \in Notifications : (state[n] = "stored" /\ Untouched(n)) =>
        /\ HasRow(n, "created") /\ HasRow(n, "delivered_hint")
        /\ \A m \in Moves : n \in was[m] => HasRow(n, m)

\* A timeline tells nothing that did not happen: no seen or read row of a
\* notification that never was so, nothing before the creation, no announcement
\* before a scheduled notification is visible.  Not so for one that moved
\* (timeline.rs, append_window_chunk and append_delivered).
NothingInvented ==
    \A r \in log : r[1] \notin moved =>
        /\ r[3] >= born[r[1]]
        /\ r[2] \in Moves => r[1] \in was[r[2]]
        /\ r[2] = "delivered_hint" => r[3] >= visible[r[1]]
=============================================================================
