--------------------------- MODULE TimelineProofs ---------------------------
(***************************************************************************)
(* For every number of subscribers, notifications and chunks: a            *)
(* notification never gets a second row of a status, no row tells what did *)
(* not happen, and no row is missing when the jobs are done.  The argument *)
(* is the counters row: what a job has scanned and what a request has      *)
(* prepared stays with its subscriber until it is committed, and a row     *)
(* that commits into a window in between is below the watermark already.   *)
(***************************************************************************)
EXTENDS Timeline, FiniteSetTheorems, TLAPS

\* A prepared row is of a notification the request still holds, and is missing.
ReaderInv ==
    reading # None =>
        /\ reading = [s |-> reading.s, id |-> reading.id, at |-> reading.at,
                      held |-> reading.held, rows |-> reading.rows]
        /\ state[reading.id] = "stored"
        /\ reading.held =>
             /\ owner[reading.id] = reading.s
             /\ reading.rows \subseteq {<<reading.id, "read", reading.at>>}
             /\ reading.rows # {} => ~HasRow(reading.id, "read")

\* The rows of a scan stay with the subscriber whose counters row it holds.
JobInv ==
    work # None => \A n \in work.rows : state[n] = "stored" /\ owner[n] = work.s

OneHolderInv ==
    (work # None /\ reading # None /\ reading.held) => work.s # reading.s

Inv == OneRowPerStatus /\ ReaderInv /\ JobInv /\ OneHolderInv

\* An append that adds only what is missing adds no second row.
LEMMA AppendKeepsOneRow ==
    ASSUME OneRowPerStatus, NEW ids, NEW status, NEW at,
           log' = log \cup Missing(ids, status, at)
    PROVE  OneRowPerStatus'
<1> SUFFICES ASSUME NEW r1 \in log', NEW r2 \in log', r1[1] = r2[1], r1[2] = r2[2]
             PROVE  r1 = r2
  BY DEF OneRowPerStatus
<1>1. \A r \in Missing(ids, status, at) :
        r = <<r[1], status, at>> /\ r[2] = status /\ ~HasRow(r[1], status)
  BY DEF Missing
<1>2. CASE r1 \in log /\ r2 \in log
  BY <1>2 DEF OneRowPerStatus
<1>3. CASE r1 \in Missing(ids, status, at) /\ r2 \in Missing(ids, status, at)
  BY <1>1, <1>3
<1>4. CASE r1 \in Missing(ids, status, at) /\ r2 \in log
  BY <1>1, <1>4 DEF HasRow
<1>5. CASE r1 \in log /\ r2 \in Missing(ids, status, at)
  BY <1>1, <1>5 DEF HasRow
<1> QED
  BY <1>2, <1>3, <1>4, <1>5

\* An append of another status, or for other notifications, leaves a row missing.
LEMMA AppendLeavesMissing ==
    ASSUME NEW ids, NEW status, NEW at, NEW n,
           log' = log \cup Missing(ids, status, at),
           status # "read" \/ n \notin ids,
           ~HasRow(n, "read")
    PROVE  ~HasRow(n, "read")'
BY DEF HasRow, Missing

\* A step that leaves the log, the owners and the two holders alone keeps it all;
\* rows may be added to the stored ones.
LEMMA HoldersKept ==
    ASSUME Inv, UNCHANGED <<owner, reading, work, log>>,
           \A n : state[n] = "stored" => state'[n] = "stored"
    PROVE  Inv'
BY DEF Inv, OneRowPerStatus, ReaderInv, JobInv, OneHolderInv, HasRow

LEMMA InvStep ==
    ASSUME Inv, [Next]_vars
    PROVE  Inv'
<1> USE DEF Inv
<1>1. ASSUME NEW n \in Notifications, NEW s \in Subscribers, NEW ahead,
             CreateBegin(n, s, ahead)
      PROVE  Inv'
  <2>1. UNCHANGED <<reading, work, log>>
    BY <1>1 DEF CreateBegin, jobVars
  <2>2. \A i : state[i] = "stored" =>
          state'[i] = "stored" /\ owner'[i] = owner[i]
    BY <1>1 DEF CreateBegin
  <2> QED
    BY <2>1, <2>2 DEF OneRowPerStatus, ReaderInv, JobInv, OneHolderInv, HasRow
<1>2. ASSUME NEW n \in Notifications, CreateCommit(n)
      PROVE  Inv'
  <2>1. UNCHANGED <<owner, reading, work>>
    BY <1>2 DEF CreateCommit
  <2>2. \A i : state[i] = "stored" => state'[i] = "stored"
    BY <1>2 DEF CreateCommit
  <2>3. log' = log \cup Missing({n}, "created", born[n])
    BY <1>2 DEF CreateCommit
  <2>4. OneRowPerStatus'
    BY <2>3, AppendKeepsOneRow
  <2>5. \A i : ~HasRow(i, "read") => ~HasRow(i, "read")'
    BY <2>3, AppendLeavesMissing
  <2> QED
    BY <2>1, <2>2, <2>4, <2>5 DEF ReaderInv, JobInv, OneHolderInv
<1>3. ASSUME NEW n \in Notifications, CreateAbort(n)
      PROVE  Inv'
  BY <1>3, HoldersKept DEF CreateAbort, jobVars
<1>4. ASSUME NEW n \in Notifications, Deliver(n)
      PROVE  Inv'
  BY <1>4, HoldersKept DEF Deliver, rowVars
<1>5. ASSUME NEW h \in hints, PublishHint(h)
      PROVE  Inv'
  <2>1. UNCHANGED <<state, owner, reading, work>>
    BY <1>5 DEF PublishHint, rowVars
  <2>2. CASE owner[h.id] = h.to
    <3>1. log' = log \cup Missing({h.id}, "delivered_hint", Now)
      BY <1>5, <2>2 DEF PublishHint
    <3>2. OneRowPerStatus'
      BY <3>1, AppendKeepsOneRow
    <3>3. \A i : ~HasRow(i, "read") => ~HasRow(i, "read")'
      BY <3>1, AppendLeavesMissing
    <3> QED
      BY <2>1, <3>2, <3>3 DEF ReaderInv, JobInv, OneHolderInv
  <2>3. CASE owner[h.id] # h.to
    <3>1. log' = log
      BY <1>5, <2>3 DEF PublishHint
    <3> QED
      BY <2>1, <3>1, HoldersKept
  <2> QED
    BY <2>2, <2>3
<1>6. ASSUME NEW n \in Notifications, ReadBegin(n)
      PROVE  Inv'
  <2>1. UNCHANGED <<state, owner, work, log>> /\ state[n] = "stored"
    BY <1>6 DEF ReadBegin, rowVars, jobVars
  <2>2. reading' = [s |-> owner[n], id |-> n, at |-> Now, held |-> FALSE, rows |-> {}]
    BY <1>6 DEF ReadBegin
  <2> QED
    BY <2>1, <2>2 DEF OneRowPerStatus, ReaderInv, JobInv, OneHolderInv
<1>7. CASE ReadLock
  <2>1. UNCHANGED <<state, owner, work, log>>
    BY <1>7 DEF ReadLock, rowVars, jobVars
  <2>2. OneRowPerStatus' /\ JobInv'
    BY <2>1 DEF OneRowPerStatus, JobInv
  <2>3. CASE reading' = None
    BY <2>2, <2>3 DEF ReaderInv, OneHolderInv
  <2>4. CASE reading' # None
    <3>1. reading' = [reading EXCEPT !.held = TRUE,
                        !.rows = Missing({reading.id}, "read", reading.at)]
          /\ reading # None /\ owner[reading.id] = reading.s
          /\ work.s # reading.s
      BY <1>7, <2>4 DEF ReadLock, ReadRefused, Locked, JobHolds
    <3>2. reading' = [s |-> reading.s, id |-> reading.id, at |-> reading.at,
                      held |-> TRUE,
                      rows |-> Missing({reading.id}, "read", reading.at)]
      BY <3>1 DEF ReaderInv
    <3>3. /\ Missing({reading.id}, "read", reading.at)
               \subseteq {<<reading.id, "read", reading.at>>}
          /\ Missing({reading.id}, "read", reading.at) # {} => ~HasRow(reading.id, "read")
      BY DEF Missing
    <3>4. ReaderInv'
      BY <2>1, <3>1, <3>2, <3>3 DEF ReaderInv, HasRow
    <3>5. OneHolderInv'
      BY <2>1, <3>1, <3>2 DEF OneHolderInv
    <3> QED
      BY <2>2, <3>4, <3>5
  <2> QED
    BY <2>3, <2>4
<1>8. CASE ReadCommit
  <2>1. /\ UNCHANGED <<state, owner, work>> /\ reading' = None
        /\ reading # None /\ reading.held /\ log' = log \cup reading.rows
    BY <1>8 DEF ReadCommit, rowVars, jobVars
  <2>2. /\ reading.rows \subseteq {<<reading.id, "read", reading.at>>}
        /\ reading.rows # {} => ~HasRow(reading.id, "read")
    BY <2>1 DEF ReaderInv
  <2>3. OneRowPerStatus'
    BY <2>1, <2>2 DEF OneRowPerStatus, HasRow
  <2> QED
    BY <2>1, <2>3 DEF ReaderInv, JobInv, OneHolderInv
<1>9. CASE ReadAbort
  <2>1. UNCHANGED <<state, owner, work, log>> /\ reading' = None
    BY <1>9 DEF ReadAbort, rowVars, jobVars
  <2> QED
    BY <2>1 DEF OneRowPerStatus, ReaderInv, JobInv, OneHolderInv
<1>10. ASSUME NEW n \in Notifications, Unread(n)
       PROVE  Inv'
  BY <1>10, HoldersKept DEF Unread, rowVars, jobVars
<1>11. ASSUME NEW s \in Subscribers, NEW m \in Moves, MoveWatermark(s, m)
       PROVE  Inv'
  BY <1>11, HoldersKept DEF MoveWatermark, rowVars
<1>12. ASSUME NEW n \in Notifications, NEW t \in Subscribers, Move(n, t)
       PROVE  Inv'
  <2>1. UNCHANGED <<state, reading, work, log>>
    BY <1>12 DEF Move, jobVars
  <2>2. \A i : i # n => owner'[i] = owner[i]
    BY <1>12 DEF Move
  <2>3. work.s # owner[n] /\ ~(reading.s = owner[n] /\ reading.held)
    BY <1>12 DEF Move, MoveLocks, Locked, JobHolds, ReaderHolds
  <2>4. ReaderInv'
    BY <2>1, <2>2, <2>3 DEF ReaderInv, HasRow
  <2>5. JobInv'
    BY <2>1, <2>2, <2>3 DEF JobInv
  <2> QED
    BY <2>1, <2>4, <2>5 DEF OneRowPerStatus, OneHolderInv
<1>13. ASSUME NEW j \in jobs, JobScan(j)
       PROVE  Inv'
  <2>1. UNCHANGED <<state, owner, reading, log>>
        /\ work' = [s |-> j.s, job |-> j, rows |-> Scanned(j)]
        /\ ~(reading.s = j.s /\ reading.held)
    BY <1>13 DEF JobScan, rowVars, ReaderHolds
  <2>2. \A n \in Scanned(j) : state[n] = "stored" /\ owner[n] = j.s
    BY DEF Scanned, InWindow
  <2>3. JobInv' /\ OneHolderInv'
    BY <2>1, <2>2 DEF JobInv, OneHolderInv
  <2> QED
    BY <2>1, <2>3 DEF OneRowPerStatus, ReaderInv, HasRow
<1>14. CASE JobCommit
  <2>1. /\ UNCHANGED <<state, owner, reading>> /\ work' = None /\ work # None
        /\ log' = log \cup Missing(work.rows, work.job.status, work.job.to)
    BY <1>14 DEF JobCommit, rowVars
  <2>2. OneRowPerStatus'
    BY <2>1, AppendKeepsOneRow
  <2>3. ASSUME reading # None, reading.held
        PROVE  ~HasRow(reading.id, "read") => ~HasRow(reading.id, "read")'
    <3>1. owner[reading.id] = reading.s /\ work.s # reading.s
      BY <2>1, <2>3 DEF ReaderInv, OneHolderInv
    <3>2. reading.id \notin work.rows
      BY <2>1, <3>1 DEF JobInv
    <3> QED
      BY <2>1, <3>2, AppendLeavesMissing
  <2>4. ReaderInv'
    BY <2>1, <2>3 DEF ReaderInv
  <2> QED
    BY <2>1, <2>2, <2>4 DEF JobInv, OneHolderInv
<1>15. CASE JobAbort
  <2>1. UNCHANGED <<state, owner, reading, log>> /\ work' = None
    BY <1>15 DEF JobAbort, rowVars
  <2> QED
    BY <2>1 DEF OneRowPerStatus, ReaderInv, JobInv, OneHolderInv, HasRow
<1>16. CASE UNCHANGED vars
  BY <1>16, HoldersKept DEF vars, rowVars, jobVars
<1> QED
  BY <1>1, <1>2, <1>3, <1>4, <1>5, <1>6, <1>7, <1>8, <1>9, <1>10, <1>11, <1>12,
     <1>13, <1>14, <1>15, <1>16 DEF Next

\* A notification has at most one row of a status, whatever reads, watermark
\* moves, jobs, moves between subscribers and crashes do (timeline.rs, append,
\* append_delivered and append_window_chunk).
THEOREM OneRow == Spec => []OneRowPerStatus
<1>1. Init => Inv
  BY DEF Init, Inv, OneRowPerStatus, ReaderInv, JobInv, OneHolderInv
<1>2. Inv /\ [Next]_vars => Inv'
  BY InvStep
<1>3. Inv => OneRowPerStatus
  BY DEF Inv
<1> QED
  BY <1>1, <1>2, <1>3, PTL DEF Spec


----------------------------------------------------------------------------
(* What the timeline says, and what it leaves out *)

Stored(n) == state[n] = "stored"

RowShape ==
    /\ clock \in Nat
    /\ state \in [Notifications -> {"unborn", "open", "stored"}]
    /\ DOMAIN owner = Notifications
    /\ born \in [Notifications -> Nat] /\ visible \in [Notifications -> Nat]
    /\ mark \in [Notifications -> {"none", "read", "unread"}]
    /\ watermark \in [Subscribers -> [Moves -> Nat]]
    /\ \A s \in Subscribers, m \in Moves : watermark[s][m] <= clock
    /\ was \in [Moves -> SUBSET Notifications]
    /\ \A n \in Notifications : state[n] # "unborn" =>
           owner[n] \in Subscribers /\ born[n] <= visible[n] /\ born[n] <= clock
    /\ \A n \in Notifications : ~Stored(n) => mark[n] = "none"

\* Only what is stored has a status, a row in the log or a job.
StoredInv ==
    /\ \A m \in Moves : \A n \in was[m] : Stored(n)
    /\ \A r \in log : r[1] \in Notifications /\ Stored(r[1])
    /\ \A n \in due : n \in Notifications /\ Stored(n)
    /\ \A h \in hints : h.id \in Notifications /\ Stored(h.id) /\ visible[h.id] <= clock

Job == [s : Subscribers, status : Moves, from : Nat, to : Nat, after : Nat \X Nat]

\* A job ends at an instant the watermark has reached.
JobShape ==
    /\ \A j \in jobs : j \in Job /\ j.to <= watermark[j.s][j.status]
    /\ work # None =>
           /\ work.job \in jobs /\ work.s = work.job.s
           /\ work.rows \subseteq Notifications
           /\ \A n \in work.rows : visible[n] <= work.job.to

\* A request that holds the row has found the notification visible.
ReaderShape ==
    reading # None =>
        /\ reading.id \in Notifications /\ reading.at \in Nat /\ reading.at <= clock
        /\ reading.held =>
               /\ visible[reading.id] <= reading.at
               /\ reading.rows = {} => HasRow(reading.id, "read")

Unmoved(n) == n \in Notifications /\ Stored(n) /\ n \notin moved

\* What a watermark has passed was seen or read once.
PassedInv ==
    \A n \in Notifications, m \in Moves :
        Unmoved(n) /\ visible[n] <= watermark[owner[n]][m] => n \in was[m]

AnnouncedInv ==
    \A n \in Notifications : Unmoved(n) =>
        /\ HasRow(n, "created")
        /\ \/ HasRow(n, "delivered_hint") \/ n \in due
           \/ [id |-> n, to |-> owner[n]] \in hints

MarkedInv == \A n \in Notifications : Unmoved(n) /\ mark[n] = "read" => HasRow(n, "read")

\* A job that is still to come to a notification.
Ahead(n, j) == InWindow(n, j) /\ Beyond(n, j.after)

Covered(n, m) ==
    \/ HasRow(n, m)
    \/ \E j \in jobs : j.status = m /\ Ahead(n, j)

CoveredInv ==
    \A n \in Notifications, m \in Moves :
        Unmoved(n) /\ n \notin late /\ n \in was[m] => Covered(n, m)

\* What a scan has left out comes after all it has taken.
Left(n, rows) ==
    /\ Cardinality(rows) >= Chunk
    /\ \A i \in rows : Beyond(n, <<visible[i], i>>)

ScanInv ==
    work # None =>
        \A n \in Notifications :
            Unmoved(n) /\ n \notin late /\ Ahead(n, work.job) =>
                n \in work.rows \/ Left(n, work.rows)

ShapeInv == RowShape /\ StoredInv /\ JobShape /\ ReaderShape /\ Inv

TimelineInv ==
    /\ ShapeInv /\ PassedInv /\ NothingInvented
    /\ AnnouncedInv /\ MarkedInv /\ ScanInv /\ CoveredInv

----------------------------------------------------------------------------

\* A subscriber was shown the notification in the status.
Is(n, m) == IF m = "read" THEN IsRead(n) ELSE IsSeen(n)

LEMMA RememberAdds ==
    ASSUME was \in [Moves -> SUBSET Notifications], Remember
    PROVE  /\ was' \in [Moves -> SUBSET Notifications]
           /\ \A m \in Moves, n \in Notifications :
                n \in was'[m] <=> n \in was[m] \/ (Shown(n)' /\ Is(n, m)')
<1> DEFINE R == {n \in Notifications : Shown(n)' /\ IsRead(n)'}
           S == {n \in Notifications : Shown(n)' /\ IsSeen(n)'}
<1>1. was' = [was EXCEPT !["read"] = was["read"] \cup R, !["seen"] = was["seen"] \cup S]
  BY Zenon DEF Remember
<1>2. R \subseteq Notifications /\ S \subseteq Notifications
  OBVIOUS
<1>3. \A n : n \in R <=> n \in Notifications /\ Shown(n)' /\ Is(n, "read")'
  BY DEF Is
<1>4. \A n : n \in S <=> n \in Notifications /\ Shown(n)' /\ Is(n, "seen")'
  BY DEF Is
<1> HIDE DEF R, S
<1>5. /\ was' \in [Moves -> SUBSET Notifications]
      /\ was'["read"] = was["read"] \cup R /\ was'["seen"] = was["seen"] \cup S
  BY <1>1, <1>2 DEF Moves
<1> QED
  BY <1>3, <1>4, <1>5 DEF Moves

LEMMA MarkMoves ==
    ASSUME RowShape, NEW s \in Subscribers, NEW m \in Moves, MoveWatermark(s, m)
    PROVE  /\ watermark' \in [Subscribers -> [Moves -> Nat]]
           /\ watermark'[s][m] = Now /\ Now \in Nat /\ clock < Now
           /\ \A t \in Subscribers, k \in Moves :
                /\ watermark'[t][k] = IF t = s /\ k = m THEN Now ELSE watermark[t][k]
                /\ watermark[t][k] <= watermark'[t][k] /\ watermark'[t][k] <= Now
<1>1. clock \in Nat /\ watermark \in [Subscribers -> [Moves -> Nat]]
      /\ \A t \in Subscribers, k \in Moves : watermark[t][k] <= clock
  BY DEF RowShape
<1>2. watermark' = [watermark EXCEPT ![s][m] = Now]
  BY DEF MoveWatermark
<1>3. Now \in Nat /\ clock < Now
  BY <1>1 DEF Now
<1>4. watermark' \in [Subscribers -> [Moves -> Nat]]
  BY <1>1, <1>2, <1>3
<1>5. \A t \in Subscribers, k \in Moves :
        watermark'[t][k] = IF t = s /\ k = m THEN Now ELSE watermark[t][k]
  BY <1>1, <1>2
<1>6. ASSUME NEW t \in Subscribers, NEW k \in Moves
      PROVE  watermark[t][k] <= watermark'[t][k] /\ watermark'[t][k] <= Now
  <2>1. watermark[t][k] \in Nat /\ watermark[t][k] <= clock
    BY <1>1
  <2>2. CASE t = s /\ k = m
    <3>1. watermark'[t][k] = Now
      BY <2>2, <1>5
    <3> QED
      BY <2>1, <1>1, <1>3, <3>1
  <2>3. CASE ~(t = s /\ k = m)
    <3>1. watermark'[t][k] = watermark[t][k]
      BY <2>3, <1>5
    <3> QED
      BY <2>1, <1>1, <1>3, <3>1
  <2> QED
    BY <2>2, <2>3
<1> QED
  BY <1>3, <1>4, <1>5, <1>6

LEMMA RowShapeStep ==
    ASSUME RowShape, Inv, ReaderShape, [Next]_vars
    PROVE  RowShape'
<1> USE TimelineAssumption
<1> USE DEF RowShape, Stored
<1>1. ASSUME NEW n \in Notifications, NEW s \in Subscribers, NEW ahead \in Nat,
             CreateBegin(n, s, ahead)
      PROVE  RowShape'
  <2> USE <1>1 DEF CreateBegin, Instant, Now, ghostVars
  <2>1. clock' \in Nat /\ born' \in [Notifications -> Nat] /\ visible' \in [Notifications -> Nat]
        /\ state' \in [Notifications -> {"unborn", "open", "stored"}]
        /\ DOMAIN owner' = Notifications
    OBVIOUS
  <2>2. \A i \in Notifications : state'[i] # "unborn" =>
           owner'[i] \in Subscribers /\ born'[i] <= visible'[i] /\ born'[i] <= clock'
    OBVIOUS
  <2>3. \A i \in Notifications : state'[i] # "stored" => mark'[i] = "none"
    OBVIOUS
  <2>4. \A t \in Subscribers, k \in Moves : watermark'[t][k] <= clock'
    OBVIOUS
  <2> QED
    BY <2>1, <2>2, <2>3, <2>4
<1>2. ASSUME NEW n \in Notifications, CreateCommit(n)
      PROVE  RowShape'
  <2>1. was' \in [Moves -> SUBSET Notifications]
    BY <1>2, RememberAdds DEF CreateCommit
  <2> QED
    BY <1>2, <2>1 DEF CreateCommit
<1>3. ASSUME NEW n \in Notifications, CreateAbort(n)
      PROVE  RowShape'
  BY <1>3 DEF CreateAbort, ghostVars
<1>4. ASSUME NEW n \in Notifications, Unread(n)
      PROVE  RowShape'
  BY <1>4 DEF Unread, Shown, ghostVars, rowVars
<1>5. ASSUME NEW h \in hints, PublishHint(h)
      PROVE  RowShape'
  <2>1. was' \in [Moves -> SUBSET Notifications]
    BY <1>5, RememberAdds DEF PublishHint
  <2> QED
    BY <1>5, <2>1 DEF PublishHint, rowVars, Instant, Now
<1>6. ASSUME NEW n \in Notifications, ReadBegin(n)
      PROVE  RowShape'
  <2>1. was' \in [Moves -> SUBSET Notifications]
    BY <1>6, RememberAdds DEF ReadBegin
  <2> QED
    BY <1>6, <2>1 DEF ReadBegin, rowVars, Instant, Now
<1>7. CASE ReadCommit
  <2>1. was' \in [Moves -> SUBSET Notifications]
    BY <1>7, RememberAdds DEF ReadCommit
  <2>2. reading.id \in Notifications /\ state[reading.id] = "stored"
    BY <1>7 DEF ReadCommit, ReaderShape, Inv, ReaderInv
  <2> QED
    BY <1>7, <2>1, <2>2 DEF ReadCommit, rowVars
<1>8. ASSUME NEW s \in Subscribers, NEW m \in Moves, MoveWatermark(s, m)
      PROVE  RowShape'
  <2>1. was' \in [Moves -> SUBSET Notifications]
    BY <1>8, RememberAdds DEF MoveWatermark
  <2>a. /\ watermark' \in [Subscribers -> [Moves -> Nat]]
        /\ \A t \in Subscribers, k \in Moves : watermark'[t][k] <= Now
    BY <1>8, MarkMoves
  <2>b. clock' = Now
    BY <1>8 DEF MoveWatermark, Instant
  <2>2. /\ watermark' \in [Subscribers -> [Moves -> Nat]]
        /\ \A t \in Subscribers, k \in Moves : watermark'[t][k] <= clock'
    BY <2>a, <2>b
  <2>3. UNCHANGED rowVars /\ clock' = clock + 1
    BY <1>8 DEF MoveWatermark, Instant, Now
  <2>4. /\ mark' \in [Notifications -> {"none", "read", "unread"}]
        /\ \A i \in Notifications : mark[i] = "none" => mark'[i] = "none"
    BY <1>8 DEF MoveWatermark
  <2>5. \A i \in Notifications : state'[i] # "stored" => mark'[i] = "none"
    BY <2>3, <2>4 DEF rowVars
  <2>6. \A i \in Notifications : state'[i] # "unborn" =>
           owner'[i] \in Subscribers /\ born'[i] <= visible'[i] /\ born'[i] <= clock'
    BY <2>3 DEF rowVars
  <2> QED
    BY <2>1, <2>2, <2>3, <2>4, <2>5, <2>6 DEF rowVars
<1>9. ASSUME NEW n \in Notifications, NEW t \in Subscribers, Move(n, t)
      PROVE  RowShape'
  <2>1. was' \in [Moves -> SUBSET Notifications]
    BY <1>9, RememberAdds DEF Move
  <2>2. UNCHANGED <<clock, state, born, visible, watermark>> /\ Stored(n)
    BY <1>9 DEF Move, Shown
  <2>3. /\ mark' \in [Notifications -> {"none", "read", "unread"}]
        /\ \A i \in Notifications : i # n => mark'[i] = mark[i]
    BY <1>9 DEF Move
  <2>4. DOMAIN owner' = Notifications
        /\ \A i \in Notifications : owner'[i] = IF i = n THEN t ELSE owner[i]
    BY <1>9 DEF Move
  <2> QED
    BY <2>1, <2>2, <2>3, <2>4
<1>10. CASE UNCHANGED <<clock, rowVars, mark, watermark, was>>
  BY <1>10 DEF rowVars
<1>11. \A n \in Notifications : Deliver(n) => UNCHANGED <<clock, rowVars, mark, watermark, was>>
  BY DEF Deliver, ghostVars
<1>12. ReadLock \/ ReadAbort \/ JobCommit \/ JobAbort
         => UNCHANGED <<clock, rowVars, mark, watermark, was>>
  BY DEF ReadLock, ReadAbort, JobCommit, JobAbort, ghostVars
<1>13. \A j \in jobs : JobScan(j) => UNCHANGED <<clock, rowVars, mark, watermark, was>>
  BY DEF JobScan, ghostVars
<1>14. UNCHANGED vars => UNCHANGED <<clock, rowVars, mark, watermark, was>>
  BY DEF vars, ghostVars
<1>15. 0 \in Nat /\ Delay \in Nat
  OBVIOUS
<1> QED
  BY <1>1, <1>2, <1>3, <1>4, <1>5, <1>6, <1>7, <1>8, <1>9, <1>10, <1>11, <1>12, <1>13,
     <1>14, <1>15 DEF Next

----------------------------------------------------------------------------
(* The order of a scan *)

\* A strict order of a finite set has a first element.
LEMMA FirstOf ==
    ASSUME NEW S, IsFiniteSet(S), S # {}, NEW R,
           \A x, y, z \in S : <<x, y>> \in R /\ <<y, z>> \in R => <<x, z>> \in R,
           \A x \in S : <<x, x>> \notin R
    PROVE  \E x \in S : \A y \in S : <<y, x>> \notin R
<1> DEFINE Below(x) == {y \in S : <<y, x>> \in R}
           T == {Below(x) : x \in S}
<1>1. T \subseteq FiniteSubsetsOf(S) /\ T # {}
  <2>1. FiniteSubsetsOf(S) = SUBSET S
    BY FS_FiniteSubsetsOfFinite, Zenon
  <2>2. \A x : Below(x) \in SUBSET S
    OBVIOUS
  <2> HIDE DEF Below
  <2>3. T \subseteq SUBSET S /\ T # {}
    BY <2>2
  <2> QED
    BY <2>1, <2>3
<1>2. IsWellFoundedOn(StrictSubsetOrdering(S), FiniteSubsetsOf(S))
  BY FS_StrictSubsetOrderingWellFounded
<1>3. PICK B \in T : \A C \in T : <<C, B>> \notin StrictSubsetOrdering(S)
  <2> HIDE DEF T
  <2> QED
    BY <1>1, <1>2, WFMin
<1>4. PICK x \in S : B = Below(x)
  OBVIOUS
<1>5. ASSUME NEW y \in S, <<y, x>> \in R
      PROVE  FALSE
  <2>1. Below(y) \subseteq Below(x) /\ y \in Below(x) /\ y \notin Below(y)
    BY <1>5
  <2>2. Below(y) \in T /\ Below(y) \in SUBSET S /\ Below(x) \in SUBSET S
    OBVIOUS
  <2> HIDE DEF Below, T
  <2>3. <<Below(y), Below(x)>> \in StrictSubsetOrdering(S)
    BY <2>1, <2>2 DEF StrictSubsetOrdering
  <2> QED
    BY <1>3, <1>4, <2>2, <2>3
<1> QED
  BY <1>5

\* The order (visible_at, id) of the rows.
After(n, i) == Beyond(n, <<visible[i], i>>)

LEMMA AfterIsOrder ==
    ASSUME visible \in [Notifications -> Nat]
    PROVE  /\ \A n, i, k \in Notifications : After(n, i) /\ After(i, k) => After(n, k)
           /\ \A n \in Notifications : ~After(n, n)
           /\ \A n, i \in Notifications : n = i \/ After(n, i) \/ After(i, n)
<1> Notifications \subseteq Nat
  BY TimelineAssumption DEF Notifications
<1>1. \A n, i \in Notifications : After(n, i) <=>
        \/ visible[n] > visible[i]
        \/ visible[n] = visible[i] /\ n > i
  BY DEF After, Beyond
<1>2. \A n \in Notifications : visible[n] \in Nat /\ n \in Nat
  OBVIOUS
<1> QED
  BY <1>1, <1>2

LEMMA NotificationsFinite == IsFiniteSet(Notifications)
BY FS_Interval, TimelineAssumption DEF Notifications

\* The cursor goes to the last row of the chunk.
LEMMA CursorAtLast ==
    ASSUME visible \in [Notifications -> Nat], NEW j,
           NEW rows \in SUBSET Notifications, rows # {}
    PROVE  \E n \in rows : /\ Cursor(j, rows) = <<visible[n], n>>
                           /\ \A i \in rows : i = n \/ After(n, i)
<1> DEFINE R == {p \in rows \X rows : After(p[1], p[2])}
<1>1. IsFiniteSet(rows)
  BY NotificationsFinite, FS_Subset
<1>2. \A x, y \in rows : <<x, y>> \in R <=> After(x, y)
  OBVIOUS
<1>3. /\ \A x, y, z \in rows : <<x, y>> \in R /\ <<y, z>> \in R => <<x, z>> \in R
      /\ \A x \in rows : <<x, x>> \notin R
  <2> HIDE DEF R
  <2> QED
    BY <1>2, AfterIsOrder
<1>4. PICK n \in rows : \A i \in rows : <<i, n>> \notin R
  <2> HIDE DEF R
  <2> QED
    BY <1>1, <1>3, FirstOf
<1>5. \A i \in rows : i = n \/ After(n, i)
  BY <1>2, <1>4, AfterIsOrder
<1> DEFINE last == CHOOSE k \in rows : \A i \in rows : i = k \/ Beyond(k, <<visible[i], i>>)
<1>6. last \in rows /\ \A i \in rows : i = last \/ After(last, i)
  BY <1>5 DEF After
<1>7. Cursor(j, rows) = <<visible[last], last>>
  BY DEF Cursor
<1> HIDE DEF last
<1> QED
  BY <1>6, <1>7

\* What a scan leaves out comes after all it has taken, and it has taken a chunk.
LEMMA ScanTakesFirst ==
    ASSUME visible \in [Notifications -> Nat], NEW j,
           NEW n \in Notifications, InWindow(n, j), Beyond(n, j.after), n \notin Scanned(j)
    PROVE  /\ Scanned(j) \subseteq Notifications
           /\ Cardinality(Scanned(j)) >= Chunk
           /\ \A i \in Scanned(j) : After(n, i)
<1> DEFINE ahead == {i \in Notifications : InWindow(i, j) /\ Beyond(i, j.after)}
           Prior(i) == {k \in ahead : After(i, k)}
           rows == {i \in ahead : Cardinality(Prior(i)) < Chunk}
           rest == ahead \ rows
<1>1. Scanned(j) = rows
  BY DEF Scanned, After
<1>2. ahead \subseteq Notifications /\ n \in ahead /\ IsFiniteSet(ahead)
  <2>1. ahead \in SUBSET Notifications /\ n \in ahead
    OBVIOUS
  <2> QED
    BY <2>1, NotificationsFinite, FS_Subset
<1>3. n \in rest
  BY <1>1, <1>2
<1>4. ASSUME NEW i \in ahead
      PROVE  /\ Prior(i) \in SUBSET ahead /\ IsFiniteSet(Prior(i))
             /\ Cardinality(Prior(i)) \in Nat
             /\ i \in rows <=> Cardinality(Prior(i)) < Chunk
  <2>1. Prior(i) \in SUBSET ahead
    OBVIOUS
  <2>2. IsFiniteSet(Prior(i))
    BY <1>2, <2>1, FS_Subset
  <2> HIDE DEF Prior, ahead
  <2> QED
    BY <2>1, <2>2, FS_CardinalityType
<1>5. \A i, k : k \in Prior(i) <=> k \in ahead /\ After(i, k)
  OBVIOUS
<1>6. rows \subseteq ahead /\ rest \subseteq ahead /\ \A i : i \in rest <=> i \in ahead /\ i \notin rows
  OBVIOUS
<1> HIDE DEF ahead, Prior, rows, rest
<1>7. Chunk \in Nat
  BY TimelineAssumption
<1>8. ASSUME NEW i \in rows
      PROVE  After(n, i)
  <2> SUFFICES ASSUME ~After(n, i)
               PROVE  FALSE
    OBVIOUS
  <2>1. After(i, n)
    BY <1>2, <1>3, <1>6, AfterIsOrder
  <2>2. Prior(n) \in SUBSET Prior(i)
    <3>1. ASSUME NEW k \in Prior(n)
          PROVE  k \in Prior(i)
      BY <1>2, <1>3, <1>5, <1>6, <2>1, AfterIsOrder
    <3> QED
      BY <3>1
  <2>3. Cardinality(Prior(n)) <= Cardinality(Prior(i))
    BY <1>4, <1>6, <2>2, FS_Subset
  <2> QED
    BY <1>2, <1>3, <1>4, <1>6, <1>7, <2>3
<1>9. Cardinality(rows) >= Chunk
  <2> DEFINE R == {p \in rest \X rest : After(p[2], p[1])}
  <2>1. IsFiniteSet(rest) /\ IsFiniteSet(rows)
    BY <1>2, <1>6, FS_Subset
  <2>2. \A x, y \in rest : <<x, y>> \in R <=> After(y, x)
    OBVIOUS
  <2>3. /\ \A x, y, z \in rest : <<x, y>> \in R /\ <<y, z>> \in R => <<x, z>> \in R
        /\ \A x \in rest : <<x, x>> \notin R
    <3> HIDE DEF R
    <3> QED
      BY <1>2, <1>6, <2>2, AfterIsOrder
  <2>4. PICK f \in rest : \A i \in rest : <<i, f>> \notin R
    <3> HIDE DEF R
    <3> QED
      BY <1>3, <2>1, <2>3, FirstOf
  <2>5. \A i \in rest : ~After(f, i)
    BY <2>2, <2>4
  <2>6. Prior(f) \in SUBSET rows
    BY <1>5, <1>6, <2>5
  <2>7. Cardinality(Prior(f)) <= Cardinality(rows)
    BY <2>1, <2>6, FS_Subset
  <2>8. Cardinality(rows) \in Nat
    BY <2>1, FS_CardinalityType
  <2> QED
    BY <1>4, <1>6, <1>7, <2>7, <2>8
<1> QED
  BY <1>1, <1>2, <1>6, <1>8, <1>9
----------------------------------------------------------------------------
(* What a step leaves *)

\* A stored row keeps its times, and its subscriber unless it moves.
LEMMA StoredStays ==
    ASSUME RowShape, [Next]_vars, NEW i \in Notifications, Stored(i)
    PROVE  /\ Stored(i)' /\ born'[i] = born[i] /\ visible'[i] = visible[i]
           /\ i \notin moved' => i \notin moved /\ owner'[i] = owner[i]
<1> USE DEF RowShape, Stored
<1>1. ASSUME NEW n \in Notifications, NEW s \in Subscribers, NEW ahead,
             CreateBegin(n, s, ahead)
      PROVE  UNCHANGED moved /\ i # n /\ state'[i] = state[i] /\ owner'[i] = owner[i]
             /\ born'[i] = born[i] /\ visible'[i] = visible[i]
  BY <1>1 DEF CreateBegin, ghostVars
<1>2. ASSUME NEW n \in Notifications, CreateCommit(n)
      PROVE  UNCHANGED <<owner, born, visible, moved>> /\ Stored(i)'
  BY <1>2 DEF CreateCommit
<1>3. ASSUME NEW n \in Notifications, CreateAbort(n)
      PROVE  UNCHANGED <<owner, born, visible, moved>> /\ Stored(i)'
  BY <1>3 DEF CreateAbort, ghostVars
<1>4. ASSUME NEW n \in Notifications, NEW t \in Subscribers, Move(n, t)
      PROVE  /\ UNCHANGED <<state, born, visible>>
             /\ i \notin moved' => i \notin moved /\ owner'[i] = owner[i]
  BY <1>4 DEF Move
<1>5. ASSUME NEW n \in Notifications, Deliver(n) \/ ReadBegin(n) \/ Unread(n)
      PROVE  UNCHANGED <<rowVars, moved>>
  BY <1>5 DEF Deliver, ReadBegin, Unread, ghostVars
<1>6. \A h \in hints : PublishHint(h) => UNCHANGED <<rowVars, moved>>
  BY DEF PublishHint
<1>7. ReadLock \/ ReadCommit \/ ReadAbort \/ JobCommit \/ JobAbort \/ UNCHANGED vars
        => UNCHANGED <<rowVars, moved>>
  BY DEF ReadLock, ReadCommit, ReadAbort, JobCommit, JobAbort, vars, ghostVars
<1>8. \A s \in Subscribers, m \in Moves : MoveWatermark(s, m) => UNCHANGED <<rowVars, moved>>
  BY DEF MoveWatermark
<1>9. \A j \in jobs : JobScan(j) => UNCHANGED <<rowVars, moved>>
  BY DEF JobScan, ghostVars
<1>10. UNCHANGED <<rowVars, moved>> =>
         UNCHANGED <<state, owner, born, visible, moved>>
  BY DEF rowVars
<1> HIDE DEF RowShape
<1> QED
  BY <1>1, <1>2, <1>3, <1>4, <1>5, <1>6, <1>7, <1>8, <1>9, <1>10 DEF Next

LEMMA HistoryStep ==
    ASSUME [Next]_vars
    PROVE  Remember \/ UNCHANGED was
<1>1. \A n \in Notifications : CreateCommit(n) \/ ReadBegin(n) => Remember
  BY DEF CreateCommit, ReadBegin
<1>2. \A n \in Notifications : CreateAbort(n) \/ Deliver(n) \/ Unread(n) => UNCHANGED was
  BY DEF CreateAbort, Deliver, Unread, ghostVars
<1>3. \A n \in Notifications, s \in Subscribers : \A ahead : CreateBegin(n, s, ahead) => UNCHANGED was
  BY DEF CreateBegin, ghostVars
<1>4. \A n \in Notifications, t \in Subscribers : Move(n, t) => Remember
  BY DEF Move
<1>5. \A h \in hints : PublishHint(h) => Remember
  BY DEF PublishHint
<1>6. ReadCommit => Remember
  BY DEF ReadCommit
<1>7. ReadLock \/ ReadAbort \/ JobCommit \/ JobAbort \/ UNCHANGED vars => UNCHANGED was
  BY DEF ReadLock, ReadAbort, JobCommit, JobAbort, vars, ghostVars
<1>8. \A s \in Subscribers, m \in Moves : MoveWatermark(s, m) => Remember
  BY DEF MoveWatermark
<1>9. \A j \in jobs : JobScan(j) => UNCHANGED was
  BY DEF JobScan, ghostVars
<1> QED
  BY <1>1, <1>2, <1>3, <1>4, <1>5, <1>6, <1>7, <1>8, <1>9 DEF Next

\* Who adds a row, and which.
Adds(r) ==
    \/ \E n \in Notifications : CreateCommit(n) /\ r = <<n, "created", born[n]>>
    \/ \E h \in hints : PublishHint(h) /\ r = <<h.id, "delivered_hint", Now>>
    \/ ReadCommit /\ r = <<reading.id, "read", reading.at>>
    \/ JobCommit /\ \E n \in work.rows : r = <<n, work.job.status, work.job.to>>

LEMMA LogStep ==
    ASSUME Inv, [Next]_vars
    PROVE  log \subseteq log' /\ \A r \in log' : r \in log \/ Adds(r)
<1>1. \A ids, status, at : \A r \in Missing(ids, status, at) :
        \E n \in ids : r = <<n, status, at>>
  BY DEF Missing
<1>2. ASSUME NEW n \in Notifications, CreateCommit(n)
      PROVE  log \subseteq log' /\ \A r \in log' : r \in log \/ r = <<n, "created", born[n]>>
  <2>1. log' = log \cup Missing({n}, "created", born[n])
    BY <1>2 DEF CreateCommit
  <2> QED
    BY <1>1, <2>1
<1>3. ASSUME NEW h \in hints, PublishHint(h)
      PROVE  log \subseteq log' /\ \A r \in log' : r \in log \/ r = <<h.id, "delivered_hint", Now>>
  <2>1. log' = log \cup (IF owner[h.id] = h.to
                         THEN Missing({h.id}, "delivered_hint", Now) ELSE {})
    BY <1>3 DEF PublishHint
  <2> QED
    BY <1>1, <2>1
<1>4. ASSUME ReadCommit
      PROVE  log \subseteq log' /\ \A r \in log' : r \in log \/ r = <<reading.id, "read", reading.at>>
  <2>1. log' = log \cup reading.rows
    BY <1>4 DEF ReadCommit
  <2>2. reading.rows \subseteq {<<reading.id, "read", reading.at>>}
    BY <1>4 DEF ReadCommit, Inv, ReaderInv
  <2> QED
    BY <2>1, <2>2
<1>5. ASSUME JobCommit
      PROVE  log \subseteq log' /\ \A r \in log' : r \in log
               \/ \E n \in work.rows : r = <<n, work.job.status, work.job.to>>
  <2>1. log' = log \cup Missing(work.rows, work.job.status, work.job.to)
    BY <1>5 DEF JobCommit
  <2> QED
    BY <1>1, <2>1
<1>6. ASSUME NEW n \in Notifications,
             CreateAbort(n) \/ Deliver(n) \/ ReadBegin(n) \/ Unread(n)
      PROVE  UNCHANGED log
  BY <1>6 DEF CreateAbort, Deliver, ReadBegin, Unread
<1>7. \A n \in Notifications, s \in Subscribers : \A ahead : CreateBegin(n, s, ahead) => UNCHANGED log
  BY DEF CreateBegin
<1>8. \A n \in Notifications, t \in Subscribers : Move(n, t) => UNCHANGED log
  BY DEF Move
<1>9. ReadLock \/ ReadAbort \/ JobAbort \/ UNCHANGED vars => UNCHANGED log
  BY DEF ReadLock, ReadAbort, JobAbort, vars
<1>10. \A s \in Subscribers, m \in Moves : MoveWatermark(s, m) => UNCHANGED log
  BY DEF MoveWatermark
<1>11. \A j \in jobs : JobScan(j) => UNCHANGED log
  BY DEF JobScan
<1>12. UNCHANGED log => log \subseteq log' /\ \A r \in log' : r \in log
  OBVIOUS
<1> QED
  BY <1>2, <1>3, <1>4, <1>5, <1>6, <1>7, <1>8, <1>9, <1>10, <1>11, <1>12, Zenon DEF Next, Adds

LEMMA MarksGrow ==
    ASSUME RowShape, [Next]_vars
    PROVE  \A s \in Subscribers, m \in Moves : watermark[s][m] <= watermark'[s][m]
<1>1. \A n \in Notifications :
        CreateCommit(n) \/ CreateAbort(n) \/ Deliver(n) \/ ReadBegin(n) \/ Unread(n)
          => UNCHANGED watermark
  BY DEF CreateCommit, CreateAbort, Deliver, ReadBegin, Unread
<1>2. \A n \in Notifications, s \in Subscribers : \A ahead : CreateBegin(n, s, ahead) => UNCHANGED watermark
  BY DEF CreateBegin
<1>3. \A n \in Notifications, t \in Subscribers : Move(n, t) => UNCHANGED watermark
  BY DEF Move
<1>4. \A h \in hints : PublishHint(h) => UNCHANGED watermark
  BY DEF PublishHint
<1>5. ReadLock \/ ReadCommit \/ ReadAbort \/ JobCommit \/ JobAbort \/ UNCHANGED vars
        => UNCHANGED watermark
  BY DEF ReadLock, ReadCommit, ReadAbort, JobCommit, JobAbort, vars
<1>6. \A j \in jobs : JobScan(j) => UNCHANGED watermark
  BY DEF JobScan
<1>7. UNCHANGED watermark => \A s \in Subscribers, m \in Moves : watermark[s][m] <= watermark'[s][m]
  BY DEF RowShape
<1>8. ASSUME NEW s \in Subscribers, NEW m \in Moves, MoveWatermark(s, m)
      PROVE  \A t \in Subscribers, k \in Moves : watermark[t][k] <= watermark'[t][k]
  BY <1>8, MarkMoves
<1> QED
  BY <1>1, <1>2, <1>3, <1>4, <1>5, <1>6, <1>7, <1>8 DEF Next

\* Who adds a hint or takes one, and the clock.
LEMMA QueueStep ==
    ASSUME [Next]_vars
    PROVE  /\ clock' = clock \/ clock' = Now
           /\ \A n \in due' : n \in due \/ (n \in Notifications /\ CreateCommit(n))
           /\ \A n \in due : n \in due' \/ [id |-> n, to |-> owner[n]] \in hints'
           /\ \A h \in hints : h \in hints' \/ PublishHint(h)
           /\ \A h \in hints' : h \in hints \/ \E n \in Notifications :
                /\ h = [id |-> n, to |-> owner[n]]
                /\ \/ CreateCommit(n) /\ visible[n] = born[n]
                   \/ Deliver(n)
<1> DEFINE Goal ==
           /\ clock' = clock \/ clock' = Now
           /\ \A n \in due' : n \in due \/ (n \in Notifications /\ CreateCommit(n))
           /\ \A n \in due : n \in due' \/ [id |-> n, to |-> owner[n]] \in hints'
           /\ \A h \in hints : h \in hints' \/ PublishHint(h)
           /\ \A h \in hints' : h \in hints \/ \E n \in Notifications :
                /\ h = [id |-> n, to |-> owner[n]]
                /\ \/ CreateCommit(n) /\ visible[n] = born[n]
                   \/ Deliver(n)
<1>1. ASSUME NEW n \in Notifications, CreateCommit(n)
      PROVE  Goal
  <2>1. UNCHANGED clock
    BY <1>1 DEF CreateCommit
  <2>2. CASE visible[n] = born[n] /\ hints' = hints \cup {[id |-> n, to |-> owner[n]]} /\ due' = due
    BY <1>1, <2>1, <2>2
  <2>3. CASE due' = due \cup {n} /\ hints' = hints
    BY <1>1, <2>1, <2>3
  <2> QED
    BY <1>1, <2>2, <2>3 DEF CreateCommit
<1>2. ASSUME NEW n \in Notifications, Deliver(n)
      PROVE  Goal
  <2>1. UNCHANGED clock /\ due' = due \ {n} /\ hints' = hints \cup {[id |-> n, to |-> owner[n]]}
    BY <1>2 DEF Deliver
  <2> QED
    BY <1>2, <2>1
<1>3. ASSUME NEW h \in hints, PublishHint(h)
      PROVE  Goal
  <2>1. clock' = Now /\ due' = due /\ hints' = hints \ {h}
    BY <1>3 DEF PublishHint, Instant
  <2> QED
    BY <1>3, <2>1
<1>4. (clock' = clock \/ clock' = Now) /\ UNCHANGED <<due, hints>> => Goal
  OBVIOUS
<1> HIDE DEF Goal
<1>5. ASSUME NEW n \in Notifications, CreateAbort(n) \/ ReadBegin(n) \/ Unread(n)
      PROVE  Goal
  BY <1>4, <1>5 DEF CreateAbort, ReadBegin, Unread, Instant, jobVars
<1>6. ASSUME NEW n \in Notifications, NEW s \in Subscribers, NEW ahead, CreateBegin(n, s, ahead)
      PROVE  Goal
  BY <1>4, <1>6 DEF CreateBegin, Instant, jobVars
<1>7. ASSUME NEW n \in Notifications, NEW t \in Subscribers, Move(n, t)
      PROVE  Goal
  BY <1>4, <1>7 DEF Move, jobVars
<1>8. ReadLock \/ ReadCommit \/ ReadAbort \/ JobCommit \/ JobAbort \/ UNCHANGED vars => Goal
  BY <1>4 DEF ReadLock, ReadCommit, ReadAbort, JobCommit, JobAbort, vars, jobVars
<1>9. ASSUME NEW s \in Subscribers, NEW m \in Moves, MoveWatermark(s, m)
      PROVE  Goal
  BY <1>4, <1>9 DEF MoveWatermark, Instant
<1>10. ASSUME NEW j \in jobs, JobScan(j)
       PROVE  Goal
  BY <1>4, <1>10 DEF JobScan
<1>11. Goal
  BY <1>1, <1>2, <1>3, <1>5, <1>6, <1>7, <1>8, <1>9, <1>10 DEF Next
<1> QED
  BY <1>11 DEF Goal

\* Who adds a job, takes one or scans.
LEMMA JobsStep ==
    ASSUME [Next]_vars
    PROVE  /\ \A j \in jobs' :
                \/ j \in jobs
                \/ \E s \in Subscribers, m \in Moves : MoveWatermark(s, m) /\ j = Window(s, m)
                \/ /\ JobCommit /\ ~(Cardinality(work.rows) < Chunk)
                   /\ j = [work.job EXCEPT !.after = Cursor(work.job, work.rows)]
           /\ \A j \in jobs : j \in jobs' \/ (JobCommit /\ j = work.job)
           /\ \/ work' = None
              \/ UNCHANGED work /\ jobs \subseteq jobs'
              \/ \E j \in jobs : JobScan(j) /\ UNCHANGED jobs
<1> DEFINE Goal ==
           /\ \A j \in jobs' :
                \/ j \in jobs
                \/ \E s \in Subscribers, m \in Moves : MoveWatermark(s, m) /\ j = Window(s, m)
                \/ /\ JobCommit /\ ~(Cardinality(work.rows) < Chunk)
                   /\ j = [work.job EXCEPT !.after = Cursor(work.job, work.rows)]
           /\ \A j \in jobs : j \in jobs' \/ (JobCommit /\ j = work.job)
           /\ \/ work' = None
              \/ UNCHANGED work /\ jobs \subseteq jobs'
              \/ \E j \in jobs : JobScan(j) /\ UNCHANGED jobs
<1>1. ASSUME NEW s \in Subscribers, NEW m \in Moves, MoveWatermark(s, m)
      PROVE  Goal
  <2>1. jobs' = jobs \cup {Window(s, m)} /\ UNCHANGED work
    BY <1>1 DEF MoveWatermark
  <2> QED
    BY <1>1, <2>1
<1>2. ASSUME JobCommit
      PROVE  Goal
  <2> DEFINE j == [work.job EXCEPT !.after = Cursor(work.job, work.rows)]
  <2>1. work' = None
        /\ jobs' = IF Cardinality(work.rows) < Chunk THEN jobs \ {work.job}
                   ELSE (jobs \ {work.job}) \cup {j}
    BY <1>2, Zenon DEF JobCommit
  <2> HIDE DEF j
  <2>2. \A k \in jobs : k \in jobs' \/ k = work.job
    BY <2>1
  <2>3. \A k \in jobs' : k \in jobs \/ (~(Cardinality(work.rows) < Chunk) /\ k = j)
    BY <2>1
  <2> QED
    BY <1>2, <2>1, <2>2, <2>3 DEF j
<1>3. ASSUME NEW j \in jobs, JobScan(j)
      PROVE  Goal
  BY <1>3 DEF JobScan
<1>4. UNCHANGED <<jobs, work>> \/ (UNCHANGED jobs /\ work' = None) => Goal
  OBVIOUS
<1> HIDE DEF Goal
<1>5. ASSUME NEW n \in Notifications,
             CreateAbort(n) \/ CreateCommit(n) \/ Deliver(n) \/ ReadBegin(n) \/ Unread(n)
      PROVE  Goal
  BY <1>4, <1>5 DEF CreateAbort, CreateCommit, Deliver, ReadBegin, Unread, jobVars
<1>6. ASSUME NEW n \in Notifications, NEW s \in Subscribers, NEW ahead, CreateBegin(n, s, ahead)
      PROVE  Goal
  BY <1>4, <1>6 DEF CreateBegin, jobVars
<1>7. ASSUME NEW n \in Notifications, NEW t \in Subscribers, Move(n, t)
      PROVE  Goal
  BY <1>4, <1>7 DEF Move, jobVars
<1>8. ReadLock \/ ReadCommit \/ ReadAbort \/ JobAbort \/ UNCHANGED vars => Goal
  BY <1>4 DEF ReadLock, ReadCommit, ReadAbort, JobAbort, vars, jobVars
<1>9. ASSUME NEW h \in hints, PublishHint(h)
      PROVE  Goal
  BY <1>4, <1>9 DEF PublishHint
<1>10. Goal
  BY <1>1, <1>2, <1>3, <1>5, <1>6, <1>7, <1>8, <1>9 DEF Next
<1> QED
  BY <1>10 DEF Goal

LEMMA ReaderStep ==
    ASSUME [Next]_vars
    PROVE  \/ UNCHANGED reading \/ reading' = None
           \/ ReadLock \/ \E n \in Notifications : ReadBegin(n)
<1>1. \A n \in Notifications :
        CreateCommit(n) \/ CreateAbort(n) \/ Deliver(n) \/ Unread(n) => UNCHANGED reading
  BY DEF CreateCommit, CreateAbort, Deliver, Unread
<1>2. \A n \in Notifications, s \in Subscribers : \A ahead : CreateBegin(n, s, ahead) => UNCHANGED reading
  BY DEF CreateBegin
<1>3. \A n \in Notifications, t \in Subscribers : Move(n, t) => UNCHANGED reading
  BY DEF Move
<1>4. \A h \in hints : PublishHint(h) => UNCHANGED reading
  BY DEF PublishHint
<1>5. ReadCommit \/ ReadAbort => reading' = None
  BY DEF ReadCommit, ReadAbort
<1>6. JobCommit \/ JobAbort \/ UNCHANGED vars => UNCHANGED reading
  BY DEF JobCommit, JobAbort, vars
<1>7. \A s \in Subscribers, m \in Moves : MoveWatermark(s, m) => UNCHANGED reading
  BY DEF MoveWatermark
<1>8. \A j \in jobs : JobScan(j) => UNCHANGED reading
  BY DEF JobScan
<1> QED
  BY <1>1, <1>2, <1>3, <1>4, <1>5, <1>6, <1>7, <1>8 DEF Next
----------------------------------------------------------------------------
(* The shape of the state is kept *)

LEMMA NowAfterClock == RowShape => clock \in Nat /\ Now \in Nat /\ clock < Now
BY DEF RowShape, Now

LEMMA StoredInvStep ==
    ASSUME ShapeInv, [Next]_vars
    PROVE  StoredInv'
<1> USE DEF ShapeInv
<1>1. ASSUME NEW m \in Moves, NEW n \in was'[m]
      PROVE  Stored(n)'
  <2>1. n \in Notifications
    <3>1. was' \in [Moves -> SUBSET Notifications]
      BY RowShapeStep DEF RowShape
    <3> QED
      BY <3>1
  <2>2. CASE n \in was[m]
    <3>1. Stored(n)
      BY <2>2 DEF StoredInv
    <3> QED
      BY <2>1, <3>1, StoredStays
  <2>3. CASE n \notin was[m]
    <3>1. Remember
      BY <2>3, HistoryStep
    <3>2. Shown(n)'
      BY <2>1, <2>3, <3>1, RememberAdds DEF RowShape
    <3> QED
      BY <3>2 DEF Shown, Stored
  <2> QED
    BY <2>2, <2>3
<1>2. ASSUME NEW r \in log'
      PROVE  r[1] \in Notifications /\ Stored(r[1])'
  <2>1. CASE r \in log
    <3>1. r[1] \in Notifications /\ Stored(r[1])
      BY <2>1 DEF StoredInv
    <3> QED
      BY <3>1, StoredStays
  <2>2. CASE \E n \in Notifications : CreateCommit(n) /\ r = <<n, "created", born[n]>>
    <3>1. PICK n \in Notifications : CreateCommit(n) /\ r = <<n, "created", born[n]>>
      BY <2>2
    <3>2. state'[n] = "stored"
      BY <3>1 DEF CreateCommit, RowShape
    <3> QED
      BY <3>1, <3>2 DEF Stored
  <2>3. CASE \E h \in hints : PublishHint(h) /\ r = <<h.id, "delivered_hint", Now>>
    <3>1. PICK h \in hints : r = <<h.id, "delivered_hint", Now>>
      BY <2>3
    <3>2. h.id \in Notifications /\ Stored(h.id)
      BY <3>1 DEF StoredInv
    <3> QED
      BY <3>1, <3>2, StoredStays
  <2>4. CASE ReadCommit /\ r = <<reading.id, "read", reading.at>>
    <3>1. reading.id \in Notifications /\ Stored(reading.id)
      BY <2>4 DEF ReadCommit, Inv, ReaderInv, ReaderShape, Stored
    <3> QED
      BY <2>4, <3>1, StoredStays
  <2>5. CASE JobCommit /\ \E n \in work.rows : r = <<n, work.job.status, work.job.to>>
    <3>1. PICK n \in work.rows : r = <<n, work.job.status, work.job.to>>
      BY <2>5
    <3>2. n \in Notifications /\ Stored(n)
      BY <2>5, <3>1 DEF JobCommit, Inv, JobInv, JobShape, Stored
    <3> QED
      BY <3>1, <3>2, StoredStays
  <2> QED
    BY <2>1, <2>2, <2>3, <2>4, <2>5, LogStep DEF Adds
<1>3. ASSUME NEW n \in due'
      PROVE  n \in Notifications /\ Stored(n)'
  <2>1. CASE n \in due
    BY <2>1, StoredStays DEF StoredInv
  <2>2. CASE n \in Notifications /\ CreateCommit(n)
    <3>1. state'[n] = "stored"
      BY <2>2 DEF CreateCommit, RowShape
    <3> QED
      BY <2>2, <3>1 DEF Stored
  <2> QED
    BY <2>1, <2>2, QueueStep
<1>4. ASSUME NEW h \in hints'
      PROVE  h.id \in Notifications /\ Stored(h.id)' /\ visible'[h.id] <= clock'
  <2>1. CASE h \in hints
    <3>1. h.id \in Notifications /\ Stored(h.id) /\ visible[h.id] <= clock
      BY <2>1 DEF StoredInv
    <3>2. Stored(h.id)' /\ visible'[h.id] = visible[h.id] /\ visible[h.id] \in Nat
      BY <3>1, StoredStays DEF RowShape
    <3> QED
      BY <3>1, <3>2, QueueStep, NowAfterClock
  <2>2. ASSUME NEW n \in Notifications, h = [id |-> n, to |-> owner[n]],
               CreateCommit(n), visible[n] = born[n]
        PROVE  h.id \in Notifications /\ Stored(h.id)' /\ visible'[h.id] <= clock'
    <3>1. state'[n] = "stored" /\ visible' = visible /\ clock' = clock
      BY <2>2 DEF CreateCommit, RowShape
    <3>2. born[n] <= clock
      BY <2>2 DEF CreateCommit, RowShape
    <3> QED
      BY <2>2, <3>1, <3>2 DEF Stored
  <2>3. ASSUME NEW n \in Notifications, h = [id |-> n, to |-> owner[n]], Deliver(n)
        PROVE  h.id \in Notifications /\ Stored(h.id)' /\ visible'[h.id] <= clock'
    <3>1. n \in due /\ visible[n] <= clock /\ UNCHANGED <<clock, rowVars>>
      BY <2>3 DEF Deliver
    <3>2. Stored(n)
      BY <3>1 DEF StoredInv
    <3> QED
      BY <2>3, <3>1, <3>2, StoredStays DEF rowVars
  <2> QED
    BY <2>1, <2>2, <2>3, QueueStep
<1> QED
  BY <1>1, <1>2, <1>3, <1>4 DEF StoredInv

LEMMA JobShapeStep ==
    ASSUME ShapeInv, [Next]_vars
    PROVE  JobShape'
<1> USE DEF ShapeInv
<1>1. ASSUME NEW j \in jobs'
      PROVE  j \in Job /\ j.to <= watermark'[j.s][j.status]
  <2>1. CASE j \in jobs
    <3>1. j \in Job /\ j.to <= watermark[j.s][j.status]
      BY <2>1 DEF JobShape
    <3>2. /\ watermark[j.s][j.status] <= watermark'[j.s][j.status]
          /\ watermark[j.s][j.status] \in Nat /\ watermark'[j.s][j.status] \in Nat
          /\ j.to \in Nat
      BY <3>1, MarksGrow, RowShapeStep DEF Job, RowShape
    <3> QED
      BY <3>1, <3>2
  <2>2. ASSUME NEW s \in Subscribers, NEW m \in Moves, MoveWatermark(s, m), j = Window(s, m)
        PROVE  j \in Job /\ j.to <= watermark'[j.s][j.status]
    <3>1. watermark'[s][m] = Now /\ Now \in Nat /\ watermark[s][m] \in Nat
      BY <2>2, MarkMoves DEF RowShape
    <3> QED
      BY <2>2, <3>1 DEF Window, Job
  <2>3. ASSUME JobCommit, ~(Cardinality(work.rows) < Chunk),
               j = [work.job EXCEPT !.after = Cursor(work.job, work.rows)]
        PROVE  j \in Job /\ j.to <= watermark'[j.s][j.status]
    <3>1. work.job \in Job /\ work.job.to <= watermark[work.job.s][work.job.status]
          /\ work.rows \in SUBSET Notifications /\ UNCHANGED watermark
      BY <2>3 DEF JobCommit, JobShape
    <3>2. work.rows # {}
      <4>1. Chunk \in Nat /\ Chunk > 0
        BY TimelineAssumption
      <4> QED
        BY <2>3, <4>1, FS_EmptySet
    <3>3. PICK n \in work.rows : Cursor(work.job, work.rows) = <<visible[n], n>>
      BY <3>1, <3>2, CursorAtLast DEF RowShape
    <3>4. Cursor(work.job, work.rows) \in Nat \X Nat
      BY <3>1, <3>3, TimelineAssumption DEF RowShape, Notifications
    <3> QED
      BY <2>3, <3>1, <3>4 DEF Job
  <2> QED
    BY <2>1, <2>2, <2>3, JobsStep
<1>2. ASSUME work' # None
      PROVE  /\ work'.job \in jobs' /\ work'.s = work'.job.s
             /\ work'.rows \subseteq Notifications
             /\ \A n \in work'.rows : visible'[n] <= work'.job.to
  <2>1. CASE UNCHANGED work /\ jobs \subseteq jobs'
    <3>1. /\ work.job \in jobs /\ work.s = work.job.s
          /\ work.rows \subseteq Notifications
          /\ \A n \in work.rows : visible[n] <= work.job.to /\ Stored(n)
      BY <1>2, <2>1 DEF JobShape, Inv, JobInv, Stored
    <3>2. \A n \in work.rows : visible'[n] = visible[n]
      BY <3>1, StoredStays
    <3> QED
      BY <2>1, <3>1, <3>2
  <2>2. ASSUME NEW j \in jobs, JobScan(j), UNCHANGED jobs
        PROVE  /\ work'.job \in jobs' /\ work'.s = work'.job.s
               /\ work'.rows \subseteq Notifications
               /\ \A n \in work'.rows : visible'[n] <= work'.job.to
    <3>1. work' = [s |-> j.s, job |-> j, rows |-> Scanned(j)] /\ UNCHANGED visible
      BY <2>2 DEF JobScan, rowVars
    <3>2. Scanned(j) \subseteq Notifications /\ \A n \in Scanned(j) : visible[n] <= j.to
      BY DEF Scanned, InWindow
    <3> QED
      BY <2>2, <3>1, <3>2
  <2> QED
    BY <1>2, <2>1, <2>2, JobsStep
<1> QED
  BY <1>1, <1>2 DEF JobShape

LEMMA ReaderShapeStep ==
    ASSUME ShapeInv, [Next]_vars
    PROVE  ReaderShape'
<1> USE DEF ShapeInv
<1>1. CASE UNCHANGED reading
  <2> SUFFICES ASSUME reading # None
               PROVE  /\ reading.id \in Notifications /\ reading.at \in Nat
                      /\ reading.at <= clock'
                      /\ reading.held =>
                           /\ visible'[reading.id] <= reading.at
                           /\ reading.rows = {} => HasRow(reading.id, "read")'
    BY <1>1 DEF ReaderShape
  <2>1. reading.id \in Notifications /\ Stored(reading.id)
    BY DEF ReaderShape, Inv, ReaderInv, Stored
  <2>2. visible'[reading.id] = visible[reading.id]
    BY <2>1, StoredStays
  <2>3. HasRow(reading.id, "read") => HasRow(reading.id, "read")'
    BY <1>1, LogStep DEF HasRow
  <2>4. reading.at \in Nat /\ reading.at <= clock
    BY DEF ReaderShape
  <2>5. reading.at <= clock'
    BY <2>4, QueueStep, NowAfterClock
  <2> QED
    BY <2>1, <2>2, <2>3, <2>4, <2>5 DEF ReaderShape
<1>2. CASE reading' = None
  BY <1>2 DEF ReaderShape
<1>3. ASSUME ReadLock, reading' # None
      PROVE  ReaderShape'
  <2>1. /\ reading # None /\ UNCHANGED <<visible, log>>
        /\ ~ReadRefused
        /\ reading' = [reading EXCEPT !.held = TRUE,
                          !.rows = Missing({reading.id}, "read", reading.at)]
    BY <1>3 DEF ReadLock, rowVars
  <2>2. reading' = [s |-> reading.s, id |-> reading.id, at |-> reading.at, held |-> TRUE,
                    rows |-> Missing({reading.id}, "read", reading.at)]
    BY <2>1 DEF Inv, ReaderInv
  <2>3. reading.id \in Notifications /\ reading.at \in Nat /\ visible[reading.id] \in Nat
        /\ reading.at <= clock /\ UNCHANGED clock
    BY <2>1, <1>3 DEF ReaderShape, RowShape, ReadLock
  <2>4. visible[reading.id] <= reading.at
    BY <2>1, <2>3 DEF ReadRefused
  <2>5. Missing({reading.id}, "read", reading.at) = {} => HasRow(reading.id, "read")
    BY DEF Missing
  <2>6. /\ reading'.id = reading.id /\ reading'.at = reading.at
        /\ reading'.rows = Missing({reading.id}, "read", reading.at)
    BY <2>2
  <2>7. HasRow(reading.id, "read") => HasRow(reading.id, "read")'
    BY <2>1, <2>6 DEF HasRow
  <2>8. visible'[reading'.id] <= reading'.at
    BY <2>1, <2>4, <2>6
  <2>9. reading'.rows = {} => HasRow(reading.id, "read")'
    BY <2>5, <2>6, <2>7
  <2> QED
    BY <2>3, <2>6, <2>8, <2>9 DEF ReaderShape
<1>4. ASSUME NEW n \in Notifications, ReadBegin(n)
      PROVE  ReaderShape'
  <2>1. reading' = [s |-> owner[n], id |-> n, at |-> Now, held |-> FALSE, rows |-> {}]
    BY <1>4 DEF ReadBegin
  <2>2. clock' = Now
    BY <1>4 DEF ReadBegin, Instant
  <2> QED
    BY <2>1, <2>2, NowAfterClock DEF ReaderShape
<1> QED
  BY <1>1, <1>2, <1>3, <1>4, ReaderStep

LEMMA ShapeStep == ShapeInv /\ [Next]_vars => ShapeInv'
BY RowShapeStep, StoredInvStep, JobShapeStep, ReaderShapeStep, InvStep DEF ShapeInv

LEMMA ShapeInit == Init => ShapeInv
<1> SUFFICES ASSUME Init
             PROVE  ShapeInv
  OBVIOUS
<1>1. RowShape
  BY DEF Init, RowShape, Stored, Moves
<1>2. StoredInv /\ JobShape /\ ReaderShape
  BY DEF Init, StoredInv, JobShape, ReaderShape
<1>3. Inv
  BY DEF Init, Inv, OneRowPerStatus, ReaderInv, JobInv, OneHolderInv
<1> QED
  BY <1>1, <1>2, <1>3 DEF ShapeInv
----------------------------------------------------------------------------
(* What is told happened *)

LEMMA NewlyStored ==
    ASSUME RowShape, [Next]_vars, NEW n \in Notifications, ~Stored(n), Stored(n)'
    PROVE  CreateCommit(n)
<1> USE DEF RowShape, Stored
<1>1. \A i \in Notifications : CreateCommit(i) => i = n
  BY DEF CreateCommit
<1>2. \A i \in Notifications : ~CreateAbort(i)
  BY DEF CreateAbort
<1>3. \A i \in Notifications, s \in Subscribers : \A ahead : ~CreateBegin(i, s, ahead)
  BY DEF CreateBegin
<1>4. state' # state
  OBVIOUS
<1>5. \A i \in Notifications : ~Deliver(i) /\ ~ReadBegin(i) /\ ~Unread(i)
  BY <1>4 DEF Deliver, ReadBegin, Unread, rowVars
<1>6. \A i \in Notifications, t \in Subscribers : ~Move(i, t)
  BY <1>4 DEF Move
<1>7. \A h \in hints : ~PublishHint(h)
  BY <1>4 DEF PublishHint, rowVars
<1>8. ~(ReadLock \/ ReadCommit \/ ReadAbort \/ JobCommit \/ JobAbort \/ UNCHANGED vars)
  BY <1>4 DEF ReadLock, ReadCommit, ReadAbort, JobCommit, JobAbort, vars, rowVars
<1>9. \A s \in Subscribers, m \in Moves : ~MoveWatermark(s, m)
  BY <1>4 DEF MoveWatermark, rowVars
<1>10. \A j \in jobs : ~JobScan(j)
  BY <1>4 DEF JobScan, rowVars
<1> HIDE DEF RowShape, Stored
<1> QED
  BY <1>1, <1>2, <1>3, <1>5, <1>6, <1>7, <1>8, <1>9, <1>10 DEF Next

\* A watermark moves in one transaction, its own.
LEMMA MarkMovesOnly ==
    ASSUME RowShape, [Next]_vars, NEW s \in Subscribers, NEW m \in Moves,
           watermark'[s][m] # watermark[s][m]
    PROVE  MoveWatermark(s, m)
<1>1. watermark' # watermark
  OBVIOUS
<1>2. \A n \in Notifications :
        ~(CreateCommit(n) \/ CreateAbort(n) \/ Deliver(n) \/ ReadBegin(n) \/ Unread(n))
  BY <1>1 DEF CreateCommit, CreateAbort, Deliver, ReadBegin, Unread
<1>3. \A n \in Notifications, t \in Subscribers : \A ahead : ~CreateBegin(n, t, ahead)
  BY <1>1 DEF CreateBegin
<1>4. \A n \in Notifications, t \in Subscribers : ~Move(n, t)
  BY <1>1 DEF Move
<1>5. \A h \in hints : ~PublishHint(h)
  BY <1>1 DEF PublishHint
<1>6. ~(ReadLock \/ ReadCommit \/ ReadAbort \/ JobCommit \/ JobAbort \/ UNCHANGED vars)
  BY <1>1 DEF ReadLock, ReadCommit, ReadAbort, JobCommit, JobAbort, vars
<1>7. \A j \in jobs : ~JobScan(j)
  BY <1>1 DEF JobScan
<1>8. ASSUME NEW t \in Subscribers, NEW k \in Moves, MoveWatermark(t, k)
      PROVE  t = s /\ k = m
  BY <1>8, MarkMoves
<1> QED
  BY <1>2, <1>3, <1>4, <1>5, <1>6, <1>7, <1>8 DEF Next

\* A history only grows.
LEMMA HistoryGrows ==
    ASSUME RowShape, [Next]_vars, NEW m \in Moves, NEW n \in was[m]
    PROVE  n \in was'[m]
BY HistoryStep, RememberAdds DEF RowShape

\* What a step has the row of a create, or a watermark move, say of a notification.
LEMMA CommitShows ==
    ASSUME ShapeInv, NEW n \in Notifications, CreateCommit(n), NEW m \in Moves,
           visible[n] <= watermark[owner[n]][m]
    PROVE  n \in was'[m] /\ n \in late'
<1>1. /\ state[n] = "open" /\ state'[n] = "stored" /\ mark[n] = "none"
      /\ UNCHANGED <<clock, owner, visible, mark, watermark>> /\ Remember
      /\ n \in late'
  BY DEF CreateCommit, ShapeInv, RowShape, Stored
<1>2. owner[n] \in Subscribers /\ visible[n] \in Nat /\ clock \in Nat
  BY <1>1 DEF ShapeInv, RowShape
<1>3. watermark[owner[n]][m] \in Nat /\ watermark[owner[n]][m] <= clock
  BY <1>2 DEF ShapeInv, RowShape
<1>4. Shown(n)'
  BY <1>1, <1>2, <1>3 DEF Shown
<1>5. Is(n, m)'
  BY <1>1 DEF Is, IsRead, IsSeen, Moves
<1> QED
  BY <1>1, <1>4, <1>5, RememberAdds DEF ShapeInv, RowShape

LEMMA MoveShows ==
    ASSUME ShapeInv, NEW n \in Notifications, Stored(n), NEW m \in Moves,
           MoveWatermark(owner[n], m), visible[n] <= Now
    PROVE  n \in was'[m]
<1>1. owner[n] \in Subscribers /\ visible[n] \in Nat /\ state[n] = "stored"
  BY DEF ShapeInv, RowShape, Stored
<1>2. /\ UNCHANGED <<state, owner, visible>> /\ Remember /\ clock' = Now
      /\ watermark'[owner[n]][m] = Now
  BY <1>1, MarkMoves DEF MoveWatermark, rowVars, ShapeInv, Instant
<1>3. m = "read" => mark'[n] \in {"none", "read"}
  BY <1>1 DEF MoveWatermark, ShapeInv, RowShape
<1>4. Shown(n)'
  BY <1>1, <1>2 DEF Shown
<1>5. m = "read" => IsRead(n)'
  BY <1>2, <1>3 DEF IsRead
<1>6. m = "seen" => IsSeen(n)'
  BY <1>2 DEF IsSeen
<1> QED
  BY <1>2, <1>4, <1>5, <1>6, RememberAdds DEF ShapeInv, RowShape, Is, Moves

LEMMA PassedStep ==
    ASSUME ShapeInv, PassedInv, [Next]_vars
    PROVE  PassedInv'
<1> SUFFICES ASSUME NEW n \in Notifications, NEW m \in Moves,
                    Unmoved(n)', visible'[n] <= watermark'[owner'[n]][m]
             PROVE  n \in was'[m]
  BY DEF PassedInv
<1>1. CASE Stored(n)
  <2>1. Unmoved(n) /\ owner'[n] = owner[n] /\ visible'[n] = visible[n]
    BY <1>1, StoredStays DEF Unmoved, ShapeInv
  <2>2. owner[n] \in Subscribers
    BY <1>1 DEF ShapeInv, RowShape, Stored
  <2>3. CASE watermark'[owner[n]][m] = watermark[owner[n]][m]
    BY <2>1, <2>3, HistoryGrows DEF PassedInv, ShapeInv
  <2>4. CASE watermark'[owner[n]][m] # watermark[owner[n]][m]
    <3>1. MoveWatermark(owner[n], m)
      BY <2>2, <2>4, MarkMovesOnly DEF ShapeInv
    <3>2. watermark'[owner[n]][m] = Now
      BY <2>2, <3>1, MarkMoves DEF ShapeInv
    <3> QED
      BY <1>1, <2>1, <3>1, <3>2, MoveShows
  <2> QED
    BY <2>3, <2>4
<1>2. CASE ~Stored(n)
  <2>1. CreateCommit(n)
    BY <1>2, NewlyStored DEF Unmoved, ShapeInv
  <2>2. UNCHANGED <<owner, visible, watermark>>
    BY <2>1 DEF CreateCommit
  <2> QED
    BY <2>1, <2>2, CommitShows
<1> QED
  BY <1>1, <1>2

LEMMA InventedStep ==
    ASSUME ShapeInv, PassedInv, NothingInvented, [Next]_vars
    PROVE  NothingInvented'
<1> SUFFICES ASSUME NEW r \in log', r[1] \notin moved'
             PROVE  /\ r[3] >= born'[r[1]]
                    /\ r[2] \in Moves => r[1] \in was'[r[2]]
                    /\ r[2] = "delivered_hint" => r[3] >= visible'[r[1]]
  BY DEF NothingInvented
<1>1. CASE r \in log
  <2>1. r[1] \in Notifications /\ Stored(r[1])
    BY <1>1 DEF ShapeInv, StoredInv
  <2>2. r[1] \notin moved /\ born'[r[1]] = born[r[1]] /\ visible'[r[1]] = visible[r[1]]
    BY <2>1, StoredStays DEF ShapeInv
  <2> QED
    BY <1>1, <2>2, HistoryGrows DEF NothingInvented, ShapeInv
<1>2. ASSUME NEW n \in Notifications, CreateCommit(n), r = <<n, "created", born[n]>>
      PROVE  /\ r[3] >= born'[r[1]]
             /\ r[2] \in Moves => r[1] \in was'[r[2]]
             /\ r[2] = "delivered_hint" => r[3] >= visible'[r[1]]
  <2>1. born' = born /\ born[n] \in Nat
    BY <1>2 DEF CreateCommit, ShapeInv, RowShape
  <2> QED
    BY <1>2, <2>1 DEF Moves
<1>3. ASSUME NEW h \in hints, PublishHint(h), r = <<h.id, "delivered_hint", Now>>
      PROVE  /\ r[3] >= born'[r[1]]
             /\ r[2] \in Moves => r[1] \in was'[r[2]]
             /\ r[2] = "delivered_hint" => r[3] >= visible'[r[1]]
  <2>1. h.id \in Notifications /\ Stored(h.id) /\ visible[h.id] <= clock
    BY DEF ShapeInv, StoredInv
  <2>2. /\ born[h.id] <= clock /\ born[h.id] \in Nat /\ visible[h.id] \in Nat
        /\ UNCHANGED <<born, visible>>
    BY <1>3, <2>1 DEF ShapeInv, RowShape, Stored, PublishHint, rowVars
  <2>3. r[1] = h.id /\ r[2] = "delivered_hint" /\ r[3] = Now
    BY <1>3
  <2> QED
    BY <2>1, <2>2, <2>3, NowAfterClock DEF Moves, ShapeInv
<1>4. ASSUME ReadCommit, r = <<reading.id, "read", reading.at>>
      PROVE  /\ r[3] >= born'[r[1]]
             /\ r[2] \in Moves => r[1] \in was'[r[2]]
             /\ r[2] = "delivered_hint" => r[3] >= visible'[r[1]]
  <2> DEFINE n == reading.id
  <2>1. /\ n \in Notifications /\ Stored(n) /\ visible[n] <= reading.at
        /\ reading.at \in Nat /\ reading.at <= clock
    BY <1>4 DEF ReadCommit, ShapeInv, ReaderShape, Inv, ReaderInv, Stored
  <2>2. /\ UNCHANGED <<clock, state, born, visible>> /\ Remember /\ mark'[n] = "read"
    BY <1>4, <2>1 DEF ReadCommit, rowVars, ShapeInv, RowShape
  <2>3. /\ born[n] <= visible[n] /\ born[n] \in Nat /\ visible[n] \in Nat /\ clock \in Nat
    BY <2>1 DEF ShapeInv, RowShape, Stored
  <2>4. r[1] = n /\ r[2] = "read" /\ r[3] = reading.at
    BY <1>4
  <2>5. PICK i \in Notifications : i = n
    BY <2>1
  <2> HIDE DEF n
  <2>6. Shown(i)' /\ Is(i, "read")'
    BY <2>1, <2>2, <2>3, <2>5 DEF Shown, Is, IsRead, Stored
  <2>7. i \in was'["read"]
    BY <2>2, <2>6, RememberAdds DEF Moves, ShapeInv, RowShape
  <2> QED
    BY <2>1, <2>2, <2>3, <2>4, <2>5, <2>7
<1>5. ASSUME JobCommit, NEW n \in work.rows, r = <<n, work.job.status, work.job.to>>
      PROVE  /\ r[3] >= born'[r[1]]
             /\ r[2] \in Moves => r[1] \in was'[r[2]]
             /\ r[2] = "delivered_hint" => r[3] >= visible'[r[1]]
  <2>1. /\ work # None /\ UNCHANGED <<born, visible, was, moved>>
    BY <1>5 DEF JobCommit, rowVars, ghostVars
  <2>2. /\ n \in Notifications /\ Stored(n) /\ owner[n] = work.job.s
        /\ work.job \in Job /\ visible[n] <= work.job.to
        /\ work.job.to <= watermark[work.job.s][work.job.status]
    BY <2>1 DEF ShapeInv, Inv, JobInv, JobShape, Stored
  <2>3. /\ born[n] <= visible[n] /\ born[n] \in Nat /\ visible[n] \in Nat
        /\ work.job.to \in Nat /\ work.job.status \in Moves
        /\ watermark[work.job.s][work.job.status] \in Nat
    BY <2>2 DEF ShapeInv, RowShape, Stored, Job
  <2>4. n \in was[work.job.status]
    BY <1>5, <2>1, <2>2, <2>3 DEF PassedInv, Unmoved
  <2>5. r[1] = n /\ r[2] = work.job.status /\ r[3] = work.job.to
    BY <1>5
  <2> QED
    BY <2>1, <2>2, <2>3, <2>4, <2>5 DEF Moves
<1> QED
  BY <1>1, <1>2, <1>3, <1>4, <1>5, LogStep DEF Adds, ShapeInv
----------------------------------------------------------------------------
(* What happened is told *)

LEMMA RowsStay ==
    ASSUME ShapeInv, [Next]_vars, NEW n, NEW status, HasRow(n, status)
    PROVE  HasRow(n, status)'
BY LogStep DEF HasRow, ShapeInv

\* A notification that is stored and does not move has not moved before.
LEMMA UnmovedStays ==
    ASSUME ShapeInv, [Next]_vars, NEW n, Unmoved(n)', Stored(n)
    PROVE  /\ Unmoved(n) /\ owner'[n] = owner[n] /\ visible'[n] = visible[n]
           /\ state[n] = "stored" /\ state'[n] = "stored"
BY StoredStays DEF Unmoved, Stored, ShapeInv

LEMMA AppendWrites ==
    ASSUME NEW ids, NEW n \in ids, NEW status, NEW at,
           log' = log \cup Missing(ids, status, at)
    PROVE  HasRow(n, status)'
<1>1. CASE HasRow(n, status)
  BY <1>1 DEF HasRow
<1>2. CASE ~HasRow(n, status)
  <2>1. <<n, status, at>> \in Missing(ids, status, at)
    BY <1>2 DEF Missing
  <2> QED
    BY <2>1 DEF HasRow
<1> QED
  BY <1>1, <1>2

LEMMA AnnouncedStep ==
    ASSUME ShapeInv, AnnouncedInv, [Next]_vars
    PROVE  AnnouncedInv'
<1> SUFFICES ASSUME NEW n \in Notifications, Unmoved(n)'
             PROVE  /\ HasRow(n, "created")'
                    /\ \/ HasRow(n, "delivered_hint")' \/ n \in due'
                       \/ [id |-> n, to |-> owner'[n]] \in hints'
  BY DEF AnnouncedInv
<1>1. CASE Stored(n)
  <2>1. Unmoved(n) /\ owner'[n] = owner[n]
    BY <1>1, UnmovedStays
  <2>2. HasRow(n, "created")'
    BY <2>1, RowsStay DEF AnnouncedInv
  <2>3. CASE HasRow(n, "delivered_hint")
    BY <2>2, <2>3, RowsStay
  <2>4. CASE n \in due
    BY <2>1, <2>2, <2>4, QueueStep
  <2>5. CASE [id |-> n, to |-> owner[n]] \in hints
    <3>1. PICK h \in hints : h = [id |-> n, to |-> owner[n]]
      BY <2>5
    <3>2. CASE h \in hints'
      BY <2>1, <2>2, <3>1, <3>2
    <3>3. CASE PublishHint(h)
      <4>1. log' = log \cup Missing({n}, "delivered_hint", Now)
        BY <3>1, <3>3 DEF PublishHint
      <4> QED
        BY <2>2, <4>1, AppendWrites
    <3> QED
      BY <3>2, <3>3, QueueStep
  <2> QED
    BY <2>1, <2>3, <2>4, <2>5 DEF AnnouncedInv
<1>2. CASE ~Stored(n)
  <2>1. CreateCommit(n)
    BY <1>2, NewlyStored DEF Unmoved, ShapeInv
  <2>2. log' = log \cup Missing({n}, "created", born[n]) /\ UNCHANGED owner
    BY <2>1 DEF CreateCommit
  <2>3. HasRow(n, "created")'
    BY <2>2, AppendWrites
  <2>4. n \in due' \/ [id |-> n, to |-> owner[n]] \in hints'
    BY <2>1 DEF CreateCommit
  <2> QED
    BY <2>2, <2>3, <2>4
<1> QED
  BY <1>1, <1>2

\* A notification becomes marked read by a request or by a move.
LEMMA ReadMarks ==
    ASSUME ShapeInv, [Next]_vars, NEW n \in Notifications,
           mark'[n] = "read", mark[n] # "read"
    PROVE  (ReadCommit /\ n = reading.id) \/ n \in moved'
<1>1. mark' # mark /\ mark \in [Notifications -> {"none", "read", "unread"}]
  BY DEF ShapeInv, RowShape
<1>2. \A i \in Notifications :
        ~(CreateCommit(i) \/ CreateAbort(i) \/ Deliver(i) \/ ReadBegin(i) \/ Unread(i))
  BY <1>1 DEF CreateCommit, CreateAbort, Deliver, ReadBegin, Unread
<1>3. \A i \in Notifications, s \in Subscribers : \A ahead : ~CreateBegin(i, s, ahead)
  BY <1>1 DEF CreateBegin
<1>4. ASSUME NEW i \in Notifications, NEW t \in Subscribers, Move(i, t)
      PROVE  n \in moved'
  BY <1>1, <1>4 DEF Move
<1>5. \A h \in hints : ~PublishHint(h)
  BY <1>1 DEF PublishHint
<1>6. ~(ReadLock \/ ReadAbort \/ JobCommit \/ JobAbort \/ UNCHANGED vars)
  BY <1>1 DEF ReadLock, ReadAbort, JobCommit, JobAbort, vars
<1>7. \A j \in jobs : ~JobScan(j)
  BY <1>1 DEF JobScan
<1>8. \A s \in Subscribers, m \in Moves : ~MoveWatermark(s, m)
  BY <1>1 DEF MoveWatermark
<1>9. ReadCommit => n = reading.id
  BY <1>1 DEF ReadCommit
<1> QED
  BY <1>2, <1>3, <1>4, <1>5, <1>6, <1>7, <1>8, <1>9 DEF Next

LEMMA MarkedStep ==
    ASSUME ShapeInv, MarkedInv, [Next]_vars
    PROVE  MarkedInv'
<1> SUFFICES ASSUME NEW n \in Notifications, Unmoved(n)', mark'[n] = "read"
             PROVE  HasRow(n, "read")'
  BY DEF MarkedInv
<1>1. CASE Stored(n) /\ mark[n] = "read"
  BY <1>1, UnmovedStays, RowsStay DEF MarkedInv
<1>2. CASE ~(Stored(n) /\ mark[n] = "read")
  <2>1. mark[n] # "read"
    BY <1>2 DEF ShapeInv, RowShape
  <2>2. ReadCommit /\ n = reading.id
    BY <2>1, ReadMarks DEF Unmoved
  <2>3. /\ log' = log \cup reading.rows
        /\ reading.rows \subseteq {<<n, "read", reading.at>>}
        /\ reading.rows = {} => HasRow(n, "read")
    BY <2>2 DEF ReadCommit, ShapeInv, ReaderShape, Inv, ReaderInv
  <2>4. CASE reading.rows = {}
    BY <2>3, <2>4, RowsStay
  <2>5. CASE reading.rows # {}
    <3>1. <<n, "read", reading.at>> \in log'
      BY <2>3, <2>5
    <3> QED
      BY <3>1 DEF HasRow
  <2> QED
    BY <2>4, <2>5
<1> QED
  BY <1>1, <1>2

\* What comes late is remembered.
LEMMA LateStays ==
    ASSUME [Next]_vars, NEW n \in late
    PROVE  n \in late'
<1>1. \A i \in Notifications : CreateCommit(i) => n \in late'
  BY DEF CreateCommit
<1>2. \A i \in Notifications :
        CreateAbort(i) \/ Deliver(i) \/ ReadBegin(i) \/ Unread(i) => UNCHANGED late
  BY DEF CreateAbort, Deliver, ReadBegin, Unread, ghostVars
<1>3. \A i \in Notifications, s \in Subscribers : \A ahead : CreateBegin(i, s, ahead) => UNCHANGED late
  BY DEF CreateBegin, ghostVars
<1>4. \A i \in Notifications, t \in Subscribers : Move(i, t) => UNCHANGED late
  BY DEF Move
<1>5. \A h \in hints : PublishHint(h) => UNCHANGED late
  BY DEF PublishHint
<1>6. ReadLock \/ ReadCommit \/ ReadAbort \/ JobCommit \/ JobAbort \/ UNCHANGED vars => UNCHANGED late
  BY DEF ReadLock, ReadCommit, ReadAbort, JobCommit, JobAbort, vars, ghostVars
<1>7. \A s \in Subscribers, m \in Moves : MoveWatermark(s, m) => UNCHANGED late
  BY DEF MoveWatermark
<1>8. \A j \in jobs : JobScan(j) => UNCHANGED late
  BY DEF JobScan, ghostVars
<1> QED
  BY <1>1, <1>2, <1>3, <1>4, <1>5, <1>6, <1>7, <1>8 DEF Next

LEMMA ScanStep ==
    ASSUME ShapeInv, ScanInv, [Next]_vars
    PROVE  ScanInv'
<1> SUFFICES ASSUME work' # None, NEW n \in Notifications,
                    Unmoved(n)', n \notin late', Ahead(n, work.job)'
             PROVE  n \in work'.rows \/ Left(n, work.rows)'
  BY DEF ScanInv
<1>1. CASE UNCHANGED work
  <2>1. work.job \in jobs /\ work.job \in Job /\ work.job.to <= watermark[work.job.s][work.job.status]
        /\ work.rows \subseteq Notifications /\ \A i \in work.rows : Stored(i)
    BY <1>1 DEF ShapeInv, JobShape, Inv, JobInv, Stored
  <2>2. \A i \in work.rows : visible'[i] = visible[i]
    BY <2>1, StoredStays DEF ShapeInv
  <2>3. CASE Stored(n)
    <3>1. Unmoved(n) /\ owner'[n] = owner[n] /\ visible'[n] = visible[n] /\ state[n] = "stored"
      BY <2>3, UnmovedStays
    <3>2. Ahead(n, work.job) /\ n \notin late
      BY <1>1, <3>1, LateStays DEF Ahead, InWindow, Beyond
    <3>3. n \in work.rows \/ Left(n, work.rows)
      BY <1>1, <3>1, <3>2 DEF ScanInv
    <3> QED
      BY <1>1, <2>2, <3>1, <3>3 DEF Left, Beyond
  <2>4. CASE ~Stored(n)
    <3>1. CreateCommit(n)
      BY <2>4, NewlyStored DEF Unmoved, ShapeInv
    <3>2. visible[n] <= work.job.to /\ owner[n] = work.job.s
      BY <1>1, <3>1 DEF Ahead, InWindow, CreateCommit
    <3>3. /\ work.job.status \in Moves /\ work.job.to \in Nat /\ visible[n] \in Nat
          /\ watermark[work.job.s][work.job.status] \in Nat
      BY <2>1 DEF Job, ShapeInv, RowShape
    <3>4. visible[n] <= watermark[owner[n]][work.job.status]
      BY <2>1, <3>2, <3>3
    <3> QED
      BY <3>1, <3>3, <3>4, CommitShows
  <2> QED
    BY <2>3, <2>4
<1>2. ASSUME NEW j \in jobs, JobScan(j)
      PROVE  n \in work'.rows \/ Left(n, work.rows)'
  <2>1. /\ work' = [s |-> j.s, job |-> j, rows |-> Scanned(j)]
        /\ UNCHANGED <<state, owner, visible>>
    BY <1>2 DEF JobScan, rowVars
  <2>2. work'.job = j /\ work'.rows = Scanned(j)
    BY <2>1
  <2>3. InWindow(n, j) /\ Beyond(n, j.after)
    BY <2>1, <2>2 DEF Ahead, InWindow, Beyond
  <2>4. CASE n \in Scanned(j)
    BY <2>2, <2>4
  <2>5. CASE n \notin Scanned(j)
    <3>1. Cardinality(Scanned(j)) >= Chunk /\ \A i \in Scanned(j) : After(n, i)
      BY <2>3, <2>5, ScanTakesFirst DEF ShapeInv, RowShape
    <3> QED
      BY <2>1, <2>2, <3>1 DEF Left, After, Beyond
  <2> QED
    BY <2>4, <2>5
<1> QED
  BY <1>1, <1>2, JobsStep

\* A job that has left a row out goes on to it.
LEMMA JobGoesOn ==
    ASSUME ShapeInv, JobCommit, NEW n \in Notifications,
           Ahead(n, work.job), Left(n, work.rows)
    PROVE  \E j \in jobs' : j.status = work.job.status /\ Ahead(n, j)'
<1>1. /\ work # None /\ work.job \in Job /\ work.rows \in SUBSET Notifications
      /\ UNCHANGED <<state, owner, visible>> /\ visible \in [Notifications -> Nat]
  BY DEF JobCommit, rowVars, ShapeInv, JobShape, RowShape
<1>2. IsFiniteSet(work.rows) /\ Cardinality(work.rows) \in Nat
  BY <1>1, NotificationsFinite, FS_Subset, FS_CardinalityType
<1>3. Chunk \in Nat /\ Chunk > 0
  BY TimelineAssumption
<1>4. ~(Cardinality(work.rows) < Chunk) /\ work.rows # {}
  BY <1>2, <1>3, FS_EmptySet DEF Left
<1>5. PICK k \in work.rows : Cursor(work.job, work.rows) = <<visible[k], k>>
  BY <1>1, <1>4, CursorAtLast
<1> PICK j : j = [work.job EXCEPT !.after = Cursor(work.job, work.rows)]
  OBVIOUS
<1>6. j \in jobs'
  BY <1>4 DEF JobCommit
<1>7. /\ j.s = work.job.s /\ j.status = work.job.status /\ j.from = work.job.from
      /\ j.to = work.job.to /\ j.after = <<visible[k], k>>
  BY <1>1, <1>5 DEF Job
<1>8. Beyond(n, <<visible[k], k>>)
  BY DEF Left
<1>9. Ahead(n, j)'
  <2>1. InWindow(n, j)'
    BY <1>1, <1>7 DEF Ahead, InWindow
  <2>2. Beyond(n, j.after)'
    BY <1>1, <1>7, <1>8 DEF Beyond
  <2> QED
    BY <2>1, <2>2 DEF Ahead
<1> QED
  BY <1>6, <1>7, <1>9

LEMMA CoveredStep ==
    ASSUME ShapeInv, PassedInv, MarkedInv, ScanInv, CoveredInv, [Next]_vars
    PROVE  CoveredInv'
<1> SUFFICES ASSUME NEW n \in Notifications, NEW m \in Moves,
                    Unmoved(n)', n \notin late', n \in was'[m]
             PROVE  Covered(n, m)'
  BY DEF CoveredInv
<1>1. CASE ~Stored(n)
  <2>1. CreateCommit(n)
    BY <1>1, NewlyStored DEF Unmoved, ShapeInv
  <2>2. n \notin was[m]
    BY <1>1 DEF ShapeInv, StoredInv
  <2>3. Is(n, m)'
    BY <2>1, <2>2, RememberAdds DEF CreateCommit, ShapeInv, RowShape
  <2>4. /\ mark'[n] = "none" /\ UNCHANGED <<owner, visible, watermark>>
    BY <1>1, <2>1 DEF CreateCommit, ShapeInv, RowShape
  <2>5. visible[n] <= watermark[owner[n]][m]
    BY <2>3, <2>4 DEF Is, IsRead, IsSeen, Moves
  <2> QED
    BY <2>1, <2>5, CommitShows
<1>2. CASE Stored(n)
  <2>1. /\ Unmoved(n) /\ owner'[n] = owner[n] /\ visible'[n] = visible[n]
        /\ state[n] = "stored" /\ state'[n] = "stored" /\ n \notin late
    BY <1>2, UnmovedStays, LateStays
  <2>2. CASE n \in was[m]
    <3>1. Covered(n, m)
      BY <2>1, <2>2 DEF CoveredInv
    <3>2. CASE HasRow(n, m)
      BY <3>2, RowsStay DEF Covered
    <3>3. ASSUME NEW j \in jobs, j.status = m, Ahead(n, j)
          PROVE  Covered(n, m)'
      <4>1. CASE j \in jobs'
        <5>1. Ahead(n, j)'
          BY <3>3, <2>1 DEF Ahead, InWindow, Beyond
        <5> QED
          BY <3>3, <4>1, <5>1 DEF Covered
      <4>2. CASE JobCommit /\ j = work.job
        <5>1. n \in work.rows \/ Left(n, work.rows)
          BY <2>1, <3>3, <4>2 DEF ScanInv, JobCommit
        <5>2. CASE n \in work.rows
          <6>1. log' = log \cup Missing(work.rows, m, work.job.to)
            BY <3>3, <4>2 DEF JobCommit
          <6> QED
            BY <5>2, <6>1, AppendWrites DEF Covered
        <5>3. CASE Left(n, work.rows)
          <6>1. \E k \in jobs' : k.status = m /\ Ahead(n, k)'
            BY <3>3, <4>2, <5>3, JobGoesOn
          <6> QED
            BY <6>1 DEF Covered
        <5> QED
          BY <5>1, <5>2, <5>3
      <4> QED
        BY <4>1, <4>2, JobsStep
    <3> QED
      BY <3>1, <3>2, <3>3 DEF Covered
  <2>3. CASE n \notin was[m]
    <3>1. Remember
      BY <2>3, HistoryStep
    <3>2. Is(n, m)'
      BY <2>3, <3>1, RememberAdds DEF ShapeInv, RowShape
    <3>3. CASE m = "read" /\ mark'[n] = "read"
      BY <3>3, MarkedStep DEF MarkedInv, Covered
    <3>4. CASE visible'[n] <= watermark'[owner'[n]][m]
      <4>1. owner[n] \in Subscribers /\ visible[n] \in Nat /\ watermark[owner[n]][m] \in Nat
        BY <2>1 DEF ShapeInv, RowShape
      <4>2. ~(visible[n] <= watermark[owner[n]][m])
        BY <2>1, <2>3 DEF PassedInv
      <4>3. MoveWatermark(owner[n], m)
        BY <2>1, <3>4, <4>1, <4>2, MarkMovesOnly DEF ShapeInv
      <4>4. watermark'[owner[n]][m] = Now
        BY <4>1, <4>3, MarkMoves DEF ShapeInv
      <4> PICK j : j = Window(owner[n], m)
        OBVIOUS
      <4>5. j \in jobs'
        BY <4>3 DEF MoveWatermark
      <4>6. j = [s |-> owner[n], status |-> m, from |-> watermark[owner[n]][m], to |-> Now,
                 after |-> <<watermark[owner[n]][m], 0>>]
        BY DEF Window
      <4>7. j.s = owner[n] /\ j.status = m /\ j.from = watermark[owner[n]][m] /\ j.to = Now
            /\ j.after = <<watermark[owner[n]][m], 0>>
        BY <4>6
      <4>8. visible[n] > j.from /\ visible[n] <= j.to /\ visible[n] > j.after[1]
        BY <2>1, <3>4, <4>1, <4>2, <4>4, <4>7
      <4>9. Ahead(n, j)'
        BY <2>1, <4>7, <4>8 DEF Ahead, InWindow, Beyond
      <4> QED
        BY <4>5, <4>7, <4>9 DEF Covered
    <3> QED
      BY <3>2, <3>3, <3>4 DEF Is, IsRead, IsSeen, Moves
  <2> QED
    BY <2>2, <2>3
<1> QED
  BY <1>1, <1>2

LEMMA TimelineInvariant == Spec => []TimelineInv
<1>1. Init => TimelineInv
  <2> SUFFICES ASSUME Init
               PROVE  TimelineInv
    OBVIOUS
  <2>1. ShapeInv
    BY ShapeInit
  <2>2. \A n \in Notifications : ~Unmoved(n)
    BY DEF Init, Unmoved, Stored
  <2>3. NothingInvented /\ ScanInv
    BY DEF Init, NothingInvented, ScanInv
  <2> QED
    BY <2>1, <2>2, <2>3 DEF TimelineInv, PassedInv, AnnouncedInv, MarkedInv, CoveredInv
<1>2. TimelineInv /\ [Next]_vars => TimelineInv'
  BY ShapeStep, PassedStep, InventedStep, AnnouncedStep, MarkedStep, ScanStep, CoveredStep
     DEF TimelineInv
<1> QED
  BY <1>1, <1>2, PTL DEF Spec

\* No row tells what did not happen: every seen and read row is of a notification
\* that was so when the watermark or the mark passed it, and no row is dated before
\* the creation or, for an announcement, before the notification is visible
\* (timeline.rs, append_window_chunk and append_delivered).
THEOREM ToldHappened == Spec => []NothingInvented
<1>1. TimelineInv => NothingInvented
  BY DEF TimelineInv
<1> QED
  BY <1>1, TimelineInvariant, PTL

\* When the jobs are done a notification's rows are all there: for every chunk size
\* the cursor passes no row of its window, whatever commits, moves and dies between
\* a scan and its commit (worker.rs, process_timeline and process_hint).
THEOREM HappenedTold == Spec => []NothingMissing
<1>1. TimelineInv => NothingMissing
  <2> SUFFICES ASSUME TimelineInv, Resting, NEW n \in Notifications,
                      state[n] = "stored", Untouched(n)
               PROVE  /\ HasRow(n, "created") /\ HasRow(n, "delivered_hint")
                      /\ \A m \in Moves : n \in was[m] => HasRow(n, m)
    BY DEF NothingMissing
  <2>1. jobs = {} /\ hints = {} /\ due = {}
    BY DEF Resting
  <2>2. Unmoved(n) /\ n \notin late
    BY DEF Unmoved, Untouched, Stored
  <2>3. HasRow(n, "created") /\ HasRow(n, "delivered_hint")
    BY <2>1, <2>2 DEF TimelineInv, AnnouncedInv
  <2>4. \A m \in Moves : n \in was[m] => HasRow(n, m)
    BY <2>1, <2>2 DEF TimelineInv, CoveredInv, Covered
  <2> QED
    BY <2>3, <2>4
<1> QED
  BY <1>1, TimelineInvariant, PTL

=============================================================================
