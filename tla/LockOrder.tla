----------------------------- MODULE LockOrder -----------------------------
(***************************************************************************)
(* The order in which transactions lock rows.  A transaction is seen as    *)
(* the rows it needs: the unique keys of the subscribers it upserts, the   *)
(* counters rows, and the preference rows it writes.  One that has picked  *)
(* a row holds on until the row is free; Postgres ends a circle of waiters *)
(* by failing one of them, which is an error for a request and a retry for *)
(* a job.                                                                  *)
(***************************************************************************)
EXTENDS Integers, FiniteSets

CONSTANTS
    Txns,       \* transactions
    Programs,   \* what they may do: [kind, job, upserts, subs, target, cats]
    MaxSub,     \* subscribers, numbered in the order of their uuids
    Categories,
    Unborn      \* subscribers that do not exist yet

Subs == 1 .. MaxSub
Kinds == {"create", "deliver", "move", "prefs", "one"}

\* Whether it names one subscriber at most.
Single(p) == \E x \in Subs : p.upserts \cup p.subs \subseteq {x}

\* A move upserts its target alone and locks its counters row, a delivery and what
\* works on one counters row upsert nobody, only moves and preference writes write
\* preferences.
ASSUME LockAssumption ==
    /\ MaxSub \in Nat
    /\ Unborn \subseteq Subs
    /\ Programs \subseteq
         [kind : Kinds, job : BOOLEAN, upserts : SUBSET Subs, subs : SUBSET Subs,
          target : Subs, cats : SUBSET Categories]
    /\ \A p \in Programs :
         /\ p.kind = "move" => p.upserts \subseteq {p.target} /\ p.target \in p.subs
         /\ p.kind \in {"create", "deliver", "one"} => p.cats = {}
         /\ p.kind = "deliver" => p.upserts = {}
         /\ p.kind = "one" => p.upserts = {} /\ Single(p)

VARIABLES
    program,  \* of each transaction
    status,   \* "running", "done" or "failed"
    left,     \* the rows it has still to lock
    want,     \* the row it is locking or waiting for, or NoRow
    held,     \* the rows it has locked
    born      \* the subscribers whose row is committed

lockVars == <<program, status, left, want, held, born>>

NoRow == [row |-> "none"]

Key(x) == [row |-> "key", sub |-> x, cat |-> "none"]
Counters(x) == [row |-> "counters", sub |-> x, cat |-> "none"]
Preference(x, c) == [row |-> "preference", sub |-> x, cat |-> c]

\* Upserted keys, counters rows, preference rows.
Rows(p) ==
    {Key(x) : x \in p.upserts} \cup {Counters(x) : x \in p.subs}
    \cup {Preference(p.target, c) : c \in p.cats}

\* The statement that locks the row, counted within its transaction: a preference
\* write locks its counters row last, everything else before the preferences.
Statement(p, r) ==
    CASE r.row = "key" -> 1
      [] r.row = "counters" -> IF p.kind = "prefs" THEN 4 ELSE 2
      [] OTHER -> 3

\* Mutant: deliver locks its counters rows as they come.
DeliverUnsorted(p) == p.kind = "move"

\* ORDER BY subscriber_id in front of FOR UPDATE.
Sorted(p) == p.kind \in {"deliver", "move"}

Before(p, q, r) ==
    \/ Statement(p, q) < Statement(p, r)
    \/ /\ Sorted(p) /\ q.row = "counters" /\ r.row = "counters"
       /\ q.sub < r.sub

LockInit ==
    /\ program \in [Txns -> Programs]
    /\ status = [t \in Txns |-> "running"]
    /\ left = [t \in Txns |-> Rows(program[t])]
    /\ want = [t \in Txns |-> NoRow]
    /\ held = [t \in Txns |-> {}]
    /\ born = Subs \ Unborn

\* Within a statement without an order the plan decides.
Pick(t) ==
    /\ status[t] = "running"
    /\ want[t] = NoRow
    /\ \E r \in left[t] :
         /\ \A q \in left[t] : ~Before(program[t], q, r)
         /\ want' = [want EXCEPT ![t] = r]
    /\ UNCHANGED <<program, status, left, held, born>>

Free(r, t) == \A u \in Txns \ {t} : r \notin held[u]

\* ON CONFLICT DO NOTHING: a key that is there by now is not locked.
AlreadyThere(r) == r.row = "key" /\ r.sub \in born

Lock(t) ==
    /\ want[t] # NoRow
    /\ Free(want[t], t)
    /\ held' = [held EXCEPT ![t] = IF AlreadyThere(want[t]) THEN @ ELSE @ \cup {want[t]}]
    /\ left' = [left EXCEPT ![t] = @ \ {want[t]}]
    /\ want' = [want EXCEPT ![t] = NoRow]
    /\ UNCHANGED <<program, status, born>>

Commit(t) ==
    /\ status[t] = "running"
    /\ left[t] = {}
    /\ want[t] = NoRow
    /\ status' = [status EXCEPT ![t] = "done"]
    /\ born' = born \cup {x \in Subs : Key(x) \in held[t]}
    /\ held' = [held EXCEPT ![t] = {}]
    /\ UNCHANGED <<program, left, want>>

Waits(t, u) == t # u /\ want[t] \in held[u]

\* A set of transactions each of which waits for another of them.
Stuck(D) == D # {} /\ \A t \in D : \E u \in D : Waits(t, u)

OnCycle(t) ==
    \E D \in SUBSET Txns :
        t \in D /\ Stuck(D) /\ \A u \in D : \E v \in D : Waits(v, u)

\* Mutant: a job that fails is not claimed again.
FailForGood(t) == "failed"

\* A job is claimed again and starts from the beginning.
LeftAfter(t) == IF program[t].job THEN Rows(program[t]) ELSE {}
StatusAfter(t) == IF program[t].job THEN "running" ELSE "failed"

\* Postgres fails one transaction of a cycle.
Abort(t) ==
    /\ OnCycle(t)
    /\ held' = [held EXCEPT ![t] = {}]
    /\ want' = [want EXCEPT ![t] = NoRow]
    /\ left' = [left EXCEPT ![t] = LeftAfter(t)]
    /\ status' = [status EXCEPT ![t] = StatusAfter(t)]
    /\ UNCHANGED <<program, born>>

LockNext == \E t \in Txns : Pick(t) \/ Lock(t) \/ Commit(t) \/ Abort(t)

LockSpec == LockInit /\ [][LockNext]_lockVars

\* A transaction that can go on does, a row that is released goes to one that
\* waits for it, and Postgres looks for cycles.
LockFairness ==
    /\ \A t \in Txns : WF_lockVars(Pick(t) \/ Commit(t)) /\ SF_lockVars(Lock(t))
    /\ WF_lockVars(\E t \in Txns : Abort(t))

LockFairSpec == LockSpec /\ LockFairness

----------------------------------------------------------------------------

LockTypeOK ==
    /\ program \in [Txns -> Programs]
    /\ status \in [Txns -> {"running", "done", "failed"}]
    /\ born \subseteq Subs
    /\ \A t \in Txns :
         /\ want[t] = NoRow \/ want[t] \in left[t]
         /\ held[t] \cup left[t] \subseteq Rows(program[t])
         /\ status[t] = "running" =>
              \A r \in Rows(program[t]) \ (held[t] \cup left[t]) : AlreadyThere(r)
         /\ \A u \in Txns \ {t} : held[t] \cap held[u] = {}

\* One subscriber, or sorted counters rows.
Ordered(p) ==
    \/ p.kind \in {"deliver", "move"}
    \/ p.kind = "one"
    \/ p.kind = "create" /\ Single(p)

\* "Ascending uuid order, so two opposite moves cannot deadlock"; nor do moves,
\* deliveries, creates for one subscriber and everything that works on a single
\* counters row with each other, however many meet (management.rs,
\* move_notifications_txn; worker.rs, process_deliver).
OrderedNeverStuck ==
    \A D \in SUBSET {t \in Txns : Ordered(program[t])} : ~Stuck(D)

\* Whatever it meets, a job is done in the end and a request is answered
\* (worker.rs, fail_job, which puts a job that failed back).
EverybodyEnds ==
    <>(\A t \in Txns : status[t] = "done" \/ (status[t] = "failed" /\ ~program[t].job))
=============================================================================
