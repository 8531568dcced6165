---------------------------- MODULE HintPipeline ----------------------------
(***************************************************************************)
(* The worker loop of the Chimely server, for the jobs that carry hints:   *)
(* several workers claim queued jobs with FOR UPDATE SKIP LOCKED, absorb   *)
(* the duplicates of the one they hold, publish under a debounce key per   *)
(* target, and then delete the job or put it off.  A worker can fail or    *)
(* die at any point: what it published stays published, what it wrote is   *)
(* rolled back.                                                            *)
(*                                                                         *)
(* A job is queued by a committed change and keeps the change's name as    *)
(* its id.  Times are the ticks that are left, so the clock needs no       *)
(* bound.  Among due jobs the code claims the oldest; here any one.        *)
(***************************************************************************)
EXTENDS Integers, Sequences, FiniteSets

CONSTANTS
    Workers,      \* the worker loops of all replicas
    Subs,         \* subscribers
    Everyone,     \* the target of an environment-wide hint (null)
    Changes,      \* the transactions that queue a hint job
    Notifs,       \* direct notifications
    NoJob,        \* what a worker without a claim holds
    ReasonOf,     \* the reason of a change's hint
    TargetsOf,    \* its targets, in order
    IdsOf,        \* the notifications it announces
    RecipientOf,  \* the subscriber a notification is addressed to
    Debounce,     \* ticks a debounce key lives
    BackoffCap,   \* ticks of the longest backoff
    MaxAttempts,  \* failures after which a job is parked
    MaxFaults     \* bound: failures, crashes and lost keys

Keys == Subs \cup {Everyone}

ASSUME ChangesAssumption ==
    /\ Everyone \notin Subs
    /\ NoJob \notin Changes
    /\ TargetsOf \in [Changes -> Seq(Keys)]
    /\ \A c \in Changes :
          \/ TargetsOf[c] = <<Everyone>>
          \/ /\ TargetsOf[c] # << >>
             /\ \A i \in DOMAIN TargetsOf[c] : TargetsOf[c][i] \in Subs
             /\ \A i, j \in DOMAIN TargetsOf[c] : TargetsOf[c][i] = TargetsOf[c][j] => i = j
    /\ IdsOf \in [Changes -> SUBSET Notifs]
    /\ RecipientOf \in [Notifs -> Subs]
    /\ \A c, d \in Changes : c # d => IdsOf[c] \cap IdsOf[d] = {}
    /\ \A c \in Changes : \A n \in IdsOf[c] :
          \E i \in DOMAIN TargetsOf[c] : TargetsOf[c][i] = RecipientOf[n]

ASSUME LimitsAssumption ==
    /\ Debounce \in Nat \ {0}
    /\ BackoffCap \in Nat \ {0}
    /\ MaxAttempts \in Nat \ {0}
    /\ MaxFaults \in Nat

VARIABLES
    committed,   \* changes whose transaction has committed
    jobs,        \* hint jobs in the jobs table
    targets, ids,\* the payload of each job
    run_in,      \* ticks until run_at
    attempts,    \* failures counted against each job
    dead_letters,\* parked jobs
    pc,          \* where each worker is
    claim,       \* the job whose row each worker has locked or just failed
    absorbed,    \* the duplicates it has deleted, not yet committed
    todo,        \* the targets it has still to try
    published,   \* the targets it has published to
    deferred,    \* the targets whose debounce key was held
    held,        \* ticks each debounce key has left
    delivered,   \* delivered_hint rows per notification
    unheard,     \* history: (subscriber, change) pairs no publish has covered
    faults       \* bound: failures, crashes and lost keys so far

queueVars == <<jobs, targets, ids, run_in, attempts, dead_letters>>
workerVars == <<pc, claim, absorbed, todo, published, deferred>>
vars == <<committed, queueVars, workerVars, held, delivered, unheard, faults>>

Members(seq) == {seq[i] : i \in DOMAIN seq}

\* The subscribers a published hint reaches.
Reached(key) == IF key = Everyone THEN Subs ELSE {key}

ReachedBy(seq) == UNION {Reached(key) : key \in Members(seq)}

\* The job rows locked by open transactions.
Working(w) == pc[w] \in {"claimed", "publishing", "acquired"}
Locks(w) == IF Working(w) THEN {claim[w]} \cup absorbed[w] ELSE {}
Locked == UNION {Locks(w) : w \in Workers}

Init ==
    /\ committed = {}
    /\ jobs = {}
    /\ targets = TargetsOf
    /\ ids = IdsOf
    /\ run_in = [c \in Changes |-> 0]
    /\ attempts = [c \in Changes |-> 0]
    /\ dead_letters = {}
    /\ pc = [w \in Workers |-> "idle"]
    /\ claim = [w \in Workers |-> NoJob]
    /\ absorbed = [w \in Workers |-> {}]
    /\ todo = [w \in Workers |-> << >>]
    /\ published = [w \in Workers |-> {}]
    /\ deferred = [w \in Workers |-> << >>]
    /\ held = [k \in Keys |-> 0]
    /\ delivered = [n \in Notifs |-> 0]
    /\ unheard = {}
    /\ faults = 0

\* A worker without a transaction; its local variables are gone with it.
Release(w) ==
    /\ claim' = [claim EXCEPT ![w] = NoJob]
    /\ absorbed' = [absorbed EXCEPT ![w] = {}]
    /\ todo' = [todo EXCEPT ![w] = << >>]
    /\ published' = [published EXCEPT ![w] = {}]
    /\ deferred' = [deferred EXCEPT ![w] = << >>]

----------------------------------------------------------------------------

\* enqueue_hint, in the transaction that owns the change.
Commit(c) ==
    /\ c \notin committed
    /\ committed' = committed \cup {c}
    /\ jobs' = jobs \cup {c}
    /\ unheard' = unheard \cup {<<s, c>> : s \in ReachedBy(TargetsOf[c])}
    /\ UNCHANGED <<targets, ids, run_in, attempts, dead_letters, workerVars, held,
                   delivered, faults>>

\* process_one: SELECT .. FOR UPDATE SKIP LOCKED.
Claim(w) ==
    /\ pc[w] = "idle"
    /\ \E c \in jobs \ Locked :
          /\ run_in[c] = 0
          /\ claim' = [claim EXCEPT ![w] = c]
    /\ pc' = [pc EXCEPT ![w] = "claimed"]
    /\ UNCHANGED <<committed, queueVars, absorbed, todo, published, deferred, held,
                   delivered, unheard, faults>>

\* Mutant: the reason alone decides.
SameHintByReason(c, d) == ReasonOf[c] = ReasonOf[d]

\* The payloads agree but for the notification ids.
SameHint(c, d) == ReasonOf[c] = ReasonOf[d] /\ targets[c] = targets[d]

Duplicates(w) == {d \in jobs \ {claim[w]} : SameHint(claim[w], d)}

\* Mutant: the DELETE waits for the locks of other workers.
AbsorbBlocking(w) ==
    /\ pc[w] = "claimed"
    /\ Duplicates(w) \cap Locked = {}
    /\ absorbed' = [absorbed EXCEPT ![w] = Duplicates(w)]
    /\ todo' = [todo EXCEPT ![w] = targets[claim[w]]]
    /\ pc' = [pc EXCEPT ![w] = "publishing"]
    /\ UNCHANGED <<committed, queueVars, claim, published, deferred, held, delivered,
                   unheard, faults>>

\* process_hint deletes the duplicates no other worker has locked.
Absorb(w) ==
    /\ pc[w] = "claimed"
    /\ absorbed' = [absorbed EXCEPT ![w] = Duplicates(w) \ Locked]
    /\ todo' = [todo EXCEPT ![w] = targets[claim[w]]]
    /\ pc' = [pc EXCEPT ![w] = "publishing"]
    /\ UNCHANGED <<committed, queueVars, claim, published, deferred, held, delivered,
                   unheard, faults>>

\* SET NX PX on the next target's key.
Acquire(w) ==
    /\ pc[w] = "publishing" /\ todo[w] # << >>
    /\ held[Head(todo[w])] = 0
    /\ held' = [held EXCEPT ![Head(todo[w])] = Debounce]
    /\ pc' = [pc EXCEPT ![w] = "acquired"]
    /\ UNCHANGED <<committed, queueVars, claim, absorbed, todo, published, deferred,
                   delivered, unheard, faults>>

\* The key is held: the target goes to the deferred list.
Suppress(w) ==
    /\ pc[w] = "publishing" /\ todo[w] # << >>
    /\ held[Head(todo[w])] > 0
    /\ deferred' = [deferred EXCEPT ![w] = Append(@, Head(todo[w]))]
    /\ todo' = [todo EXCEPT ![w] = Tail(@)]
    /\ UNCHANGED <<committed, queueVars, pc, claim, absorbed, published, held,
                   delivered, unheard, faults>>

\* The publish is outside the transaction: whoever it reaches refetches all
\* that has committed.
Publish(w) ==
    LET key == Head(todo[w]) IN
    /\ pc[w] = "acquired"
    /\ unheard' = {u \in unheard : u[1] \notin Reached(key)}
    /\ published' = [published EXCEPT ![w] = @ \cup {key}]
    /\ todo' = [todo EXCEPT ![w] = Tail(@)]
    /\ pc' = [pc EXCEPT ![w] = "publishing"]
    /\ UNCHANGED <<committed, queueVars, claim, absorbed, deferred, held, delivered,
                   faults>>

\* Mutant: what the duplicates announced is dropped.
HeldIdsOwn(w) == ids[claim[w]]

HeldIds(w) == ids[claim[w]] \cup UNION {ids[d] : d \in absorbed[w]}

IdsFor(some, subs) == {n \in some : RecipientOf[n] \in subs}

\* Every target has been tried: append the delivered_hint rows of those
\* published to, then delete the job, or put it off with what is left.
Finish(w) ==
    LET job  == claim[w]
        news == IdsFor(HeldIds(w), published[w])
    IN  /\ pc[w] = "publishing" /\ todo[w] = << >>
        /\ delivered' = [n \in Notifs |->
              IF n \in news /\ delivered[n] = 0 THEN 1 ELSE delivered[n]]
        /\ \/ /\ deferred[w] = << >>
              /\ jobs' = jobs \ ({job} \cup absorbed[w])
              /\ UNCHANGED <<targets, ids, run_in>>
           \/ /\ deferred[w] # << >>
              /\ jobs' = jobs \ absorbed[w]
              /\ targets' = [targets EXCEPT ![job] = deferred[w]]
              /\ ids' = [ids EXCEPT ![job] = IdsFor(HeldIds(w), Members(deferred[w]))]
              /\ run_in' = [run_in EXCEPT ![job] = Debounce]
        /\ pc' = [pc EXCEPT ![w] = "idle"]
        /\ Release(w)
        /\ UNCHANGED <<committed, attempts, dead_letters, held, unheard, faults>>

\* Postgres or Redis fails, or the publish has no receiver: the transaction
\* is rolled back, and the bookkeeping is still to come.
Fail(w) ==
    /\ Working(w)
    /\ faults < MaxFaults
    /\ faults' = faults + 1
    /\ pc' = [pc EXCEPT ![w] = "failing"]
    /\ absorbed' = [absorbed EXCEPT ![w] = {}]
    /\ todo' = [todo EXCEPT ![w] = << >>]
    /\ published' = [published EXCEPT ![w] = {}]
    /\ deferred' = [deferred EXCEPT ![w] = << >>]
    /\ UNCHANGED <<committed, queueVars, claim, held, delivered, unheard>>

\* fail_job, a transaction of its own: it waits for the row if another worker
\* has claimed the job meanwhile, and finds no row if that worker is done.
FailJob(w) ==
    LET job == claim[w] IN
    /\ pc[w] = "failing"
    /\ job \notin Locked
    /\ \/ /\ job \notin jobs
          /\ UNCHANGED queueVars
       \/ /\ job \in jobs
          /\ attempts' = [attempts EXCEPT ![job] = @ + 1]
          /\ \E backoff \in 1 .. BackoffCap : run_in' = [run_in EXCEPT ![job] = backoff]
          /\ IF attempts[job] + 1 >= MaxAttempts
             THEN jobs' = jobs \ {job} /\ dead_letters' = dead_letters \cup {job}
             ELSE UNCHANGED <<jobs, dead_letters>>
          /\ UNCHANGED <<targets, ids>>
    /\ pc' = [pc EXCEPT ![w] = "idle"]
    /\ Release(w)
    /\ UNCHANGED <<committed, held, delivered, unheard, faults>>

\* The process dies: Postgres rolls back, nobody counts an attempt, and the
\* restarted worker starts over.
Crash(w) ==
    /\ pc[w] # "idle"
    /\ faults < MaxFaults
    /\ faults' = faults + 1
    /\ pc' = [pc EXCEPT ![w] = "idle"]
    /\ Release(w)
    /\ UNCHANGED <<committed, queueVars, held, delivered, unheard>>

\* Mutant: the dead letter stays.
ReplayCopy(c) ==
    /\ c \in dead_letters
    /\ jobs' = jobs \cup {c}
    /\ attempts' = [attempts EXCEPT ![c] = 0]
    /\ run_in' = [run_in EXCEPT ![c] = 0]
    /\ UNCHANGED <<committed, targets, ids, dead_letters, workerVars, held, delivered,
                   unheard, faults>>

\* replay_where: one statement moves the job back with a fresh budget.
Replay(c) ==
    /\ c \in dead_letters
    /\ dead_letters' = dead_letters \ {c}
    /\ jobs' = jobs \cup {c}
    /\ attempts' = [attempts EXCEPT ![c] = 0]
    /\ run_in' = [run_in EXCEPT ![c] = 0]
    /\ UNCHANGED <<committed, targets, ids, workerVars, held, delivered, unheard, faults>>

\* Redis restarts and forgets a key.
LoseKey(k) ==
    /\ held[k] > 0
    /\ faults < MaxFaults
    /\ faults' = faults + 1
    /\ held' = [held EXCEPT ![k] = 0]
    /\ UNCHANGED <<committed, queueVars, workerVars, delivered, unheard>>

Less(ticks) == IF ticks = 0 THEN 0 ELSE ticks - 1

Tick ==
    /\ \/ \E c \in jobs : run_in[c] > 0
       \/ \E k \in Keys : held[k] > 0
    /\ run_in' = [c \in Changes |-> Less(run_in[c])]
    /\ held' = [k \in Keys |-> Less(held[k])]
    /\ UNCHANGED <<committed, jobs, targets, ids, attempts, dead_letters, workerVars,
                   delivered, unheard, faults>>

Work(w) ==
    \/ Claim(w) \/ Absorb(w) \/ Acquire(w) \/ Suppress(w) \/ Publish(w) \/ Finish(w)
    \/ FailJob(w)

Next ==
    \/ \E c \in Changes : Commit(c) \/ Replay(c)
    \/ \E w \in Workers : Work(w) \/ Fail(w) \/ Crash(w)
    \/ \E k \in Keys : LoseKey(k)
    \/ Tick

Spec == Init /\ [][Next]_vars

\* The loop of a worker never stops by itself, and time goes on.
FairSpec ==
    /\ Spec
    /\ \A w \in Workers : WF_vars(Work(w))
    /\ WF_vars(Tick)

----------------------------------------------------------------------------

TypeOK ==
    /\ committed \subseteq Changes
    /\ jobs \subseteq committed
    /\ dead_letters \subseteq committed \ jobs
    /\ targets \in [Changes -> Seq(Keys)]
    /\ ids \in [Changes -> SUBSET Notifs]
    /\ run_in \in [Changes -> Nat]
    /\ attempts \in [Changes -> Nat]
    /\ pc \in [Workers -> {"idle", "claimed", "publishing", "acquired", "failing"}]
    /\ claim \in [Workers -> Changes \cup {NoJob}]
    /\ absorbed \in [Workers -> SUBSET Changes]
    /\ todo \in [Workers -> Seq(Keys)]
    /\ published \in [Workers -> SUBSET Keys]
    /\ deferred \in [Workers -> Seq(Keys)]
    /\ held \in [Keys -> Nat]
    /\ delivered \in [Notifs -> Nat]
    /\ unheard \subseteq Subs \X Changes
    /\ faults \in Nat

\* No hint is lost: while a committed change has not been heard of by a
\* subscriber, some queued or parked job still targets that subscriber,
\* whatever was coalesced, debounced, put off, failed or crashed
\* (worker.rs, process_hint: suppressed keys are deferred, never dropped).
NoHintLost ==
    \A u \in unheard : \E c \in jobs \cup dead_letters : u[1] \in ReachedBy(targets[c])

\* The delivered_hint row of a notification is either still to come, from
\* exactly one job, or written once and announced by no job any more
\* (worker.rs, process_hint: "so the append commits exactly once").
DeliveredOnce ==
    \A c \in committed : \A n \in IdsOf[c] :
        Cardinality({d \in jobs \cup dead_letters : n \in ids[d]}) + delivered[n] = 1

\* Every change is heard of in the end unless its hint is parked: two workers
\* do not wait for each other's duplicates, and deferral ends.
EventuallyHeard ==
    \A s \in Subs :
        (\E c \in Changes : <<s, c>> \in unheard)
        ~> \/ \A c \in Changes : <<s, c>> \notin unheard
           \/ \E d \in dead_letters : s \in ReachedBy(targets[d])
=============================================================================
