------------------------- MODULE HintPipelineProofs -------------------------
(***************************************************************************)
(* No row of the queue has two holders, no hint is lost and every          *)
(* delivered_hint row is written once, for any numbers of workers, jobs,   *)
(* subscribers and notifications, and any faults.                          *)
(*                                                                         *)
(* What carries the proofs is the account a worker keeps of the job it has *)
(* claimed (Split): its targets are those still to try, those put off and  *)
(* those published to, each once, and the duplicates it has absorbed have  *)
(* the same targets.                                                       *)
(***************************************************************************)
EXTENDS HintPipeline, FiniteSetTheorems, TLAPS

Distinct(seq) == \A i, j \in DOMAIN seq : seq[i] = seq[j] => i = j

Trying(w) == pc[w] \in {"publishing", "acquired"}

\* A worker that is not at the targets holds no result.
Empty(w) == absorbed[w] = {} /\ published[w] = {} /\ deferred[w] = << >>

Split(w) ==
    /\ Members(targets[claim[w]]) = Members(todo[w]) \cup Members(deferred[w]) \cup published[w]
    /\ Members(todo[w]) \cap (Members(deferred[w]) \cup published[w]) = {}
    /\ Members(deferred[w]) \cap published[w] = {}
    /\ Distinct(todo[w]) /\ Distinct(deferred[w])
    /\ claim[w] \notin absorbed[w]
    /\ \A d \in absorbed[w] : targets[d] = targets[claim[w]]
    /\ pc[w] = "acquired" => todo[w] # << >>

WorkerInv(w) == IF Trying(w) THEN Split(w) ELSE Empty(w)

\* A payload names no target twice, and is the change's own until it commits.
QueueInv ==
    /\ \A c \in Changes : Distinct(targets[c])
    /\ \A c \in Changes : \A n \in ids[c] : RecipientOf[n] \in Members(targets[c])
    /\ \A c \in Changes \ committed : targets[c] = TargetsOf[c] /\ ids[c] = IdsOf[c]

\* Open transactions hold rows that exist, each its own: the claim and the
\* coalescing DELETE both SKIP LOCKED.
OneHolder ==
    /\ \A v, w \in Workers : v # w => Locks(v) \cap Locks(w) = {}
    /\ \A w \in Workers : Locks(w) \subseteq jobs

PipeInv ==
    /\ TypeOK
    /\ OneHolder
    /\ QueueInv
    /\ \A w \in Workers : WorkerInv(w)

----------------------------------------------------------------------------
(* Sequences without repetition *)

LEMMA EmptyMembers == Members(<< >>) = {} /\ Distinct(<< >>)
    BY DEF Members, Distinct

\* Taking the first target off the list.
LEMMA TailMembers ==
    ASSUME NEW seq \in Seq(Keys), seq # << >>, Distinct(seq)
    PROVE  /\ Head(seq) \in Members(seq) /\ Head(seq) \in Keys
           /\ Members(Tail(seq)) = Members(seq) \ {Head(seq)}
           /\ Distinct(Tail(seq)) /\ Tail(seq) \in Seq(Keys)
<1>1. /\ Len(seq) \in Nat /\ Len(seq) > 0 /\ DOMAIN seq = 1 .. Len(seq)
      /\ Head(seq) = seq[1]
      /\ Tail(seq) \in Seq(Keys) /\ Len(Tail(seq)) = Len(seq) - 1
      /\ \A i \in 1 .. Len(seq) - 1 : Tail(seq)[i] = seq[i + 1]
    OBVIOUS
<1>2. DOMAIN Tail(seq) = 1 .. Len(seq) - 1
    BY <1>1
<1>3. Head(seq) \in Members(seq) /\ Head(seq) \in Keys
    BY <1>1 DEF Members
<1>4. Distinct(Tail(seq))
    BY <1>1, <1>2 DEF Distinct
<1>5. ASSUME NEW x \in Members(Tail(seq)) PROVE x \in Members(seq) \ {Head(seq)}
    <2>1. PICK i \in 1 .. Len(seq) - 1 : x = seq[i + 1]
        BY <1>1, <1>2 DEF Members
    <2>2. i + 1 \in DOMAIN seq /\ 1 \in DOMAIN seq /\ i + 1 # 1
        BY <1>1
    <2>3. seq[i + 1] # seq[1]
        BY <2>2 DEF Distinct
    <2> QED BY <1>1, <2>1, <2>2, <2>3 DEF Members
<1>6. ASSUME NEW x \in Members(seq) \ {Head(seq)} PROVE x \in Members(Tail(seq))
    <2>1. PICK i \in 1 .. Len(seq) : x = seq[i]
        BY <1>1 DEF Members
    <2>2. i # 1
        BY <1>1, <2>1
    <2>3. i - 1 \in 1 .. Len(seq) - 1 /\ (i - 1) + 1 = i
        BY <1>1, <2>2
    <2>4. Tail(seq)[i - 1] = x
        BY <1>1, <2>1, <2>3
    <2> QED BY <1>2, <2>3, <2>4 DEF Members
<1> QED BY <1>1, <1>3, <1>4, <1>5, <1>6

\* Putting a target off.
LEMMA AppendMembers ==
    ASSUME NEW seq \in Seq(Keys), NEW key \in Keys, key \notin Members(seq), Distinct(seq)
    PROVE  /\ Members(Append(seq, key)) = Members(seq) \cup {key}
           /\ Distinct(Append(seq, key)) /\ Append(seq, key) \in Seq(Keys)
<1>1. /\ Len(seq) \in Nat /\ DOMAIN seq = 1 .. Len(seq)
      /\ Append(seq, key) \in Seq(Keys)
      /\ DOMAIN Append(seq, key) = 1 .. Len(seq) + 1
      /\ \A i \in 1 .. Len(seq) : Append(seq, key)[i] = seq[i]
      /\ Append(seq, key)[Len(seq) + 1] = key
    OBVIOUS
<1>2. \A i \in 1 .. Len(seq) + 1 : i \in 1 .. Len(seq) \/ i = Len(seq) + 1
    BY <1>1
<1>3. \A i \in 1 .. Len(seq) : seq[i] # key
    BY <1>1 DEF Members
<1>4. Distinct(Append(seq, key))
    BY <1>1, <1>2, <1>3 DEF Distinct
<1>5. Members(Append(seq, key)) = Members(seq) \cup {key}
    <2>1. \A i \in 1 .. Len(seq) : i \in 1 .. Len(seq) + 1
        BY <1>1
    <2>2. Len(seq) + 1 \in 1 .. Len(seq) + 1
        BY <1>1
    <2> QED BY <1>1, <1>2, <2>1, <2>2 DEF Members
<1> QED BY <1>1, <1>4, <1>5

----------------------------------------------------------------------------
(* Types *)

\* An open transaction has claimed a queued job.
LEMMA WorkingHolds ==
    ASSUME PipeInv, NEW w \in Workers, Working(w)
    PROVE  claim[w] \in jobs /\ claim[w] \in Changes /\ absorbed[w] \subseteq jobs
    BY DEF PipeInv, TypeOK, OneHolder, Locks

LEMMA ReachedIn == ASSUME NEW seq \in Seq(Keys) PROVE ReachedBy(seq) \subseteq Subs
<1>1. \A key \in Keys : Reached(key) \subseteq Subs
    BY DEF Reached, Keys
<1>2. Members(seq) \subseteq Keys
    BY DEF Members
<1> QED BY <1>1, <1>2 DEF ReachedBy

LEMMA ExceptType ==
    ASSUME NEW S, NEW T, NEW f \in [S -> T], NEW x, NEW y \in T
    PROVE  [f EXCEPT ![x] = y] \in [S -> T]
    OBVIOUS

LEMMA TypeInit == Init => TypeOK
    BY ChangesAssumption DEF Init, TypeOK

LEMMA TypeStep == PipeInv /\ [Next]_vars => TypeOK'
<1> SUFFICES ASSUME PipeInv, [Next]_vars PROVE TypeOK'
    OBVIOUS
<1> TypeOK
    BY DEF PipeInv
<1> USE ChangesAssumption, LimitsAssumption DEF queueVars, workerVars
<1>1. ASSUME NEW c \in Changes, Commit(c) PROVE TypeOK'
    BY <1>1, ReachedIn DEF TypeOK, Commit
<1>2. ASSUME NEW c \in Changes, Replay(c) PROVE TypeOK'
    BY <1>2 DEF TypeOK, Replay
<1>3. ASSUME NEW w \in Workers, Claim(w) PROVE TypeOK'
    <2>1. PICK c \in jobs : claim' = [claim EXCEPT ![w] = c]
        BY <1>3 DEF Claim
    <2>2. /\ pc' = [pc EXCEPT ![w] = "claimed"]
          /\ UNCHANGED <<committed, queueVars, absorbed, todo, published, deferred, held,
                         delivered, unheard, faults>>
        BY <1>3 DEF Claim
    <2>3. c \in Changes
        BY <2>1 DEF TypeOK
    <2> QED BY <2>1, <2>2, <2>3 DEF TypeOK
<1>4. ASSUME NEW w \in Workers, Absorb(w) PROVE TypeOK'
    <2>1. claim[w] \in Changes
        BY <1>4, WorkingHolds DEF Absorb, Working
    <2>2. Duplicates(w) \ Locked \subseteq Changes
        BY DEF TypeOK, Duplicates
    <2> QED BY <1>4, <2>1, <2>2 DEF TypeOK, Absorb
<1>5. ASSUME NEW w \in Workers, Acquire(w) PROVE TypeOK'
    BY <1>5 DEF TypeOK, Acquire
<1>6. ASSUME NEW w \in Workers, Suppress(w) PROVE TypeOK'
    <2>1. todo[w] \in Seq(Keys) /\ todo[w] # << >> /\ deferred[w] \in Seq(Keys)
        BY <1>6 DEF TypeOK, Suppress
    <2>2. Tail(todo[w]) \in Seq(Keys) /\ Append(deferred[w], Head(todo[w])) \in Seq(Keys)
        BY <2>1
    <2> QED BY <1>6, <2>2 DEF TypeOK, Suppress
<1>7. ASSUME NEW w \in Workers, Publish(w) PROVE TypeOK'
    <2>1. pc[w] = "acquired" /\ todo[w] \in Seq(Keys) /\ todo[w] # << >>
        BY <1>7 DEF TypeOK, Publish, PipeInv, WorkerInv, Trying, Split
    <2>2. Tail(todo[w]) \in Seq(Keys) /\ Head(todo[w]) \in Keys
        BY <2>1
    <2>3. /\ unheard' \subseteq unheard
          /\ published' = [published EXCEPT ![w] = @ \cup {Head(todo[w])}]
          /\ todo' = [todo EXCEPT ![w] = Tail(@)]
          /\ pc' = [pc EXCEPT ![w] = "publishing"]
          /\ UNCHANGED <<committed, queueVars, claim, absorbed, deferred, held, delivered, faults>>
        BY <1>7 DEF Publish
    <2>4. /\ published' \in [Workers -> SUBSET Keys] /\ todo' \in [Workers -> Seq(Keys)]
          /\ pc' \in [Workers -> {"idle", "claimed", "publishing", "acquired", "failing"}]
          /\ unheard' \subseteq Subs \X Changes
        BY <2>2, <2>3 DEF TypeOK
    <2> QED BY <2>3, <2>4 DEF TypeOK, queueVars
<1>8. ASSUME NEW w \in Workers, Finish(w) PROVE TypeOK'
    <2> DEFINE job == claim[w]
               left == IdsFor(HeldIds(w), Members(deferred[w]))
    <2>1. job \in Changes /\ absorbed[w] \subseteq Changes
        BY <1>8, WorkingHolds DEF Finish, Working, TypeOK
    <2>2. left \in SUBSET Notifs
        BY <2>1 DEF IdsFor, HeldIds, TypeOK
    <2>3. delivered' \in [Notifs -> Nat]
        BY <1>8 DEF Finish, TypeOK
    <2>4. jobs' \subseteq jobs
        BY <1>8 DEF Finish
    <2>5. targets' \in [Changes -> Seq(Keys)]
        <3>1. targets' = targets \/ targets' = [targets EXCEPT ![job] = deferred[w]]
            BY <1>8 DEF Finish
        <3>2. targets \in [Changes -> Seq(Keys)] /\ deferred[w] \in Seq(Keys)
            BY DEF TypeOK
        <3> QED BY <3>1, <3>2, ExceptType
    <2>6. ids' = ids \/ ids' = [ids EXCEPT ![job] = left]
        BY <1>8 DEF Finish
    <2>7. ids' \in [Changes -> SUBSET Notifs]
        <3>1. ids \in [Changes -> SUBSET Notifs]
            BY DEF TypeOK
        <3> HIDE DEF left
        <3> QED BY <2>2, <2>6, <3>1, ExceptType
    <2>8. run_in' \in [Changes -> Nat]
        <3>1. run_in' = run_in \/ run_in' = [run_in EXCEPT ![job] = Debounce]
            BY <1>8 DEF Finish
        <3>2. run_in \in [Changes -> Nat] /\ Debounce \in Nat
            BY DEF TypeOK
        <3> QED BY <3>1, <3>2, ExceptType
    <2>9. /\ pc' = [pc EXCEPT ![w] = "idle"] /\ Release(w)
          /\ UNCHANGED <<committed, attempts, dead_letters, held, unheard, faults>>
        BY <1>8 DEF Finish
    <2> QED BY <2>3, <2>4, <2>5, <2>7, <2>8, <2>9 DEF TypeOK, Release
<1>9. ASSUME NEW w \in Workers, Fail(w) PROVE TypeOK'
    BY <1>9 DEF TypeOK, Fail
<1>10. ASSUME NEW w \in Workers, FailJob(w) PROVE TypeOK'
    <2>1. /\ pc' = [pc EXCEPT ![w] = "idle"] /\ Release(w)
          /\ UNCHANGED <<committed, held, delivered, unheard, faults, targets, ids>>
        BY <1>10 DEF FailJob
    <2>2. CASE claim[w] \notin jobs
        BY <1>10, <2>1, <2>2 DEF TypeOK, FailJob, Release
    <2>3. CASE claim[w] \in jobs
        <3>1. attempts' \in [Changes -> Nat]
            <4>1. attempts' = [attempts EXCEPT ![claim[w]] = attempts[claim[w]] + 1]
                BY <1>10, <2>3 DEF FailJob
            <4>2. attempts \in [Changes -> Nat] /\ attempts[claim[w]] + 1 \in Nat
                BY <2>3 DEF TypeOK
            <4> QED BY <4>1, <4>2, ExceptType
        <3>2. run_in' \in [Changes -> Nat]
            <4>1. PICK backoff \in 1 .. BackoffCap :
                      run_in' = [run_in EXCEPT ![claim[w]] = backoff]
                BY <1>10, <2>3 DEF FailJob
            <4>2. run_in \in [Changes -> Nat] /\ backoff \in Nat
                BY DEF TypeOK
            <4> QED BY <4>1, <4>2, ExceptType
        <3>3. \/ jobs' = jobs \ {claim[w]} /\ dead_letters' = dead_letters \cup {claim[w]}
              \/ UNCHANGED <<jobs, dead_letters>>
            BY <1>10, <2>3 DEF FailJob
        <3>4. /\ pc' \in [Workers -> {"idle", "claimed", "publishing", "acquired", "failing"}]
              /\ claim' \in [Workers -> Changes \cup {NoJob}]
              /\ absorbed' \in [Workers -> SUBSET Changes]
              /\ todo' \in [Workers -> Seq(Keys)] /\ deferred' \in [Workers -> Seq(Keys)]
              /\ published' \in [Workers -> SUBSET Keys]
            BY <2>1 DEF TypeOK, Release
        <3>5. jobs' \subseteq committed' /\ dead_letters' \subseteq committed' \ jobs'
            BY <2>1, <2>3, <3>3 DEF TypeOK
        <3> QED BY <2>1, <3>1, <3>2, <3>4, <3>5 DEF TypeOK
    <2> QED BY <2>2, <2>3
<1>11. ASSUME NEW w \in Workers, Crash(w) PROVE TypeOK'
    BY <1>11 DEF TypeOK, Crash, Release
<1>12. ASSUME NEW k \in Keys, LoseKey(k) PROVE TypeOK'
    BY <1>12 DEF TypeOK, LoseKey
<1>13. CASE Tick
    BY <1>13 DEF TypeOK, Tick, Less
<1>14. CASE UNCHANGED vars
    BY <1>14 DEF TypeOK, vars
<1> QED BY <1>1, <1>2, <1>3, <1>4, <1>5, <1>6, <1>7, <1>8, <1>9, <1>10, <1>11, <1>12, <1>13, <1>14
        DEF Next, Work

----------------------------------------------------------------------------
(* Workers *)

\* All a worker knows.
Mind(v) == <<pc[v], claim[v], absorbed[v], todo[v], published[v], deferred[v]>>

LEMMA SameLocks ==
    ASSUME NEW v \in Workers, UNCHANGED Mind(v)
    PROVE  Locks(v)' = Locks(v)
    BY DEF Mind, Locks, Working

LEMMA SameWorker ==
    ASSUME NEW v \in Workers, UNCHANGED Mind(v), WorkerInv(v),
           \A c \in Locks(v) : targets'[c] = targets[c]
    PROVE  WorkerInv(v)'
<1>1. CASE Trying(v)
    <2>1. Trying(v)' /\ Split(v)
        BY <1>1 DEF Mind, Trying, WorkerInv
    <2>2. Locks(v) = {claim[v]} \cup absorbed[v]
        BY <1>1 DEF Trying, Locks, Working
    <2>3. targets'[claim[v]] = targets[claim[v]]
        BY <2>2
    <2>4. \A d \in absorbed[v] : targets'[d] = targets'[claim[v]]
        BY <2>1, <2>2, <2>3 DEF Split
    <2>5. Split(v)'
        BY <2>1, <2>3, <2>4 DEF Mind, Split
    <2> QED BY <2>1, <2>5 DEF WorkerInv
<1>2. CASE ~Trying(v)
    BY <1>2 DEF Mind, Trying, WorkerInv, Empty
<1> QED BY <1>1, <1>2

\* A step of one worker is a step of no other.
LEMMA OneWorker ==
    ASSUME PipeInv, NEW w \in Workers, Work(w) \/ Fail(w) \/ Crash(w)
    PROVE  \A v \in Workers \ {w} : UNCHANGED Mind(v)
<1> USE DEF PipeInv, TypeOK, Mind, workerVars
<1>1. CASE Claim(w)
    BY <1>1 DEF Claim
<1>2. CASE Absorb(w)
    BY <1>2 DEF Absorb
<1>3. CASE Acquire(w)
    BY <1>3 DEF Acquire
<1>4. CASE Suppress(w)
    BY <1>4 DEF Suppress
<1>5. CASE Publish(w)
    BY <1>5 DEF Publish
<1>6. CASE Finish(w) \/ FailJob(w) \/ Crash(w)
    <2>1. pc' = [pc EXCEPT ![w] = "idle"] /\ Release(w)
        BY <1>6 DEF Finish, FailJob, Crash
    <2> QED BY <2>1 DEF Release
<1>7. CASE Fail(w)
    BY <1>7 DEF Fail
<1> QED BY <1>1, <1>2, <1>3, <1>4, <1>5, <1>6, <1>7 DEF Work

\* What the step of a worker does to its own mind.
LEMMA Released ==
    ASSUME PipeInv, NEW w \in Workers, Finish(w) \/ FailJob(w) \/ Crash(w) \/ Fail(w)
    PROVE  pc'[w] \in {"idle", "failing"} /\ Empty(w)' /\ Locks(w)' = {} /\ WorkerInv(w)'
<1>1. pc'[w] \in {"idle", "failing"}
    BY DEF PipeInv, TypeOK, Finish, FailJob, Crash, Fail
<1>2. Empty(w)'
    <2>1. CASE Fail(w)
        BY <2>1 DEF PipeInv, TypeOK, Fail, Empty
    <2>2. CASE Release(w)
        BY <2>2 DEF PipeInv, TypeOK, Release, Empty
    <2> QED BY <2>1, <2>2 DEF Finish, FailJob, Crash
<1>3. Locks(w)' = {}
    BY <1>1 DEF Locks, Working
<1> QED BY <1>1, <1>2, <1>3 DEF WorkerInv, Trying

LEMMA Claimed ==
    ASSUME PipeInv, NEW w \in Workers, Claim(w)
    PROVE  \E c \in jobs \ Locked : Locks(w)' = {c} /\ WorkerInv(w)'
<1>1. PICK c \in jobs \ Locked : claim' = [claim EXCEPT ![w] = c]
    BY DEF Claim
<1>2. claim'[w] = c /\ pc'[w] = "claimed"
    BY <1>1 DEF PipeInv, TypeOK, Claim
<1>3. Empty(w)
    BY DEF PipeInv, WorkerInv, Trying, Claim
<1>4. Empty(w)' /\ absorbed'[w] = {}
    BY <1>3 DEF Claim, Empty
<1> QED BY <1>2, <1>4 DEF Locks, Working, WorkerInv, Trying

LEMMA Absorbed ==
    ASSUME PipeInv, NEW w \in Workers, Absorb(w)
    PROVE  /\ Locks(w)' = {claim[w]} \cup (Duplicates(w) \ Locked)
           /\ WorkerInv(w)'
<1>1. /\ pc'[w] = "publishing" /\ claim'[w] = claim[w]
      /\ absorbed'[w] = Duplicates(w) \ Locked
      /\ todo'[w] = targets[claim[w]]
      /\ UNCHANGED <<targets, published, deferred>>
    BY DEF PipeInv, TypeOK, Absorb, queueVars
<1>2. Locks(w)' = {claim[w]} \cup (Duplicates(w) \ Locked)
    BY <1>1 DEF Locks, Working
<1>3. Empty(w)
    BY DEF PipeInv, WorkerInv, Trying, Absorb
<1>4. claim[w] \in Changes
    BY WorkingHolds DEF Absorb, Working
<1>5. Distinct(targets[claim[w]])
    BY <1>4 DEF PipeInv, QueueInv
<1>6. /\ \A d \in absorbed'[w] : targets'[d] = targets'[claim'[w]]
      /\ claim'[w] \notin absorbed'[w]
    BY <1>1 DEF Duplicates, SameHint
<1>7. published'[w] = {} /\ deferred'[w] = << >>
    BY <1>1, <1>3 DEF Empty
<1>8. Split(w)'
    <2>1. Members(deferred'[w]) = {} /\ Distinct(deferred'[w])
        BY <1>7, EmptyMembers
    <2>2. Distinct(todo'[w]) /\ todo'[w] = targets'[claim'[w]]
        BY <1>1, <1>5
    <2> QED BY <1>1, <1>6, <1>7, <2>1, <2>2 DEF Split, Members, Distinct
<1> QED BY <1>1, <1>2, <1>8 DEF WorkerInv, Trying

\* At its targets a worker keeps its rows, and each target is tried once.
LEMMA Tried ==
    ASSUME PipeInv, NEW w \in Workers, Acquire(w) \/ Suppress(w) \/ Publish(w)
    PROVE  Locks(w)' = Locks(w) /\ WorkerInv(w)'
<1>1. Trying(w) /\ Split(w) /\ Working(w)
    BY DEF Acquire, Suppress, Publish, Trying, Working, PipeInv, WorkerInv
<1>2. todo[w] # << >>
    BY <1>1 DEF Acquire, Suppress, Publish, Split
<1>3. /\ todo[w] \in Seq(Keys) /\ deferred[w] \in Seq(Keys) /\ published[w] \subseteq Keys
      /\ pc \in [Workers -> {"idle", "claimed", "publishing", "acquired", "failing"}]
    BY DEF PipeInv, TypeOK
<1>4. UNCHANGED <<claim, absorbed, targets>>
    BY DEF Acquire, Suppress, Publish, queueVars
<1>5. Trying(w)' /\ Working(w)'
    BY <1>1, <1>3 DEF Acquire, Suppress, Publish, Trying, Working
<1>6. Locks(w)' = Locks(w)
    BY <1>1, <1>4, <1>5 DEF Locks
<1> DEFINE key == Head(todo[w])
<1>7. /\ key \in Members(todo[w]) /\ key \in Keys
      /\ Members(Tail(todo[w])) = Members(todo[w]) \ {key}
      /\ Distinct(Tail(todo[w]))
    BY <1>1, <1>2, <1>3, TailMembers DEF Split
<1>8. CASE Acquire(w)
    <2>1. UNCHANGED <<todo, published, deferred>>
        BY <1>8 DEF Acquire
    <2> QED BY <1>1, <1>2, <1>4, <1>5, <1>6, <2>1 DEF Split, WorkerInv
<1>9. CASE Suppress(w)
    <2>1. /\ todo'[w] = Tail(todo[w]) /\ deferred'[w] = Append(deferred[w], key)
          /\ published'[w] = published[w] /\ pc'[w] = "publishing"
        BY <1>9 DEF Suppress, PipeInv, TypeOK
    <2>2. key \notin Members(deferred[w])
        BY <1>1, <1>7 DEF Split
    <2>3. /\ Members(Append(deferred[w], key)) = Members(deferred[w]) \cup {key}
          /\ Distinct(Append(deferred[w], key))
        BY <1>1, <1>3, <1>7, <2>2, AppendMembers DEF Split
    <2>4. /\ Members(todo'[w]) = Members(todo[w]) \ {key}
          /\ Members(deferred'[w]) = Members(deferred[w]) \cup {key}
          /\ Distinct(todo'[w]) /\ Distinct(deferred'[w])
        <3> HIDE DEF key
        <3> QED BY <1>7, <2>1, <2>3
    <2>5. Members(targets'[claim'[w]]) = Members(targets[claim[w]])
        BY <1>4
    <2>6. Split(w)'
        <3> HIDE DEF key
        <3>1. /\ Members(targets[claim[w]])
                     = Members(todo[w]) \cup Members(deferred[w]) \cup published[w]
              /\ Members(todo[w]) \cap (Members(deferred[w]) \cup published[w]) = {}
              /\ Members(deferred[w]) \cap published[w] = {}
              /\ claim[w] \notin absorbed[w]
              /\ \A d \in absorbed[w] : targets[d] = targets[claim[w]]
            BY <1>1 DEF Split
        <3>2. /\ Members(targets'[claim'[w]])
                     = Members(todo'[w]) \cup Members(deferred'[w]) \cup published'[w]
              /\ Members(todo'[w]) \cap (Members(deferred'[w]) \cup published'[w]) = {}
              /\ Members(deferred'[w]) \cap published'[w] = {}
            BY <1>7, <2>1, <2>4, <2>5, <3>1
        <3> QED BY <1>4, <2>1, <2>4, <3>1, <3>2 DEF Split
    <2> QED BY <1>5, <1>6, <2>6 DEF WorkerInv
<1>10. CASE Publish(w)
    <2>1. /\ todo'[w] = Tail(todo[w]) /\ deferred'[w] = deferred[w]
          /\ published'[w] = published[w] \cup {key} /\ pc'[w] = "publishing"
        BY <1>10 DEF Publish, PipeInv, TypeOK
    <2>2. Members(todo'[w]) = Members(todo[w]) \ {key} /\ Distinct(todo'[w])
        <3> HIDE DEF key
        <3> QED BY <1>7, <2>1
    <2>3. Split(w)'
        <3> HIDE DEF key
        <3>1. /\ Members(targets[claim[w]])
                     = Members(todo[w]) \cup Members(deferred[w]) \cup published[w]
              /\ Members(todo[w]) \cap (Members(deferred[w]) \cup published[w]) = {}
              /\ Members(deferred[w]) \cap published[w] = {}
              /\ Distinct(deferred[w])
              /\ claim[w] \notin absorbed[w]
              /\ \A d \in absorbed[w] : targets[d] = targets[claim[w]]
            BY <1>1 DEF Split
        <3>2. /\ Members(targets'[claim'[w]]) = Members(targets[claim[w]])
              /\ Members(deferred'[w]) = Members(deferred[w]) /\ Distinct(deferred'[w])
            BY <1>4, <2>1, <3>1
        <3>3. /\ Members(targets'[claim'[w]])
                     = Members(todo'[w]) \cup Members(deferred'[w]) \cup published'[w]
              /\ Members(todo'[w]) \cap (Members(deferred'[w]) \cup published'[w]) = {}
              /\ Members(deferred'[w]) \cap published'[w] = {}
            BY <1>7, <2>1, <2>2, <3>1, <3>2
        <3> QED BY <1>4, <2>1, <2>2, <3>1, <3>2, <3>3 DEF Split
    <2> QED BY <1>5, <1>6, <2>3 DEF WorkerInv
<1> QED BY <1>8, <1>9, <1>10

----------------------------------------------------------------------------
(* One holder per row *)

\* A step that leaves all workers alone.
LEMMA NobodyMoves ==
    ASSUME PipeInv, UNCHANGED workerVars, jobs \subseteq jobs', UNCHANGED targets
    PROVE  OneHolder' /\ \A w \in Workers : WorkerInv(w)'
<1>1. \A w \in Workers : UNCHANGED Mind(w)
    BY DEF Mind, workerVars
<1>2. \A w \in Workers : Locks(w)' = Locks(w)
    BY <1>1, SameLocks
<1>3. OneHolder'
    BY <1>2 DEF PipeInv, OneHolder
<1>4. \A w \in Workers : WorkerInv(w)'
    BY <1>1, SameWorker DEF PipeInv
<1> QED BY <1>3, <1>4

\* The rest of the queue is as it was after a worker is done with its rows.
LEMMA FinishKeeps ==
    ASSUME PipeInv, NEW w \in Workers, Finish(w)
    PROVE  /\ jobs \ Locks(w) \subseteq jobs' /\ jobs' \subseteq jobs
           /\ claim[w] \in Locks(w) /\ absorbed[w] \subseteq Locks(w)
           /\ Locks(w) = {claim[w]} \cup absorbed[w]
           /\ Locks(w) \subseteq jobs
           /\ \A c \in Changes \ {claim[w]} : targets'[c] = targets[c] /\ ids'[c] = ids[c]
<1>1. Locks(w) = {claim[w]} \cup absorbed[w]
    BY DEF Finish, Locks, Working
<1>2. jobs' = jobs \ ({claim[w]} \cup absorbed[w]) \/ jobs' = jobs \ absorbed[w]
    BY DEF Finish
<1>3. ASSUME NEW c \in Changes, c # claim[w]
      PROVE  targets'[c] = targets[c] /\ ids'[c] = ids[c]
    <2>1. \/ UNCHANGED <<targets, ids>>
          \/ \E some, left : /\ targets' = [targets EXCEPT ![claim[w]] = some]
                             /\ ids' = [ids EXCEPT ![claim[w]] = left]
        BY DEF Finish
    <2> QED BY <1>3, <2>1 DEF PipeInv, TypeOK
<1>4. Locks(w) \subseteq jobs
    BY DEF PipeInv, OneHolder
<1> QED BY <1>1, <1>2, <1>3, <1>4

LEMMA HolderStep ==
    PipeInv /\ [Next]_vars => OneHolder' /\ \A w \in Workers : WorkerInv(w)'
<1> SUFFICES ASSUME PipeInv, [Next]_vars
             PROVE  OneHolder' /\ \A w \in Workers : WorkerInv(w)'
    OBVIOUS
<1>1. ASSUME NEW c \in Changes, Commit(c) \/ Replay(c)
      PROVE  OneHolder' /\ \A w \in Workers : WorkerInv(w)'
    <2>1. UNCHANGED <<workerVars, targets>> /\ jobs \subseteq jobs'
        BY <1>1 DEF Commit, Replay
    <2> QED BY <2>1, NobodyMoves
<1>2. CASE Tick \/ (\E k \in Keys : LoseKey(k)) \/ UNCHANGED vars
    <2>1. UNCHANGED <<workerVars, targets, jobs>>
        BY <1>2 DEF Tick, LoseKey, queueVars, vars
    <2> QED BY <2>1, NobodyMoves
<1>3. ASSUME NEW w \in Workers, Work(w) \/ Fail(w) \/ Crash(w)
      PROVE  OneHolder' /\ \A v \in Workers : WorkerInv(v)'
    <2>1. \A v \in Workers \ {w} : UNCHANGED Mind(v)
        BY <1>3, OneWorker
    <2>2. \A v \in Workers \ {w} : Locks(v)' = Locks(v) /\ Locks(v) \subseteq jobs
        BY <2>1, SameLocks DEF PipeInv, OneHolder
    <2>3. \A v, u \in Workers : v # u => Locks(v) \cap Locks(u) = {}
        BY DEF PipeInv, OneHolder
    <2>4. \A v \in Workers : Locks(v) \subseteq Changes
        BY DEF PipeInv, OneHolder, TypeOK
    \* Rows are given back, or none that another worker holds is taken.
    <2>5. ASSUME Locks(w)' \subseteq jobs', \A v \in Workers \ {w} : Locks(v) \cap Locks(w)' = {},
                 \A v \in Workers \ {w} : Locks(v) \subseteq jobs'
          PROVE  OneHolder'
        BY <2>2, <2>3, <2>5 DEF OneHolder
    <2>6. ASSUME WorkerInv(w)',
                 \A v \in Workers \ {w} : \A c \in Locks(v) : targets'[c] = targets[c]
          PROVE  \A v \in Workers : WorkerInv(v)'
        <3>1. ASSUME NEW v \in Workers \ {w} PROVE WorkerInv(v)'
            BY <2>1, <2>6, SameWorker DEF PipeInv
        <3> QED BY <2>6, <3>1
    <2>7. CASE Claim(w)
        <3>1. PICK c \in jobs \ Locked : Locks(w)' = {c} /\ WorkerInv(w)'
            BY <2>7, Claimed
        <3>2. \A v \in Workers : c \notin Locks(v)
            BY <3>1 DEF Locked
        <3>3. UNCHANGED <<jobs, targets>>
            BY <2>7 DEF Claim, queueVars
        <3> QED BY <2>2, <2>5, <2>6, <3>1, <3>2, <3>3
    <2>8. CASE Absorb(w)
        <3>1. Locks(w)' = {claim[w]} \cup (Duplicates(w) \ Locked) /\ WorkerInv(w)'
            BY <2>8, Absorbed
        <3>2. claim[w] \in Locks(w) /\ claim[w] \in jobs
            BY <2>8, WorkingHolds DEF Absorb, Locks, Working
        <3>3. \A v \in Workers : Locks(v) \subseteq Locked
            BY DEF Locked
        <3>4. Duplicates(w) \subseteq jobs
            BY DEF Duplicates
        <3>5. UNCHANGED <<jobs, targets>>
            BY <2>8 DEF Absorb, queueVars
        <3>6. \A v \in Workers \ {w} : Locks(v) \cap Locks(w)' = {}
            BY <2>3, <3>1, <3>2, <3>3
        <3> QED BY <2>2, <2>5, <2>6, <3>1, <3>2, <3>4, <3>5, <3>6
    <2>9. CASE Acquire(w) \/ Suppress(w) \/ Publish(w)
        <3>1. Locks(w)' = Locks(w) /\ WorkerInv(w)'
            BY <2>9, Tried
        <3>2. UNCHANGED <<jobs, targets>>
            BY <2>9 DEF Acquire, Suppress, Publish, queueVars
        <3>3. Locks(w) \subseteq jobs
            BY DEF PipeInv, OneHolder
        <3> QED BY <2>2, <2>3, <2>5, <2>6, <3>1, <3>2, <3>3
    <2>10. CASE Fail(w) \/ Crash(w)
        <3>1. Locks(w)' = {} /\ WorkerInv(w)'
            BY <2>10, Released
        <3>2. UNCHANGED <<jobs, targets>>
            BY <2>10 DEF Fail, Crash, queueVars
        <3> QED BY <2>2, <2>5, <2>6, <3>1, <3>2
    <2>11. CASE FailJob(w)
        <3>1. Locks(w)' = {} /\ WorkerInv(w)'
            BY <2>11, Released
        <3>2. UNCHANGED targets /\ jobs \ {claim[w]} \subseteq jobs' /\ claim[w] \notin Locked
            BY <2>11 DEF FailJob, queueVars
        <3>3. \A v \in Workers : claim[w] \notin Locks(v)
            BY <3>2 DEF Locked
        <3> QED BY <2>2, <2>5, <2>6, <3>1, <3>2, <3>3
    <2>12. CASE Finish(w)
        <3>1. Locks(w)' = {} /\ WorkerInv(w)'
            BY <2>12, Released
        <3>2. \A v \in Workers \ {w} : Locks(v) \subseteq jobs'
            BY <2>2, <2>3, <2>12, FinishKeeps
        <3>3. \A v \in Workers \ {w} : \A c \in Locks(v) : targets'[c] = targets[c]
            BY <2>3, <2>4, <2>12, FinishKeeps
        <3> QED BY <2>5, <2>6, <3>1, <3>2, <3>3
    <2> QED BY <1>3, <2>7, <2>8, <2>9, <2>10, <2>11, <2>12 DEF Work
<1> QED BY <1>1, <1>2, <1>3 DEF Next

\* What a worker puts off names no target twice, and what it still announces is
\* addressed to those.
LEMMA QueueStep == PipeInv /\ [Next]_vars => QueueInv'
<1> SUFFICES ASSUME PipeInv, [Next]_vars PROVE QueueInv'
    OBVIOUS
<1>1. CASE \E w \in Workers : Finish(w)
    <2>1. PICK w \in Workers : Finish(w)
        BY <1>1
    <2> DEFINE job == claim[w]
    <2>2. \A c \in Changes \ {job} : targets'[c] = targets[c] /\ ids'[c] = ids[c]
        BY <2>1, FinishKeeps
    <2>3. job \in Changes /\ job \in committed
        BY <2>1, WorkingHolds DEF Finish, Working, PipeInv, TypeOK
    <2>4. UNCHANGED committed
        BY <2>1 DEF Finish
    <2>5. \/ targets'[job] = targets[job] /\ ids'[job] = ids[job]
          \/ /\ targets'[job] = deferred[w]
             /\ ids'[job] = IdsFor(HeldIds(w), Members(deferred[w]))
        BY <2>1, <2>3 DEF Finish, PipeInv, TypeOK
    <2>6. Distinct(deferred[w])
        BY <2>1 DEF Finish, PipeInv, WorkerInv, Trying, Split
    <2>7. Distinct(targets'[job]) /\ \A n \in ids'[job] : RecipientOf[n] \in Members(targets'[job])
        <3>1. CASE targets'[job] = targets[job] /\ ids'[job] = ids[job]
            BY <2>3, <3>1 DEF PipeInv, QueueInv
        <3>2. CASE /\ targets'[job] = deferred[w]
                   /\ ids'[job] = IdsFor(HeldIds(w), Members(deferred[w]))
            <4>1. \A n \in ids'[job] : RecipientOf[n] \in Members(deferred[w])
                BY <3>2 DEF IdsFor
            <4> QED BY <2>6, <3>2, <4>1
        <3> QED BY <2>5, <3>1, <3>2
    <2>8. ASSUME NEW c \in Changes
          PROVE  /\ Distinct(targets'[c])
                 /\ \A n \in ids'[c] : RecipientOf[n] \in Members(targets'[c])
        <3>1. CASE c = job
            BY <2>7, <3>1
        <3>2. CASE c # job
            BY <2>2, <3>2 DEF PipeInv, QueueInv
        <3> QED BY <3>1, <3>2
    <2>9. \A c \in Changes \ committed' : targets'[c] = TargetsOf[c] /\ ids'[c] = IdsOf[c]
        BY <2>2, <2>3, <2>4 DEF PipeInv, QueueInv
    <2> QED BY <2>8, <2>9 DEF QueueInv
<1>2. CASE ~\E w \in Workers : Finish(w)
    <2>1. UNCHANGED <<targets, ids>> /\ committed \subseteq committed'
        BY <1>2 DEF Next, Work, Commit, Replay, Claim, Absorb, Acquire, Suppress, Publish, Fail,
                    FailJob, Crash, LoseKey, Tick, vars, queueVars
    <2> QED BY <2>1 DEF PipeInv, QueueInv
<1> QED BY <1>1, <1>2

LEMMA PipeInit == Init => PipeInv
<1> SUFFICES ASSUME Init PROVE PipeInv
    OBVIOUS
<1>1. \A w \in Workers : Locks(w) = {}
    BY DEF Init, Locks, Working
<1>2. \A w \in Workers : WorkerInv(w)
    BY DEF Init, WorkerInv, Trying, Empty
<1>3. \A c \in Changes : Distinct(TargetsOf[c])
    <2> SUFFICES ASSUME NEW c \in Changes PROVE Distinct(TargetsOf[c])
        OBVIOUS
    <2>1. CASE TargetsOf[c] = <<Everyone>>
        BY <2>1 DEF Distinct
    <2> QED BY <2>1, ChangesAssumption DEF Distinct
<1>4. \A c \in Changes : \A n \in IdsOf[c] : RecipientOf[n] \in Members(TargetsOf[c])
    BY ChangesAssumption DEF Members
<1>5. QueueInv
    BY <1>3, <1>4 DEF Init, QueueInv
<1>6. OneHolder
    BY <1>1 DEF OneHolder
<1> QED BY <1>2, <1>5, <1>6, TypeInit DEF PipeInv

LEMMA PipeStep == PipeInv /\ [Next]_vars => PipeInv'
    BY TypeStep, HolderStep, QueueStep DEF PipeInv

----------------------------------------------------------------------------
(* No hint is lost *)

Live == jobs \cup dead_letters

ReachedFrom(keys) == UNION {Reached(key) : key \in keys}

\* The hint of a job is still to be published to a subscriber: nobody who has
\* the row has done so in the transaction that is open.
Pending(c, s) ==
    /\ s \in ReachedBy(targets[c])
    /\ \A w \in Workers : c \in Locks(w) => s \notin ReachedFrom(published[w])

HintInv == \A u \in unheard : \E c \in Live : Pending(c, u[1])

\* A step takes no row whose subscribers the worker has published to already,
\* and publishes to nobody who has still not heard.
NoWorse(v) ==
    \A c \in Locks(v)' : \A u \in unheard' :
        \/ u[1] \notin ReachedFrom(published[v])'
        \/ c \in Locks(v) /\ u[1] \in ReachedFrom(published[v])

\* A worker that tries no target has published to nobody.
LEMMA NothingPublished ==
    ASSUME PipeInv, NEW w \in Workers, ~Trying(w)
    PROVE  published[w] = {} /\ ReachedFrom(published[w]) = {}
    BY DEF PipeInv, WorkerInv, Empty, ReachedFrom

LEMMA SameNoWorse ==
    ASSUME NEW v \in Workers, UNCHANGED Mind(v)
    PROVE  NoWorse(v)
    BY SameLocks DEF Mind, NoWorse, ReachedFrom

\* The hints that wait, wait on.
LEMMA PendingKept ==
    ASSUME HintInv, \A v \in Workers : NoWorse(v), NEW u \in unheard, u \in unheard',
           NEW c \in Live, Pending(c, u[1]), targets'[c] = targets[c]
    PROVE  Pending(c, u[1])'
<1>1. u[1] \in ReachedBy(targets[c])'
    BY DEF Pending, ReachedBy, Members
<1>2. ASSUME NEW v \in Workers, c \in Locks(v)'
      PROVE  u[1] \notin ReachedFrom(published[v])'
    BY <1>2 DEF Pending, NoWorse
<1> QED BY <1>1, <1>2 DEF Pending

LEMMA HintKept ==
    ASSUME HintInv, \A v \in Workers : NoWorse(v), UNCHANGED targets,
           Live \subseteq Live', unheard' \subseteq unheard
    PROVE  HintInv'
<1> SUFFICES ASSUME NEW u \in unheard' PROVE \E c \in Live' : Pending(c, u[1])'
    BY DEF HintInv
<1>1. PICK c \in Live : Pending(c, u[1])
    BY DEF HintInv
<1> QED BY <1>1, PendingKept

\* The targets that are put off are those the job still has to reach.
LEMMA FinishedPending ==
    ASSUME PipeInv, NEW w \in Workers, Finish(w), NEW c \in Locks(w), NEW s, Pending(c, s)
    PROVE  claim[w] \in jobs' /\ s \in ReachedBy(deferred[w]) /\ targets'[claim[w]] = deferred[w]
<1>1. Trying(w) /\ Split(w) /\ todo[w] = << >>
    BY DEF Finish, Trying, PipeInv, WorkerInv
<1>2. claim[w] \in Changes /\ claim[w] \in jobs /\ claim[w] \notin absorbed[w]
    BY <1>1, WorkingHolds DEF Finish, Working, Split
<1>3. targets[c] = targets[claim[w]]
    BY <1>1, FinishKeeps DEF Split
<1>4. s \in ReachedFrom(Members(targets[claim[w]])) /\ s \notin ReachedFrom(published[w])
    BY <1>3 DEF Pending, ReachedBy, ReachedFrom
<1>5. Members(targets[claim[w]]) = Members(deferred[w]) \cup published[w]
    BY <1>1, EmptyMembers DEF Split
<1>6. s \in ReachedBy(deferred[w])
    BY <1>4, <1>5 DEF ReachedFrom, ReachedBy
<1>7. deferred[w] # << >>
    BY <1>6, EmptyMembers DEF ReachedBy
<1>8. jobs' = jobs \ absorbed[w] /\ targets' = [targets EXCEPT ![claim[w]] = deferred[w]]
    BY <1>7 DEF Finish
<1> QED BY <1>2, <1>6, <1>8 DEF PipeInv, TypeOK

LEMMA HintStep == PipeInv /\ HintInv /\ [Next]_vars => HintInv'
<1> SUFFICES ASSUME PipeInv, HintInv, [Next]_vars PROVE HintInv'
    OBVIOUS
<1>1. ASSUME UNCHANGED workerVars PROVE \A v \in Workers : NoWorse(v)
    BY <1>1, SameNoWorse DEF Mind, workerVars
<1>2. ASSUME NEW c \in Changes, Commit(c) PROVE HintInv'
    <2>1. /\ UNCHANGED <<workerVars, targets, dead_letters>>
          /\ jobs' = jobs \cup {c} /\ c \notin committed
          /\ unheard' = unheard \cup {<<s, c>> : s \in ReachedBy(TargetsOf[c])}
        BY <1>2 DEF Commit
    <2>2. \A v \in Workers : NoWorse(v)
        BY <1>1, <2>1
    <2>3. targets[c] = TargetsOf[c]
        BY <2>1 DEF PipeInv, QueueInv
    <2>4. \A v \in Workers : c \notin Locks(v)
        BY <2>1 DEF PipeInv, TypeOK, OneHolder
    <2>5. \A v \in Workers : UNCHANGED Mind(v)
        BY <2>1 DEF Mind, workerVars
    <2>6. \A v \in Workers : c \notin Locks(v)'
        BY <2>4, <2>5, SameLocks
    <2>7. ASSUME NEW s \in ReachedBy(TargetsOf[c]) PROVE Pending(c, s)'
        BY <2>1, <2>3, <2>6 DEF Pending
    <2>8. Live' = Live \cup {c}
        BY <2>1 DEF Live
    <2>9. ASSUME NEW u \in unheard' PROVE \E d \in Live' : Pending(d, u[1])'
        <3>1. CASE u \in unheard
            <4>1. PICK d \in Live : Pending(d, u[1])
                BY <3>1 DEF HintInv
            <4> QED BY <2>1, <2>2, <2>8, <3>1, <4>1, PendingKept
        <3>2. CASE u \notin unheard
            <4>1. PICK s \in ReachedBy(TargetsOf[c]) : u = <<s, c>>
                BY <2>1, <3>2
            <4>2. Pending(c, s)' /\ u[1] = s
                BY <2>7, <4>1
            <4> QED BY <2>8, <4>2
        <3> QED BY <3>1, <3>2
    <2> QED BY <2>9 DEF HintInv
<1>3. CASE (\E c \in Changes : Replay(c)) \/ Tick \/ (\E k \in Keys : LoseKey(k)) \/ UNCHANGED vars
    <2>1. UNCHANGED <<workerVars, targets, unheard>> /\ Live \subseteq Live'
        BY <1>3 DEF Replay, Tick, LoseKey, vars, queueVars, Live
    <2> QED BY <1>1, <2>1, HintKept
<1>4. ASSUME NEW w \in Workers, Work(w) \/ Fail(w) \/ Crash(w) PROVE HintInv'
    <2>1. \A v \in Workers \ {w} : UNCHANGED Mind(v)
        BY <1>4, OneWorker
    <2>2. \A v \in Workers \ {w} : NoWorse(v)
        BY <2>1, SameNoWorse
    <2>3. ASSUME NoWorse(w), UNCHANGED <<targets, jobs, dead_letters>>, unheard' \subseteq unheard
          PROVE  HintInv'
        BY <2>2, <2>3, HintKept DEF Live
    <2>4. CASE Claim(w) \/ Absorb(w)
        <3>1. UNCHANGED <<targets, jobs, dead_letters, unheard, published>> /\ ~Trying(w)
            BY <2>4 DEF Claim, Absorb, queueVars, Trying
        <3>2. ReachedFrom(published[w])' = {}
            BY <3>1, NothingPublished DEF ReachedFrom
        <3> QED BY <2>3, <3>1, <3>2 DEF NoWorse
    <2>5. CASE Acquire(w) \/ Suppress(w)
        <3>1. UNCHANGED <<targets, jobs, dead_letters, unheard, published>>
            BY <2>5 DEF Acquire, Suppress, queueVars
        <3>2. Locks(w)' = Locks(w)
            BY <2>5, Tried
        <3>3. NoWorse(w)
            BY <3>1, <3>2 DEF NoWorse, ReachedFrom
        <3> QED BY <2>3, <3>1, <3>3
    <2>6. CASE Publish(w)
        <3> DEFINE key == Head(todo[w])
        <3>1. UNCHANGED <<targets, jobs, dead_letters>>
            BY <2>6 DEF Publish, queueVars
        <3>2. /\ unheard' = {u \in unheard : u[1] \notin Reached(key)}
              /\ published'[w] = published[w] \cup {key}
            BY <2>6 DEF Publish, PipeInv, TypeOK
        <3>3. Locks(w)' = Locks(w)
            BY <2>6, Tried
        <3>4. ReachedFrom(published[w])' = ReachedFrom(published[w]) \cup Reached(key)
            <4> HIDE DEF key
            <4> QED BY <3>2 DEF ReachedFrom
        <3>5. NoWorse(w)
            <4> HIDE DEF key
            <4> QED BY <3>2, <3>3, <3>4 DEF NoWorse
        <3> QED BY <2>3, <3>1, <3>2, <3>5
    <2>7. CASE Fail(w) \/ Crash(w)
        <3>1. UNCHANGED <<targets, jobs, dead_letters, unheard>>
            BY <2>7 DEF Fail, Crash, queueVars
        <3>2. Locks(w)' = {}
            BY <2>7, Released
        <3> QED BY <2>3, <3>1, <3>2 DEF NoWorse
    <2>8. CASE FailJob(w)
        <3>1. UNCHANGED <<targets, unheard>> /\ Live \subseteq Live'
            BY <2>8 DEF FailJob, queueVars, Live
        <3>2. Locks(w)' = {}
            BY <2>8, Released
        <3>3. NoWorse(w)
            BY <3>2 DEF NoWorse
        <3> QED BY <2>2, <3>1, <3>3, HintKept
    <2>9. CASE Finish(w)
        <3>1. UNCHANGED <<unheard, dead_letters>> /\ Locks(w)' = {}
            BY <2>9, Released DEF Finish
        <3>2. \A v \in Workers : NoWorse(v)
            BY <2>2, <3>1 DEF NoWorse
        <3>3. ASSUME NEW u \in unheard' PROVE \E d \in Live' : Pending(d, u[1])'
            <4>1. PICK c \in Live : Pending(c, u[1])
                BY <3>1 DEF HintInv
            <4>2. CASE c \in Locks(w)
                <5>1. PICK job : job = claim[w]
                    OBVIOUS
                <5>2. /\ job \in jobs' /\ u[1] \in ReachedBy(deferred[w])
                      /\ targets'[job] = deferred[w]
                    BY <2>9, <4>1, <4>2, <5>1, FinishedPending
                <5>3. job \in Locks(w)
                    BY <2>9, <5>1, FinishKeeps
                <5>4. \A v \in Workers : job \notin Locks(v)'
                    BY <2>1, <3>1, <5>3, SameLocks DEF PipeInv, OneHolder
                <5>5. Pending(job, u[1])'
                    BY <5>2, <5>4 DEF Pending
                <5> QED BY <5>2, <5>5 DEF Live
            <4>3. CASE c \notin Locks(w)
                <5>1. c \in Changes /\ c # claim[w] /\ c \in Live'
                    BY <2>9, <3>1, <4>3, FinishKeeps DEF Live, PipeInv, TypeOK
                <5>2. targets'[c] = targets[c]
                    BY <2>9, <5>1, FinishKeeps
                <5> QED BY <3>1, <3>2, <4>1, <5>1, <5>2, PendingKept
            <4> QED BY <4>2, <4>3
        <3> QED BY <3>3 DEF HintInv
    <2> QED BY <1>4, <2>4, <2>5, <2>6, <2>7, <2>8, <2>9 DEF Work
<1> QED BY <1>2, <1>3, <1>4 DEF Next

\* No hint is lost: while a subscriber has not heard of a committed change, a
\* queued or parked job targets it, whatever was coalesced, debounced, put off,
\* failed or crashed (worker.rs, process_hint and fail_job).
THEOREM HintsKept == Spec => []NoHintLost
<1>1. Init => HintInv
    BY DEF Init, HintInv
<1>2. PipeInv /\ HintInv => NoHintLost
    BY DEF HintInv, Pending, Live, NoHintLost
<1> QED BY <1>1, <1>2, PipeInit, PipeStep, HintStep, PTL DEF Spec

----------------------------------------------------------------------------
(* Every delivered_hint row is written once *)

Holders(n) == {d \in Live : n \in ids[d]}

\* A committed change announces the notification.
Announced(n) == \E c \in committed : n \in IdsOf[c]

Once(n) ==
    \/ ~Announced(n) /\ Holders(n) = {} /\ delivered[n] = 0
    \/ Announced(n) /\ Holders(n) = {} /\ delivered[n] = 1
    \/ Announced(n) /\ (\E d : Holders(n) = {d}) /\ delivered[n] = 0

OnceInv == \A n \in Notifs : Once(n)

LEMMA SameOnce ==
    ASSUME OnceInv, UNCHANGED <<committed, ids, delivered>>, Live' = Live
    PROVE  OnceInv'
<1>1. ASSUME NEW n \in Notifs PROVE Once(n)'
    <2>1. Holders(n)' = Holders(n) /\ Announced(n)' = Announced(n)
        BY DEF Holders, Announced
    <2> QED BY <2>1 DEF OnceInv, Once
<1> QED BY <1>1 DEF OnceInv

\* The queue after a worker has written its rows and put off the rest.
LEMMA FinishOnce ==
    ASSUME PipeInv, NEW w \in Workers, Finish(w), NEW n \in Notifs, Once(n)
    PROVE  Once(n)'
<1> DEFINE key == RecipientOf[n]
<1>1. PICK job : job = claim[w]
    OBVIOUS
<1>2. /\ Live \ Locks(w) \subseteq Live' /\ Live' \subseteq Live
      /\ Locks(w) = {job} \cup absorbed[w] /\ Locks(w) \subseteq Live
      /\ \A c \in Changes \ {job} : ids'[c] = ids[c]
    BY <1>1, FinishKeeps DEF Live, Finish
<1>3. job \in Changes /\ job \notin absorbed[w] /\ Live \subseteq Changes /\ job \in jobs
    BY <1>1, WorkingHolds DEF Finish, Working, Live, PipeInv, TypeOK, WorkerInv, Trying, Split
<1>4. absorbed[w] \cap Live' = {}
    <2>1. absorbed[w] \subseteq jobs /\ jobs \cap dead_letters = {}
        BY FinishKeeps DEF PipeInv, TypeOK
    <2>2. absorbed[w] \cap jobs' = {} /\ UNCHANGED dead_letters
        BY DEF Finish
    <2> QED BY <2>1, <2>2 DEF Live
<1>5. /\ Members(targets[job]) = Members(deferred[w]) \cup published[w]
      /\ Members(deferred[w]) \cap published[w] = {}
      /\ \A d \in Locks(w) : targets[d] = targets[job]
    BY <1>1, <1>2, EmptyMembers DEF Finish, PipeInv, WorkerInv, Trying, Split
<1>6. HeldIds(w) = UNION {ids[d] : d \in Locks(w)}
    BY <1>1, <1>2 DEF HeldIds
<1>7. delivered'[n] = IF n \in IdsFor(HeldIds(w), published[w]) /\ delivered[n] = 0
                      THEN 1 ELSE delivered[n]
    BY DEF Finish
<1>8. Announced(n)' = Announced(n)
    BY DEF Finish, Announced
<1>9. \/ deferred[w] = << >> /\ ids' = ids /\ job \notin Live'
      \/ /\ deferred[w] # << >> /\ job \in Live'
         /\ ids'[job] = IdsFor(HeldIds(w), Members(deferred[w]))
    <2>1. CASE deferred[w] = << >>
        <3>1. jobs' = jobs \ ({job} \cup absorbed[w]) /\ UNCHANGED <<ids, dead_letters>>
            BY <1>1, <2>1 DEF Finish
        <3> QED BY <1>3, <2>1, <3>1 DEF Live, PipeInv, TypeOK
    <2>2. CASE deferred[w] # << >>
        <3>1. /\ jobs' = jobs \ absorbed[w]
              /\ ids' = [ids EXCEPT ![job] = IdsFor(HeldIds(w), Members(deferred[w]))]
            BY <1>1, <2>2 DEF Finish
        <3> QED BY <1>3, <2>2, <3>1 DEF Live, PipeInv, TypeOK
    <2> QED BY <2>1, <2>2
<1>10. CASE n \notin HeldIds(w)
    <2>1. \A d \in Locks(w) : n \notin ids[d]
        BY <1>6, <1>10
    <2>2. delivered'[n] = delivered[n]
        BY <1>7, <1>10 DEF IdsFor
    <2>3. n \notin ids'[job]
        BY <1>2, <1>9, <1>10, <2>1 DEF IdsFor
    <2>4. Holders(n)' = Holders(n)
        <3>1. ASSUME NEW d \in Holders(n) PROVE d \in Holders(n)'
            BY <1>2, <1>3, <2>1 DEF Holders
        <3>2. ASSUME NEW d \in Holders(n)' PROVE d \in Holders(n)
            BY <1>2, <1>3, <2>3 DEF Holders
        <3> QED BY <3>1, <3>2
    <2> QED BY <1>8, <2>2, <2>4 DEF Once
<1>11. CASE n \in HeldIds(w)
    <2>1. PICK d \in Locks(w) : n \in ids[d]
        BY <1>6, <1>11
    <2>2. d \in Holders(n)
        BY <1>2, <2>1 DEF Holders
    <2>3. Holders(n) = {d} /\ delivered[n] = 0 /\ Announced(n)
        BY <2>2 DEF Once
    <2>4. key \in Members(targets[d])
        BY <1>2, <1>3, <2>1 DEF PipeInv, QueueInv
    <2>5. key \in Members(deferred[w]) \cup published[w]
        BY <1>5, <2>4
    \* Of the holders after the step none but the job itself is left.
    <2>6. ASSUME NEW e \in Holders(n)' PROVE e = job
        <3>1. e \in Live' /\ n \in ids'[e] /\ e \in Changes
            BY <1>2, <1>3 DEF Holders
        <3>2. e # job => e \in Holders(n)
            BY <1>2, <3>1 DEF Holders
        <3>3. e # job => e \in absorbed[w]
            BY <1>2, <2>3, <3>2
        <3> QED BY <1>4, <3>1, <3>3
    <2>7. CASE key \in published[w]
        <3>1. delivered'[n] = 1
            BY <1>7, <1>11, <2>3, <2>7 DEF IdsFor
        <3>2. key \notin Members(deferred[w])
            BY <1>5, <2>7
        <3>3. job \notin Holders(n)'
            BY <1>9, <3>2 DEF Holders, IdsFor
        <3>4. Holders(n)' = {}
            BY <2>6, <3>3
        <3> QED BY <1>8, <2>3, <3>1, <3>4 DEF Once
    <2>8. CASE key \in Members(deferred[w])
        <3>1. key \notin published[w] /\ deferred[w] # << >>
            BY <1>5, <2>8, EmptyMembers
        <3>2. delivered'[n] = 0
            BY <1>7, <2>3, <3>1 DEF IdsFor
        <3>3. job \in Live' /\ n \in ids'[job]
            BY <1>9, <1>11, <2>8, <3>1 DEF IdsFor
        <3>4. Holders(n)' = {job}
            <4>1. job \in Holders(n)'
                BY <3>3 DEF Holders
            <4> QED BY <2>6, <4>1
        <3> QED BY <1>8, <2>3, <3>2, <3>4 DEF Once
    <2> QED BY <2>5, <2>7, <2>8
<1> QED BY <1>10, <1>11

LEMMA OnceStep == PipeInv /\ OnceInv /\ [Next]_vars => OnceInv'
<1> SUFFICES ASSUME PipeInv, OnceInv, [Next]_vars PROVE OnceInv'
    OBVIOUS
<1>1. ASSUME NEW c \in Changes, Commit(c) PROVE OnceInv'
    <2>1. /\ UNCHANGED <<ids, delivered, dead_letters>>
          /\ jobs' = jobs \cup {c} /\ c \notin committed /\ committed' = committed \cup {c}
        BY <1>1 DEF Commit
    <2>2. ids[c] = IdsOf[c] /\ c \notin Live /\ Live' = Live \cup {c}
        BY <2>1 DEF PipeInv, QueueInv, TypeOK, Live
    <2>3. ASSUME NEW n \in Notifs PROVE Once(n)'
        <3>1. CASE n \in IdsOf[c]
            <4>1. ~Announced(n)
                BY <2>1, <3>1, ChangesAssumption DEF Announced, PipeInv, TypeOK
            <4>2. Holders(n) = {} /\ delivered[n] = 0
                BY <4>1 DEF OnceInv, Once
            <4>3. Holders(n)' = {c}
                BY <2>1, <2>2, <3>1, <4>2 DEF Holders
            <4>4. Announced(n)'
                BY <2>1, <3>1 DEF Announced
            <4> QED BY <2>1, <4>2, <4>3, <4>4 DEF Once
        <3>2. CASE n \notin IdsOf[c]
            <4>1. Holders(n)' = Holders(n)
                BY <2>1, <2>2, <3>2 DEF Holders
            <4>2. Announced(n)' = Announced(n)
                BY <2>1, <3>2 DEF Announced
            <4> QED BY <2>1, <4>1, <4>2 DEF OnceInv, Once
        <3> QED BY <3>1, <3>2
    <2> QED BY <2>3 DEF OnceInv
<1>2. ASSUME NEW w \in Workers, Finish(w) PROVE OnceInv'
    BY <1>2, FinishOnce DEF OnceInv
<1>3. ASSUME NEW w \in Workers, FailJob(w) PROVE OnceInv'
    <2>1. UNCHANGED <<committed, ids, delivered>> /\ Live' = Live
        BY <1>3 DEF FailJob, queueVars, Live
    <2> QED BY <2>1, SameOnce
<1>4. ASSUME NEW c \in Changes, Replay(c) PROVE OnceInv'
    <2>1. UNCHANGED <<committed, ids, delivered>> /\ Live' = Live
        BY <1>4 DEF Replay, Live
    <2> QED BY <2>1, SameOnce
<1>5. CASE UNCHANGED <<committed, ids, delivered, jobs, dead_letters>>
    BY <1>5, SameOnce DEF Live
<1>6. ASSUME NEW w \in Workers,
             \/ Claim(w) \/ Absorb(w) \/ Acquire(w) \/ Suppress(w) \/ Publish(w)
             \/ Fail(w) \/ Crash(w)
      PROVE  OnceInv'
    <2>1. UNCHANGED <<committed, ids, delivered, jobs, dead_letters>>
        BY <1>6 DEF Claim, Absorb, Acquire, Suppress, Publish, Fail, Crash, queueVars
    <2> QED BY <1>5, <2>1
<1>7. CASE Tick \/ (\E k \in Keys : LoseKey(k)) \/ UNCHANGED vars
    BY <1>5, <1>7 DEF Tick, LoseKey, vars, queueVars
<1> QED BY <1>1, <1>2, <1>3, <1>4, <1>6, <1>7 DEF Next, Work

\* The delivered_hint row of a notification is still to come, from one job, or
\* written once and announced by no job any more (worker.rs, process_hint:
\* the append commits if and only if the job row's deletion or rewrite does).
THEOREM WrittenOnce == Spec => []DeliveredOnce
<1>1. Init => OnceInv
    BY ChangesAssumption DEF Init, OnceInv, Once, Announced, Holders, Live
<1>2. PipeInv /\ OnceInv => DeliveredOnce
    <2> SUFFICES ASSUME PipeInv, OnceInv, NEW c \in committed, NEW n \in IdsOf[c]
                 PROVE  Cardinality(Holders(n)) + delivered[n] = 1
        BY DEF DeliveredOnce, Holders, Live
    <2>1. Announced(n) /\ n \in Notifs
        BY ChangesAssumption DEF Announced, PipeInv, TypeOK
    <2>2. CASE Holders(n) = {} /\ delivered[n] = 1
        BY <2>2, FS_EmptySet
    <2>3. CASE (\E d : Holders(n) = {d}) /\ delivered[n] = 0
        <3>1. Cardinality(Holders(n)) = 1
            BY <2>3, FS_Singleton
        <3> QED BY <2>3, <3>1
    <2> QED BY <2>1, <2>2, <2>3 DEF OnceInv, Once
<1> QED BY <1>1, <1>2, PipeInit, PipeStep, OnceStep, PTL DEF Spec
=============================================================================
