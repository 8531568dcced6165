---------------------------- MODULE RateLimiter ----------------------------
(***************************************************************************)
(* The token buckets of ratelimit.rs: what is stored of a bucket is its    *)
(* content when it was last asked and the instant of that, and a bucket    *)
(* that must be full by now may be dropped.  The in-process limiter sweeps *)
(* its map when it has grown past a threshold, before it serves the caller;*)
(* the Redis script lets every key expire.  A dropped bucket reappears     *)
(* full.                                                                   *)
(***************************************************************************)
EXTENDS Integers, FiniteSets

CONSTANTS
    Keys,       \* API keys and subscribers
    Unit,       \* the size of one token, in the units the refill is counted in
    Rate,       \* units a key's bucket gains in a tick
    Burst,      \* units it holds
    Backends,   \* the limiters a deployment may run: "local", "redis"
    Threshold,  \* buckets the in-process map may hold before it is swept
    MaxTime     \* bound: the last tick

ASSUME LimiterAssumption ==
    /\ Unit \in Nat \ {0}
    /\ Rate \in [Keys -> Nat \ {0}]
    /\ Burst \in [Keys -> Nat]
    /\ \A k \in Keys : Burst[k] >= Unit
    /\ Backends \subseteq {"local", "redis"}
    /\ Threshold \in Nat
    /\ MaxTime \in Nat

VARIABLES
    now,
    backend,     \* the limiter of this deployment
    stored,      \* the keys that have a bucket
    tokens,      \* its content, at the instant
    sampled_at,  \* it was last asked
    answer,      \* the last key that asked, and what it was told
    retry_at,    \* history: when a refused key may ask again, 0 without one
    admitted,    \* history: requests let through since the window began
    elapsed      \* history: ticks since the window began

historyVars == <<admitted, elapsed>>
bucketVars == <<stored, tokens, sampled_at>>
vars == <<now, backend, bucketVars, answer, retry_at, historyVars>>

Least(a, b) == IF a <= b THEN a ELSE b

Grown(k) == tokens[k] + (now - sampled_at[k]) * Rate[k]

\* What the bucket holds now.
Refilled(k) == IF k \in stored THEN Least(Burst[k], Grown(k)) ELSE Burst[k]

Init ==
    /\ now = 0
    /\ backend \in Backends
    /\ stored = {}
    /\ tokens = [k \in Keys |-> 0]
    /\ sampled_at = [k \in Keys |-> 0]
    /\ answer = << >>
    /\ retry_at = [k \in Keys |-> 0]
    /\ admitted = [k \in Keys |-> 0]
    /\ elapsed = 0

Tick ==
    /\ now < MaxTime
    /\ now' = now + 1
    /\ elapsed' = elapsed + 1
    /\ UNCHANGED <<bucketVars, answer, retry_at, admitted>>

\* Mutant: every bucket is judged by the caller's parameters.
FullByCaller(k, caller) ==
    tokens[k] + (now - sampled_at[k]) * Rate[caller] >= Burst[caller]

FullByNow(k, caller) == Grown(k) >= Burst[k]

\* The sweep at the head of the in-process check.
Swept(caller) ==
    IF backend = "local" /\ Cardinality(stored) > Threshold
    THEN {k \in stored : ~FullByNow(k, caller)} ELSE stored

\* Ticks until one token is there, surfaced as Retry-After.
Wait(k) == (Unit - Refilled(k) + Rate[k] - 1) \div Rate[k]

Ask(k, left) ==
    /\ stored' = Swept(k) \cup {k}
    /\ tokens' = [tokens EXCEPT ![k] = left]
    /\ sampled_at' = [sampled_at EXCEPT ![k] = now]

Allow(k) ==
    /\ Refilled(k) >= Unit
    /\ Ask(k, Refilled(k) - Unit)
    /\ answer' = <<k, "allowed">>
    /\ retry_at' = [retry_at EXCEPT ![k] = 0]
    /\ admitted' = [admitted EXCEPT ![k] = @ + 1]
    /\ UNCHANGED <<now, elapsed>>

Limit(k) ==
    /\ Refilled(k) < Unit
    /\ Ask(k, Refilled(k))
    /\ answer' = <<k, "limited">>
    /\ retry_at' = [retry_at EXCEPT ![k] = now + Wait(k)]
    /\ UNCHANGED <<now, historyVars>>

Check(k) == Allow(k) \/ Limit(k)

\* Mutant: the key expires after half the time it takes to fill.
ExpiredEarly(k) == 2 * (now - sampled_at[k]) * Rate[k] >= Burst[k]

\* PEXPIRE: twice the time an empty bucket takes to fill.
Expired(k) == (now - sampled_at[k]) * Rate[k] >= 2 * Burst[k]

Expire(k) ==
    /\ backend = "redis"
    /\ k \in stored
    /\ Expired(k)
    /\ stored' = stored \ {k}
    /\ UNCHANGED <<now, tokens, sampled_at, answer, retry_at, historyVars>>

\* Redis does not answer.
FailOpen(k) ==
    /\ backend = "redis"
    /\ answer' = <<k, "unmetered">>
    /\ UNCHANGED <<now, bucketVars, retry_at, historyVars>>

\* Redis comes back without its keys, or the process with its map restarts.
Lose ==
    /\ stored' = {}
    /\ admitted' = [k \in Keys |-> 0]
    /\ elapsed' = 0
    /\ UNCHANGED <<now, tokens, sampled_at, answer, retry_at>>

\* Any moment can be the beginning of the window that is looked at.
NewWindow ==
    /\ admitted' = [k \in Keys |-> 0]
    /\ elapsed' = 0
    /\ UNCHANGED <<now, bucketVars, answer, retry_at>>

Next ==
    /\ \/ Tick \/ Lose \/ NewWindow
       \/ \E k \in Keys : Check(k) \/ Expire(k) \/ FailOpen(k)
    /\ UNCHANGED backend

Spec == Init /\ [][Next]_vars

----------------------------------------------------------------------------

TypeOK ==
    /\ now \in 0 .. MaxTime
    /\ stored \subseteq Keys
    /\ tokens \in [Keys -> Nat]
    /\ sampled_at \in [Keys -> 0 .. now]
    /\ \A k \in Keys : tokens[k] <= Burst[k]
    /\ retry_at \in [Keys -> Nat]
    /\ admitted \in [Keys -> Nat]
    /\ elapsed \in Nat

\* In no window does a key get more requests through than one full bucket and
\* the refill of the window pay for, whichever buckets are dropped in between
\* (ratelimit.rs, the two limiters and what makes each forget a bucket).
WithinAllowance ==
    \A k \in Keys : admitted[k] * Unit + Refilled(k) <= Burst[k] + elapsed * Rate[k]

\* A client that waits as long as Retry-After says finds its token, unless the
\* key was used meanwhile (ratelimit.rs, retry and retry_after).
RetryAfterIsEnough ==
    \A k \in Keys : (retry_at[k] # 0 /\ now >= retry_at[k]) => Refilled(k) >= Unit

\* A request is let through within the allowance, and one that is refused is
\* told long enough (ratelimit.rs, Decision).
AnswersAreRight == WithinAllowance /\ RetryAfterIsEnough

\* Storing a sample and dropping what is full cannot be told from a bucket
\* that is refilled every tick and kept for ever.
Buckets == INSTANCE TokenBucket WITH level <- [k \in Keys |-> Refilled(k)]

ForgettingIsInvisible == Buckets!Spec
=============================================================================
