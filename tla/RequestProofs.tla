---------------------------- MODULE RequestProofs ----------------------------
(***************************************************************************)
(* What a request meets, for every value of the constants.  The limiter:   *)
(* for every set of keys, every rate and burst and both backends its types,*)
(* that it implements the buckets of TokenBucket, that no window admits    *)
(* more than its allowance and that Retry-After is enough.  The locks: for *)
(* every number of transactions and subscribers no set of ordered          *)
(* transactions is ever stuck.  Along a wait the row that is wanted climbs *)
(* from keys over the counters rows in the order of their subscribers; it  *)
(* never reaches the preferences, for two moves that write preferences of  *)
(* one subscriber have met at its counters row before.                     *)
(***************************************************************************)
EXTENDS RateLimiter, LockOrder, WellFoundedInduction, TLAPS

----------------------------------------------------------------------------
(* The limiter *)

\* A bucket's content is a natural number no larger than its burst.
LEMMA RefilledType ==
    ASSUME TypeOK, NEW k \in Keys
    PROVE  /\ Grown(k) \in Nat
           /\ Refilled(k) \in Nat
           /\ Refilled(k) <= Burst[k]
<1>1. Burst[k] \in Nat /\ Rate[k] \in Nat /\ Unit \in Nat
  BY LimiterAssumption
<1>2. /\ tokens[k] \in Nat /\ now \in Nat /\ sampled_at[k] \in Nat
      /\ sampled_at[k] <= now
  BY DEF TypeOK
<1>3. now - sampled_at[k] \in Nat
  BY <1>2
<1>4. (now - sampled_at[k]) * Rate[k] \in Nat
  BY <1>1, <1>3
<1>5. Grown(k) \in Nat
  BY <1>2, <1>4 DEF Grown
<1> QED
  BY <1>1, <1>5 DEF Refilled, Least

\* How long a refused caller is told to wait is a natural number.
LEMMA WaitType ==
    ASSUME TypeOK, NEW k \in Keys, Refilled(k) < Unit
    PROVE  Wait(k) \in Nat
<1>1. Refilled(k) \in Nat
  BY RefilledType
<1>2. Unit \in Nat /\ Rate[k] \in Nat \ {0}
  BY LimiterAssumption
<1> DEFINE a == Unit - Refilled(k) + Rate[k] - 1
<1>3. a \in Nat
  BY <1>1, <1>2
<1>4. \A x \in Nat, y \in Nat \ {0} : x \div y \in Nat
  OBVIOUS
<1> QED
  BY <1>2, <1>3, <1>4 DEF Wait

\* What one check leaves behind has the right type.
LEMMA AskType ==
    ASSUME TypeOK, NEW k \in Keys, NEW rest \in Nat, rest <= Burst[k], Ask(k, rest)
    PROVE  /\ stored' \subseteq Keys
           /\ tokens' \in [Keys -> Nat]
           /\ sampled_at' \in [Keys -> 0 .. now]
           /\ \A j \in Keys : tokens'[j] <= Burst[j]
BY DEF TypeOK, Ask, Swept

LEMMA TypeStep ==
    ASSUME TypeOK, [Next]_vars
    PROVE  TypeOK'
<1>1. CASE Tick
  BY <1>1, LimiterAssumption DEF TypeOK, Tick, bucketVars
<1>2. CASE Lose
  BY <1>2 DEF TypeOK, Lose
<1>3. CASE NewWindow
  BY <1>3 DEF TypeOK, NewWindow, bucketVars
<1>4. ASSUME NEW k \in Keys, Allow(k)
      PROVE  TypeOK'
  <2>1. Unit \in Nat /\ Burst[k] \in Nat /\ Refilled(k) \in Nat /\ Refilled(k) <= Burst[k]
    BY LimiterAssumption, RefilledType
  <2>2. Refilled(k) - Unit \in Nat /\ Refilled(k) - Unit <= Burst[k]
    BY <1>4, <2>1 DEF Allow
  <2>3. /\ stored' \subseteq Keys
        /\ tokens' \in [Keys -> Nat]
        /\ sampled_at' \in [Keys -> 0 .. now]
        /\ \A j \in Keys : tokens'[j] <= Burst[j]
    BY <1>4, <2>2, AskType DEF Allow
  <2>4. now' = now /\ elapsed' = elapsed
    BY <1>4 DEF Allow
  <2>5. retry_at' \in [Keys -> Nat] /\ admitted' \in [Keys -> Nat]
    BY <1>4 DEF TypeOK, Allow
  <2>6. now' \in 0 .. MaxTime /\ elapsed' \in Nat
    BY <2>4 DEF TypeOK
  <2>7. sampled_at' \in [Keys -> 0 .. now']
    BY <2>3, <2>4
  <2> QED
    BY <2>3, <2>5, <2>6, <2>7 DEF TypeOK
<1>5. ASSUME NEW k \in Keys, Limit(k)
      PROVE  TypeOK'
  <2>1. Refilled(k) \in Nat /\ Refilled(k) <= Burst[k]
    BY RefilledType
  <2>2. /\ stored' \subseteq Keys
        /\ tokens' \in [Keys -> Nat]
        /\ sampled_at' \in [Keys -> 0 .. now]
        /\ \A j \in Keys : tokens'[j] <= Burst[j]
    BY <1>5, <2>1, AskType DEF Limit
  <2>3. Wait(k) \in Nat
    BY <1>5, WaitType DEF Limit
  <2>4. now' = now /\ admitted' = admitted /\ elapsed' = elapsed
    BY <1>5 DEF Limit, historyVars
  <2>5. retry_at' \in [Keys -> Nat]
    <3>1. now + Wait(k) \in Nat
      BY <2>3, LimiterAssumption DEF TypeOK
    <3> QED
      BY <1>5, <3>1 DEF TypeOK, Limit
  <2>6. now' \in 0 .. MaxTime /\ admitted' \in [Keys -> Nat] /\ elapsed' \in Nat
    BY <2>4 DEF TypeOK
  <2>7. sampled_at' \in [Keys -> 0 .. now']
    BY <2>2, <2>4
  <2> QED
    BY <2>2, <2>5, <2>6, <2>7 DEF TypeOK
<1>6. ASSUME NEW k \in Keys, Expire(k)
      PROVE  TypeOK'
  BY <1>6 DEF TypeOK, Expire, historyVars
<1>7. ASSUME NEW k \in Keys, FailOpen(k)
      PROVE  TypeOK'
  BY <1>7 DEF TypeOK, FailOpen, bucketVars, historyVars
<1>8. CASE UNCHANGED vars
  BY <1>8 DEF TypeOK, vars, bucketVars, historyVars
<1> QED
  BY <1>1, <1>2, <1>3, <1>4, <1>5, <1>6, <1>7, <1>8 DEF Next, Check

\* The limiter keeps its types, and never stores more than a full bucket
\* (ratelimit.rs, Bucket and the script's hash).
THEOREM LimiterTyped == Spec => []TypeOK
<1>1. Init => TypeOK
  BY LimiterAssumption DEF Init, TypeOK
<1> QED
  BY <1>1, TypeStep, PTL DEF Spec

----------------------------------------------------------------------------
(* The steps, seen as steps of the buckets *)

\* A check leaves every other bucket what it was: the sweep drops full ones only.
LEMMA AskLeavesOthers ==
    ASSUME TypeOK, NEW k \in Keys, NEW rest \in Nat, rest <= Burst[k], Ask(k, rest),
           now' = now
    PROVE  /\ Refilled(k)' = rest
           /\ \A j \in Keys \ {k} : Refilled(j)' = Refilled(j)
<1>1. Refilled(k)' = rest
  <2>1. k \in stored' /\ tokens'[k] = rest /\ sampled_at'[k] = now
    BY DEF Ask, TypeOK
  <2>2. Grown(k)' = rest
    <3>1. now \in Nat /\ Rate[k] \in Nat
      BY LimiterAssumption DEF TypeOK
    <3>2. (now - now) * Rate[k] = 0
      BY <3>1
    <3> QED
      BY <2>1, <3>2 DEF Grown
  <2> QED
    BY <2>1, <2>2, LimiterAssumption DEF Refilled, Least
<1>2. ASSUME NEW j \in Keys \ {k}
      PROVE  Refilled(j)' = Refilled(j)
  <2>1. Grown(j)' = Grown(j)
    BY DEF Ask, TypeOK, Grown
  <2>2. CASE j \notin stored
    <3>1. j \notin stored'
      BY <2>2 DEF Ask, Swept
    <3> QED
      BY <2>2, <3>1 DEF Refilled
  <2>3. CASE j \in stored /\ j \in stored'
    BY <2>1, <2>3 DEF Refilled
  <2>4. CASE j \in stored /\ j \notin stored'
    <3>1. Grown(j) >= Burst[j]
      BY <2>4 DEF Ask, Swept, FullByNow
    <3>2. Grown(j) \in Nat /\ Burst[j] \in Nat
      BY RefilledType, LimiterAssumption
    <3> QED
      BY <2>4, <3>1, <3>2 DEF Refilled, Least
  <2> QED
    BY <2>2, <2>3, <2>4
<1> QED
  BY <1>1, <1>2

\* One tick refills every bucket by its rate.
LEMMA TickRefills ==
    ASSUME TypeOK, Tick, NEW k \in Keys
    PROVE  Refilled(k)' = Least(Burst[k], Refilled(k) + Rate[k])
<1>1. Burst[k] \in Nat /\ Rate[k] \in Nat
  BY LimiterAssumption
<1>2. tokens[k] \in Nat /\ now \in Nat /\ sampled_at[k] \in Nat
  BY DEF TypeOK
<1>3. Grown(k) \in Nat
  BY RefilledType
<1>4. Grown(k)' = Grown(k) + Rate[k]
  <2>1. (now + 1 - sampled_at[k]) * Rate[k] = (now - sampled_at[k]) * Rate[k] + Rate[k]
    BY <1>1, <1>2
  <2>2. (now - sampled_at[k]) * Rate[k] \in Int
    BY <1>1, <1>2
  <2> QED
    BY <1>1, <1>2, <2>1, <2>2 DEF Grown, Tick, bucketVars
<1>5. CASE k \in stored
  <2>1. Refilled(k) = Least(Burst[k], Grown(k))
    BY <1>5 DEF Refilled
  <2>2. Refilled(k)' = Least(Burst[k], Grown(k) + Rate[k])
    BY <1>4, <1>5 DEF Refilled, Tick, bucketVars
  <2>3. Least(Burst[k], Least(Burst[k], Grown(k)) + Rate[k])
          = Least(Burst[k], Grown(k) + Rate[k])
    BY <1>1, <1>3 DEF Least
  <2> QED
    BY <2>1, <2>2, <2>3
<1>6. CASE k \notin stored
  BY <1>1, <1>6 DEF Refilled, Tick, bucketVars, Least
<1> QED
  BY <1>5, <1>6

\* An expired key held a full bucket.
LEMMA ExpireIsInvisible ==
    ASSUME TypeOK, NEW k \in Keys, Expire(k), NEW j \in Keys
    PROVE  Refilled(j)' = Refilled(j)
<1>1. Grown(j)' = Grown(j)
  BY DEF Expire, Grown
<1>2. CASE j # k
  BY <1>1, <1>2 DEF Expire, Refilled
<1>3. CASE j = k
  <2>1. (now - sampled_at[k]) * Rate[k] >= 2 * Burst[k]
    BY DEF Expire, Expired
  <2>2. tokens[k] \in Nat /\ Burst[k] \in Nat /\ Rate[k] \in Nat
        /\ now \in Nat /\ sampled_at[k] \in Nat
    BY LimiterAssumption DEF TypeOK
  <2>3. (now - sampled_at[k]) * Rate[k] \in Int
    BY <2>2
  <2>4. Grown(k) >= Burst[k] /\ Grown(k) \in Int
    BY <2>1, <2>2, <2>3 DEF Grown
  <2>5. Refilled(k) = Burst[k]
    BY <2>2, <2>4 DEF Refilled, Least
  <2>6. Refilled(k)' = Burst[k]
    BY DEF Expire, Refilled
  <2> QED
    BY <1>3, <2>5, <2>6
<1> QED
  BY <1>2, <1>3

----------------------------------------------------------------------------
(* The allowance of a window *)

\* A step that takes no token and leaves every bucket keeps the account.
LEMMA AccountKept ==
    ASSUME TypeOK, WithinAllowance,
           admitted' = admitted, elapsed' = elapsed,
           \A k \in Keys : Refilled(k)' = Refilled(k)
    PROVE  WithinAllowance'
BY DEF WithinAllowance

LEMMA AllowanceStep ==
    ASSUME TypeOK, WithinAllowance, [Next]_vars
    PROVE  WithinAllowance'
<1> USE LimiterAssumption
<1>0. \A k \in Keys : /\ Burst[k] \in Nat /\ Rate[k] \in Nat /\ Unit \in Nat
                      /\ admitted[k] \in Nat /\ elapsed \in Nat
                      /\ Refilled(k) \in Nat /\ Refilled(k) <= Burst[k]
  BY RefilledType DEF TypeOK
<1>1. CASE Tick
  <2> SUFFICES ASSUME NEW k \in Keys
               PROVE  admitted'[k] * Unit + Refilled(k)'
                        <= Burst[k] + elapsed' * Rate[k]
    BY DEF WithinAllowance
  <2>1. admitted[k] * Unit + Refilled(k) <= Burst[k] + elapsed * Rate[k]
    BY DEF WithinAllowance
  <2>2. Refilled(k)' \in Int /\ Refilled(k)' <= Refilled(k) + Rate[k]
    BY <1>0, <1>1, TickRefills DEF Least
  <2>3. (elapsed + 1) * Rate[k] = elapsed * Rate[k] + Rate[k]
    BY <1>0
  <2>4. admitted[k] * Unit \in Int /\ elapsed * Rate[k] \in Int
    BY <1>0
  <2>5. admitted[k] * Unit + Refilled(k)' <= Burst[k] + (elapsed + 1) * Rate[k]
    BY <1>0, <2>1, <2>2, <2>3, <2>4
  <2> QED
    BY <1>1, <2>5 DEF Tick
<1>2. CASE Lose
  <2> SUFFICES ASSUME NEW k \in Keys
               PROVE  admitted'[k] * Unit + Refilled(k)'
                        <= Burst[k] + elapsed' * Rate[k]
    BY DEF WithinAllowance
  <2>1. Refilled(k)' = Burst[k] /\ admitted'[k] = 0 /\ elapsed' = 0
    BY <1>2 DEF Lose, Refilled
  <2> QED
    BY <1>0, <2>1
<1>3. CASE NewWindow
  <2> SUFFICES ASSUME NEW k \in Keys
               PROVE  admitted'[k] * Unit + Refilled(k)'
                        <= Burst[k] + elapsed' * Rate[k]
    BY DEF WithinAllowance
  <2>1. Refilled(k)' = Refilled(k) /\ admitted'[k] = 0 /\ elapsed' = 0
    BY <1>3 DEF NewWindow, Refilled, Grown, bucketVars
  <2> QED
    BY <1>0, <2>1
<1>4. ASSUME NEW k \in Keys, Allow(k)
      PROVE  WithinAllowance'
  <2> SUFFICES ASSUME NEW j \in Keys
               PROVE  admitted'[j] * Unit + Refilled(j)'
                        <= Burst[j] + elapsed' * Rate[j]
    BY DEF WithinAllowance
  <2>1. admitted[j] * Unit + Refilled(j) <= Burst[j] + elapsed * Rate[j]
    BY DEF WithinAllowance
  <2>2. /\ Refilled(k) - Unit \in Nat /\ Refilled(k) - Unit <= Burst[k]
        /\ Ask(k, Refilled(k) - Unit) /\ now' = now /\ elapsed' = elapsed
    BY <1>0, <1>4 DEF Allow
  <2>3. /\ Refilled(k)' = Refilled(k) - Unit
        /\ \A i \in Keys \ {k} : Refilled(i)' = Refilled(i)
    BY <2>2, AskLeavesOthers
  <2>4. CASE j = k
    <3>1. admitted'[k] = admitted[k] + 1
      BY <1>4 DEF Allow, TypeOK
    <3>2. (admitted[k] + 1) * Unit = admitted[k] * Unit + Unit
      BY <1>0
    <3>3. admitted[k] * Unit \in Int /\ elapsed * Rate[k] \in Int
      BY <1>0
    <3>4. (admitted[k] + 1) * Unit + (Refilled(k) - Unit)
            <= Burst[k] + elapsed * Rate[k]
      BY <1>0, <2>1, <2>4, <3>2, <3>3
    <3> QED
      BY <2>2, <2>3, <2>4, <3>1, <3>4
  <2>5. CASE j # k
    <3>1. admitted'[j] = admitted[j]
      BY <1>4, <2>5 DEF Allow, TypeOK
    <3> QED
      BY <2>1, <2>2, <2>3, <2>5, <3>1
  <2> QED
    BY <2>4, <2>5
<1>5. ASSUME NEW k \in Keys, Limit(k)
      PROVE  WithinAllowance'
  <2>1. /\ Ask(k, Refilled(k)) /\ now' = now
        /\ admitted' = admitted /\ elapsed' = elapsed
    BY <1>5 DEF Limit, historyVars
  <2>2. \A j \in Keys : Refilled(j)' = Refilled(j)
    BY <1>0, <2>1, AskLeavesOthers
  <2> QED
    BY <2>1, <2>2, AccountKept
<1>6. ASSUME NEW k \in Keys, Expire(k)
      PROVE  WithinAllowance'
  <2>1. admitted' = admitted /\ elapsed' = elapsed
    BY <1>6 DEF Expire, historyVars
  <2> QED
    BY <1>6, <2>1, ExpireIsInvisible, AccountKept
<1>7. ASSUME NEW k \in Keys, FailOpen(k)
      PROVE  WithinAllowance'
  BY <1>7, AccountKept DEF FailOpen, Refilled, Grown, bucketVars, historyVars
<1>8. CASE UNCHANGED vars
  BY <1>8, AccountKept DEF vars, Refilled, Grown, bucketVars, historyVars
<1> QED
  BY <1>1, <1>2, <1>3, <1>4, <1>5, <1>6, <1>7, <1>8 DEF Next, Check

\* In every window a key gets no more requests through than a full bucket and
\* the refill of the window, whatever the sweep and the expiry drop
\* (ratelimit.rs, LocalRateLimiter and RedisRateLimiter).
THEOREM AllowanceHolds == Spec => []WithinAllowance
<1>1. Init => WithinAllowance
  <2> SUFFICES ASSUME Init, NEW k \in Keys
               PROVE  admitted[k] * Unit + Refilled(k) <= Burst[k] + elapsed * Rate[k]
    BY DEF WithinAllowance
  <2>1. Refilled(k) = Burst[k] /\ admitted[k] = 0 /\ elapsed = 0
    BY DEF Init, Refilled
  <2> QED
    BY <2>1, LimiterAssumption
<1>2. TypeOK /\ WithinAllowance /\ [Next]_vars => WithinAllowance'
  BY AllowanceStep
<1> QED
  BY <1>1, <1>2, LimiterTyped, PTL DEF Spec

----------------------------------------------------------------------------
(* How long a refused caller waits *)

\* A caller still waiting is owed what it lacks by the time it may ask again.
Owed(k) ==
    retry_at[k] # 0 =>
        IF now < retry_at[k]
        THEN Refilled(k) + (retry_at[k] - now) * Rate[k] >= Unit
        ELSE Refilled(k) >= Unit

AllOwed == \A k \in Keys : Owed(k)

\* Rounded up, the wait pays for what is missing.
LEMMA WaitPays ==
    ASSUME TypeOK, NEW k \in Keys, Refilled(k) < Unit
    PROVE  /\ Wait(k) >= 1
           /\ Refilled(k) + Wait(k) * Rate[k] >= Unit
<1>1. Refilled(k) \in Nat /\ Unit \in Nat /\ Rate[k] \in Nat \ {0}
  BY RefilledType, LimiterAssumption
<1> DEFINE a == Unit - Refilled(k) + Rate[k] - 1
           w == a \div Rate[k]
<1>2. a \in Nat /\ a >= Rate[k]
  BY <1>1
<1>3. \A x \in Nat, y \in Nat \ {0} :
         /\ x \div y \in Nat
         /\ x = (x \div y) * y + (x % y)
         /\ x % y \in Nat /\ x % y < y
  OBVIOUS
<1>4. w \in Nat /\ a = w * Rate[k] + (a % Rate[k]) /\ a % Rate[k] \in Nat
      /\ a % Rate[k] < Rate[k]
  BY <1>1, <1>2, <1>3
<1>5. w * Rate[k] \in Nat
  BY <1>1, <1>4
<1>6. w * Rate[k] >= Unit - Refilled(k)
  BY <1>1, <1>4, <1>5
<1>7. w >= 1
  <2>1. CASE w = 0
    <3>1. 0 * Rate[k] = 0
      BY <1>1
    <3> QED
      BY <1>1, <1>6, <2>1, <3>1
  <2> QED
    BY <1>4, <2>1
<1> QED
  BY <1>1, <1>5, <1>6, <1>7 DEF Wait

\* A step that leaves the clock, a bucket and its caller's wait leaves the debt.
LEMMA OwedKept ==
    ASSUME AllOwed, NEW k \in Keys,
           now' = now, retry_at'[k] = retry_at[k], Refilled(k)' = Refilled(k)
    PROVE  Owed(k)'
BY DEF AllOwed, Owed

LEMMA OwedStep ==
    ASSUME TypeOK, AllOwed, [Next]_vars
    PROVE  AllOwed'
<1> USE LimiterAssumption
<1>0. \A k \in Keys : /\ Burst[k] \in Nat /\ Rate[k] \in Nat /\ Unit \in Nat
                      /\ Burst[k] >= Unit
                      /\ Refilled(k) \in Nat /\ Refilled(k) <= Burst[k]
                      /\ retry_at[k] \in Nat
  BY RefilledType DEF TypeOK
<1>00. now \in Nat
  BY DEF TypeOK
<1> SUFFICES ASSUME NEW k \in Keys
             PROVE  Owed(k)'
  BY DEF AllOwed
<1>1. CASE Tick
  <2> SUFFICES ASSUME retry_at[k] # 0
               PROVE  IF now + 1 < retry_at[k]
                      THEN Refilled(k)' + (retry_at[k] - (now + 1)) * Rate[k] >= Unit
                      ELSE Refilled(k)' >= Unit
    BY <1>1 DEF Owed, Tick
  <2>1. Refilled(k)' = Least(Burst[k], Refilled(k) + Rate[k])
    BY <1>1, TickRefills
  <2>2. CASE now < retry_at[k]
    <3>1. Refilled(k) + (retry_at[k] - now) * Rate[k] >= Unit
      BY <2>2 DEF AllOwed, Owed
    <3> DEFINE d == retry_at[k] - (now + 1)
    <3>2. d \in Nat /\ d + 1 = retry_at[k] - now
      BY <1>0, <1>00, <2>2
    <3>3. (d + 1) * Rate[k] = d * Rate[k] + Rate[k] /\ d * Rate[k] \in Nat
      BY <1>0, <3>2
    <3>4. Refilled(k)' + d * Rate[k] >= Unit
      BY <1>0, <2>1, <3>1, <3>2, <3>3 DEF Least
    <3>5. CASE d = 0
      <4>1. 0 * Rate[k] = 0
        BY <1>0
      <4>2. Refilled(k)' >= Unit
        BY <1>0, <2>1, <3>4, <3>5, <4>1 DEF Least
      <4>3. ~(now + 1 < retry_at[k])
        BY <1>0, <1>00, <3>5
      <4> QED
        BY <4>2, <4>3
    <3>6. CASE d # 0
      BY <1>0, <1>00, <3>2, <3>4, <3>6
    <3> QED
      BY <3>5, <3>6
  <2>3. CASE ~(now < retry_at[k])
    <3>1. Refilled(k) >= Unit
      BY <2>3 DEF AllOwed, Owed
    <3> QED
      BY <1>0, <1>00, <2>1, <2>3, <3>1 DEF Least
  <2> QED
    BY <2>2, <2>3
<1>2. CASE Lose
  <2>1. Refilled(k)' = Burst[k] /\ now' = now /\ retry_at' = retry_at
    BY <1>2 DEF Lose, Refilled
  <2>2. CASE now < retry_at[k]
    <3>1. retry_at[k] - now \in Nat
      BY <1>0, <1>00, <2>2
    <3>2. (retry_at[k] - now) * Rate[k] \in Nat
      BY <1>0, <3>1
    <3> QED
      BY <1>0, <2>1, <2>2, <3>2 DEF Owed
  <2>3. CASE ~(now < retry_at[k])
    BY <1>0, <2>1, <2>3 DEF Owed
  <2> QED
    BY <2>2, <2>3
<1>3. CASE NewWindow
  BY <1>3, OwedKept DEF NewWindow, Refilled, Grown, bucketVars
<1>4. ASSUME NEW j \in Keys, Allow(j)
      PROVE  Owed(k)'
  <2>1. /\ Refilled(j) - Unit \in Nat /\ Refilled(j) - Unit <= Burst[j]
        /\ Ask(j, Refilled(j) - Unit) /\ now' = now
    BY <1>0, <1>4 DEF Allow
  <2>2. CASE j = k
    BY <1>4, <2>2 DEF Allow, Owed, TypeOK
  <2>3. CASE j # k
    <3>1. Refilled(k)' = Refilled(k)
      BY <2>1, <2>3, AskLeavesOthers
    <3>2. retry_at'[k] = retry_at[k]
      BY <1>4, <2>3 DEF Allow, TypeOK
    <3> QED
      BY <2>1, <3>1, <3>2, OwedKept
  <2> QED
    BY <2>2, <2>3
<1>5. ASSUME NEW j \in Keys, Limit(j)
      PROVE  Owed(k)'
  <2>1. Ask(j, Refilled(j)) /\ now' = now /\ Refilled(j) < Unit
    BY <1>5 DEF Limit
  <2>2. Refilled(k)' = Refilled(k)
    BY <1>0, <2>1, AskLeavesOthers
  <2>3. CASE j = k
    <3>1. retry_at'[k] = now + Wait(k)
      BY <1>5, <2>3 DEF Limit, TypeOK
    <3>2. Wait(k) \in Nat
      BY <2>1, <2>3, WaitType
    <3>3. Wait(k) >= 1 /\ Refilled(k) + Wait(k) * Rate[k] >= Unit
      BY <2>1, <2>3, WaitPays
    <3>4. retry_at'[k] - now = Wait(k) /\ now < retry_at'[k]
      BY <1>00, <3>1, <3>2, <3>3
    <3> QED
      BY <2>1, <2>2, <3>3, <3>4 DEF Owed
  <2>4. CASE j # k
    <3>1. retry_at'[k] = retry_at[k]
      BY <1>5, <2>4 DEF Limit, TypeOK
    <3> QED
      BY <2>1, <2>2, <3>1, OwedKept
  <2> QED
    BY <2>3, <2>4
<1>6. ASSUME NEW j \in Keys, Expire(j)
      PROVE  Owed(k)'
  <2>1. Refilled(k)' = Refilled(k)
    BY <1>6, ExpireIsInvisible
  <2> QED
    BY <1>6, <2>1, OwedKept DEF Expire
<1>7. ASSUME NEW j \in Keys, FailOpen(j)
      PROVE  Owed(k)'
  BY <1>7, OwedKept DEF FailOpen, Refilled, Grown, bucketVars
<1>8. CASE UNCHANGED vars
  BY <1>8, OwedKept DEF vars, Refilled, Grown, bucketVars
<1> QED
  BY <1>1, <1>2, <1>3, <1>4, <1>5, <1>6, <1>7, <1>8 DEF Next, Check

\* Whoever comes back after Retry-After finds a token, unless the key was used
\* meanwhile (ratelimit.rs, retry and retry_after).
THEOREM RetryAlwaysEnough == Spec => []RetryAfterIsEnough
<1>1. Init => AllOwed
  BY DEF Init, AllOwed, Owed
<1>2. TypeOK /\ AllOwed /\ [Next]_vars => AllOwed'
  BY OwedStep
<1>3. TypeOK /\ AllOwed => RetryAfterIsEnough
  BY DEF TypeOK, AllOwed, Owed, RetryAfterIsEnough
<1> QED
  BY <1>1, <1>2, <1>3, LimiterTyped, PTL DEF Spec

\* Whatever is answered is right, on both counts (ratelimit.rs, Decision).
THEOREM AnswersAlwaysRight == Spec => []AnswersAreRight
<1>1. WithinAllowance /\ RetryAfterIsEnough => AnswersAreRight
  BY DEF AnswersAreRight
<1> QED
  BY <1>1, AllowanceHolds, RetryAlwaysEnough, PTL

----------------------------------------------------------------------------
(* The buckets are implemented *)

LEMMA BucketStep ==
    ASSUME TypeOK, [Next]_vars
    PROVE  [Buckets!Next]_(Buckets!vars)
<1> USE LimiterAssumption
<1> DEFINE level == [k \in Keys |-> Refilled(k)]
<1>0. \A k \in Keys : Refilled(k) \in Nat /\ Refilled(k) <= Burst[k] /\ Unit \in Nat
  BY RefilledType
<1>1. CASE Tick
  <2>1. \A k \in Keys : Refilled(k)' = Least(Burst[k], Refilled(k) + Rate[k])
    BY <1>1, TickRefills
  <2>2. Buckets!Tick
    BY <1>1, <2>1 DEF Buckets!Tick, Buckets!Least, Least, Tick
  <2> QED
    BY <2>2 DEF Buckets!Next
<1>2. CASE Lose
  <2>1. \A k \in Keys : Refilled(k)' = Burst[k]
    BY <1>2 DEF Lose, Refilled
  <2>2. Buckets!StartOver
    BY <1>2, <2>1 DEF Buckets!StartOver, Lose
  <2> QED
    BY <2>2 DEF Buckets!Next
<1>3. CASE NewWindow
  <2>1. \A k \in Keys : Refilled(k)' = Refilled(k)
    BY <1>3 DEF NewWindow, Refilled, Grown, bucketVars
  <2>2. Buckets!NewWindow
    BY <1>3, <2>1 DEF Buckets!NewWindow, NewWindow
  <2> QED
    BY <2>2 DEF Buckets!Next
<1>4. ASSUME NEW k \in Keys, Allow(k)
      PROVE  Buckets!Take(k)
  <2>1. /\ Refilled(k) - Unit \in Nat /\ Refilled(k) - Unit <= Burst[k]
        /\ Ask(k, Refilled(k) - Unit) /\ now' = now
    BY <1>0, <1>4 DEF Allow
  <2>2. /\ Refilled(k)' = Refilled(k) - Unit
        /\ \A j \in Keys \ {k} : Refilled(j)' = Refilled(j)
    BY <2>1, AskLeavesOthers
  <2>3. level' = [level EXCEPT ![k] = @ - Unit]
    BY <2>2
  <2> QED
    BY <1>4, <2>3 DEF Buckets!Take, Allow
<1>5. ASSUME NEW k \in Keys, Limit(k)
      PROVE  Buckets!Refuse(k)
  <2>1. Ask(k, Refilled(k)) /\ now' = now
    BY <1>5 DEF Limit
  <2>2. \A j \in Keys : Refilled(j)' = Refilled(j)
    BY <1>0, <2>1, AskLeavesOthers
  <2> QED
    BY <1>5, <2>2 DEF Buckets!Refuse, Limit, historyVars
<1>6. ASSUME NEW k \in Keys, Expire(k)
      PROVE  UNCHANGED Buckets!vars
  <2>1. \A j \in Keys : Refilled(j)' = Refilled(j)
    BY <1>6, ExpireIsInvisible
  <2> QED
    BY <1>6, <2>1 DEF Buckets!vars, Expire, historyVars
<1>7. ASSUME NEW k \in Keys, FailOpen(k)
      PROVE  Buckets!FailOpen(k)
  BY <1>7 DEF Buckets!FailOpen, FailOpen, Refilled, Grown, bucketVars, historyVars
<1>8. CASE UNCHANGED vars
  <2>1. UNCHANGED Buckets!vars
    BY <1>8 DEF Buckets!vars, vars, Refilled, Grown, bucketVars, historyVars
  <2> QED
    BY <2>1
<1>9. (\E k \in Keys : Allow(k) \/ Limit(k) \/ Expire(k) \/ FailOpen(k))
        => [Buckets!Next]_(Buckets!vars)
  BY <1>4, <1>5, <1>6, <1>7 DEF Buckets!Next
<1> QED
  BY <1>1, <1>2, <1>3, <1>8, <1>9 DEF Next, Check

\* The limiters implement the buckets that are refilled every tick and never
\* forgotten (ratelimit.rs, the sweep of LocalRateLimiter and the PEXPIRE of the
\* script).
THEOREM LimiterImplementsBuckets == Spec => ForgettingIsInvisible
<1>1. Init => Buckets!Init
  BY LimiterAssumption DEF Init, Buckets!Init, Refilled
<1>2. TypeOK /\ [Next]_vars => [Buckets!Next]_(Buckets!vars)
  BY BucketStep
<1> QED
  BY <1>1, <1>2, LimiterTyped, PTL DEF Spec, ForgettingIsInvisible, Buckets!Spec

----------------------------------------------------------------------------
(* The locks *)

\* Keys come first, preferences last.
Rank(r) ==
    CASE r.row = "key" -> 0
      [] r.row = "counters" -> r.sub
      [] OTHER -> MaxSub + 1

\* What a transaction that runs has locked, wants and has left.
Locked(t) ==
    LET p == program[t]
    IN /\ p \in Programs
       /\ left[t] \subseteq Rows(p)
       /\ held[t] \subseteq Rows(p) \ left[t]
       /\ want[t] # NoRow => status[t] = "running" /\ want[t] \in left[t]
       /\ held[t] # {} => status[t] = "running"
       /\ status[t] = "running" =>
            \A r \in Rows(p) \ left[t] : r.row # "key" => r \in held[t]
       /\ \A q \in left[t], r \in held[t] : ~Before(p, q, r)
       /\ want[t] # NoRow => \A q \in left[t] : ~Before(p, q, want[t])

Inv ==
    /\ DOMAIN program = Txns
    /\ status \in [Txns -> {"running", "done", "failed"}]
    /\ DOMAIN left = Txns /\ DOMAIN want = Txns /\ DOMAIN held = Txns
    /\ \A t \in Txns : Locked(t)
    /\ \A t, u \in Txns : t # u => held[t] \cap held[u] = {}

\* A row is a key, a counters row or a preference of the program.
LEMMA RowShape ==
    ASSUME NEW p \in Programs, NEW r \in Rows(p)
    PROVE  /\ r # NoRow
           /\ \/ r.row = "key" /\ r.sub \in p.upserts /\ r = Key(r.sub)
              \/ r.row = "counters" /\ r.sub \in p.subs /\ r = Counters(r.sub)
              \/ r.row = "preference" /\ r.cat \in p.cats
                   /\ r = Preference(p.target, r.cat)
BY DEF Rows, NoRow, Key, Counters, Preference

LEMMA InitInv == LockInit => Inv
BY DEF LockInit, Inv, Locked

\* A transaction a step leaves alone keeps what it has.
LEMMA Untouched ==
    ASSUME NEW t \in Txns, Locked(t), program' = program,
           status'[t] = status[t], left'[t] = left[t],
           want'[t] = want[t], held'[t] = held[t]
    PROVE  Locked(t)'
BY DEF Locked

LEMMA PickInv ==
    ASSUME Inv, NEW t \in Txns, Pick(t)
    PROVE  Inv'
<1>1. Locked(t)'
  BY DEF Inv, Pick, Locked
<1>2. ASSUME NEW u \in Txns, u # t PROVE Locked(u)'
  BY <1>2, Untouched DEF Inv, Pick
<1> QED
  BY <1>1, <1>2 DEF Inv, Pick

LEMMA LockInv ==
    ASSUME Inv, NEW t \in Txns, Lock(t)
    PROVE  Inv'
<1>1. Locked(t)'
  <2> DEFINE w == want[t]
  <2>1. w \in left[t] /\ w # NoRow /\ status[t] = "running" /\ program[t] \in Programs
    BY DEF Inv, Lock, Locked
  <2>2. left'[t] = left[t] \ {w} /\ want'[t] = NoRow /\ status' = status
        /\ program' = program
    BY DEF Inv, Lock
  <2>3. held'[t] \subseteq held[t] \cup {w} /\ held[t] \subseteq held'[t]
    BY DEF Inv, Lock
  <2>4. w.row # "key" => w \in held'[t]
    BY DEF Inv, Lock, AlreadyThere
  <2>5. \A q \in left'[t], r \in held'[t] : ~Before(program[t], q, r)
    BY <2>1, <2>2, <2>3 DEF Inv, Locked
  <2>6. \A r \in Rows(program[t]) \ left'[t] : r.row # "key" => r \in held'[t]
    BY <2>1, <2>2, <2>3, <2>4 DEF Inv, Locked
  <2>7. left'[t] \subseteq Rows(program[t])
        /\ held'[t] \subseteq Rows(program[t]) \ left'[t]
    BY <2>1, <2>2, <2>3 DEF Inv, Locked
  <2> QED
    BY <2>1, <2>2, <2>5, <2>6, <2>7 DEF Locked
<1>2. ASSUME NEW u \in Txns, u # t PROVE Locked(u)'
  BY <1>2, Untouched DEF Inv, Lock
<1>3. \A u, v \in Txns : u # v => held'[u] \cap held'[v] = {}
  <2>1. \A u \in Txns \ {t} : held'[u] = held[u] /\ want[t] \notin held[u]
    BY DEF Inv, Lock, Free
  <2>2. held'[t] \subseteq held[t] \cup {want[t]}
    BY DEF Inv, Lock
  <2> QED
    BY <2>1, <2>2 DEF Inv
<1> QED
  BY <1>1, <1>2, <1>3 DEF Inv, Lock

LEMMA CommitInv ==
    ASSUME Inv, NEW t \in Txns, Commit(t)
    PROVE  Inv'
<1>1. Locked(t)'
  BY DEF Inv, Commit, Locked
<1>2. ASSUME NEW u \in Txns, u # t PROVE Locked(u)'
  BY <1>2, Untouched DEF Inv, Commit
<1>3. \A u, v \in Txns : u # v => held'[u] \cap held'[v] = {}
  BY DEF Inv, Commit
<1> QED
  BY <1>1, <1>2, <1>3 DEF Inv, Commit

LEMMA AbortInv ==
    ASSUME Inv, NEW t \in Txns, Abort(t)
    PROVE  Inv'
<1>1. Locked(t)'
  <2>1. left'[t] = LeftAfter(t) /\ status'[t] = StatusAfter(t) /\ held'[t] = {}
        /\ want'[t] = NoRow /\ program' = program /\ program[t] \in Programs
    BY DEF Inv, Abort, Locked
  <2> QED
    BY <2>1 DEF Locked, LeftAfter, StatusAfter
<1>2. ASSUME NEW u \in Txns, u # t PROVE Locked(u)'
  BY <1>2, Untouched DEF Inv, Abort
<1>3. \A u, v \in Txns : u # v => held'[u] \cap held'[v] = {}
  BY DEF Inv, Abort
<1>4. status' \in [Txns -> {"running", "done", "failed"}]
  BY DEF Inv, Abort, StatusAfter
<1> QED
  BY <1>1, <1>2, <1>3, <1>4 DEF Inv, Abort

\* What an ordered transaction holds ranks below what it wants, preferences apart.
LEMMA HeldBelowWant ==
    ASSUME Inv, NEW u \in Txns, Ordered(program[u]), want[u] # NoRow,
           NEW r \in held[u], r.row # "preference"
    PROVE  Rank(r) < Rank(want[u])
<1> DEFINE p == program[u]
           w == want[u]
<1>1. p \in Programs /\ w \in Rows(p) /\ r \in Rows(p) /\ w # r /\ ~Before(p, w, r)
  BY DEF Inv, Locked
<1>2. p.upserts \subseteq Subs /\ p.subs \subseteq Subs /\ MaxSub \in Nat
  BY <1>1, LockAssumption
<1>3. CASE r.row = "key"
  <2>1. w.row # "key"
    <3> SUFFICES ASSUME w.row = "key" PROVE FALSE
      OBVIOUS
    <3>1. w = Key(w.sub) /\ r = Key(r.sub) /\ w.sub \in p.upserts /\ r.sub \in p.upserts
      BY <1>1, <1>3, RowShape
    <3>2. w.sub = r.sub
      BY <1>1, <3>1, LockAssumption DEF Ordered, Single
    <3> QED
      BY <1>1, <3>1, <3>2
  <2>2. (w.row = "counters" /\ w.sub \in p.subs) \/ w.row = "preference"
    BY <1>1, <2>1, RowShape
  <2> QED
    BY <1>2, <1>3, <2>2 DEF Rank, Subs
<1>4. CASE r.row = "counters"
  <2>1. r = Counters(r.sub) /\ r.sub \in p.subs
    BY <1>1, <1>4, RowShape
  <2>2. w.row # "key"
    BY <1>1, <1>4 DEF Before, Statement
  <2>3. CASE w.row = "preference"
    BY <1>2, <1>4, <2>1, <2>3 DEF Rank, Subs
  <2>4. CASE w.row = "counters"
    <3>1. w = Counters(w.sub) /\ w.sub \in p.subs
      BY <1>1, <2>4, RowShape
    <3>2. w.sub # r.sub
      BY <1>1, <2>1, <3>1
    <3>3. Sorted(p)
      BY <1>1, <2>1, <3>1, <3>2, LockAssumption DEF Ordered, Sorted, Single
    <3>4. ~(w.sub < r.sub)
      BY <1>1, <1>4, <2>4, <3>3 DEF Before
    <3> QED
      BY <1>2, <1>4, <2>1, <2>4, <3>1, <3>2, <3>4 DEF Rank, Subs
  <2> QED
    BY <1>1, <2>2, <2>3, <2>4, RowShape
<1> QED
  BY <1>1, <1>3, <1>4, RowShape

\* Who holds or wants a preference holds the counters row of its subscriber.
LEMMA CountersFirst ==
    ASSUME Inv, NEW u \in Txns, Ordered(program[u]), NEW r,
           r \in held[u] \/ (r = want[u] /\ want[u] # NoRow), r.row = "preference"
    PROVE  Counters(program[u].target) \in held[u] /\ r.sub = program[u].target
<1> DEFINE p == program[u]
           c == Counters(p.target)
<1>1. p \in Programs /\ r \in Rows(p) /\ status[u] = "running"
  BY DEF Inv, Locked
<1>2. r.cat \in p.cats /\ r = Preference(p.target, r.cat)
  BY <1>1, RowShape
<1>3. p.kind = "move"
  BY <1>1, <1>2, LockAssumption DEF Ordered
<1>4. c \in Rows(p) /\ c.row = "counters"
  BY <1>1, <1>3, LockAssumption DEF Rows, Counters
<1>5. Before(p, c, r)
  BY <1>2, <1>3, <1>4 DEF Before, Statement, Preference
<1>6. c \notin left[u]
  BY <1>5 DEF Inv, Locked
<1>7. c \in held[u]
  BY <1>1, <1>4, <1>6 DEF Inv, Locked
<1> QED
  BY <1>2, <1>7 DEF Preference

\* Along a wait between ordered transactions that both wait the rank climbs.
LEMMA WaitsClimb ==
    ASSUME Inv, NEW t \in Txns, NEW u \in Txns,
           Ordered(program[t]), Ordered(program[u]),
           Waits(t, u), want[t] # NoRow, want[u] # NoRow
    PROVE  Rank(want[t]) < Rank(want[u])
<1>1. t # u /\ want[t] \in held[u]
  BY DEF Waits
<1>2. want[t].row # "preference"
  <2> SUFFICES ASSUME want[t].row = "preference" PROVE FALSE
    OBVIOUS
  <2>1. Counters(program[t].target) \in held[t] /\ want[t].sub = program[t].target
    BY CountersFirst
  <2>2. Counters(program[u].target) \in held[u] /\ want[t].sub = program[u].target
    BY <1>1, CountersFirst
  <2> QED
    BY <1>1, <2>1, <2>2 DEF Inv
<1> QED
  BY <1>1, <1>2, HeldBelowWant

LEMMA RankNat ==
    ASSUME Inv, NEW t \in Txns, want[t] # NoRow
    PROVE  Rank(want[t]) \in 0 .. MaxSub + 1
<1>1. program[t] \in Programs /\ want[t] \in Rows(program[t])
  BY DEF Inv, Locked
<1>2. program[t].subs \subseteq 1 .. MaxSub /\ MaxSub \in Nat
  BY <1>1, LockAssumption DEF Subs
<1> QED
  BY <1>1, <1>2, RowShape DEF Rank

\* The highest rank that is wanted in a stuck set would have to climb.
LEMMA InvOrdered == Inv => OrderedNeverStuck
<1> SUFFICES ASSUME Inv, NEW D \in SUBSET {t \in Txns : Ordered(program[t])}, Stuck(D)
             PROVE  FALSE
  BY DEF OrderedNeverStuck
<1> DEFINE Height == {MaxSub + 1 - Rank(want[t]) : t \in D}
<1>1. \A t \in D : t \in Txns /\ Ordered(program[t])
  OBVIOUS
<1>2. \A t \in D : want[t] # NoRow
  <2> TAKE t \in D
  <2>1. PICK u \in D : Waits(t, u)
    BY DEF Stuck
  <2>2. want[t] \in Rows(program[u]) /\ program[u] \in Programs
    BY <1>1, <2>1 DEF Waits, Inv, Locked
  <2> QED
    BY <2>2, RowShape
<1>3. MaxSub \in Nat /\ \A t \in D : Rank(want[t]) \in 0 .. MaxSub + 1
  BY <1>1, <1>2, RankNat, LockAssumption
<1>4. Height \subseteq Nat /\ Height # {}
  BY <1>3 DEF Stuck
<1>5. PICK h \in Height : \A k \in Height : ~(<<k, h>> \in OpToRel(<, Nat))
  BY <1>4, WFMin, NatLessThanWellFounded, Zenon
<1>6. PICK t \in D : h = MaxSub + 1 - Rank(want[t])
  BY <1>5
<1>7. PICK u \in D : Waits(t, u)
  BY DEF Stuck
<1>8. Rank(want[t]) < Rank(want[u])
  BY <1>1, <1>2, <1>7, WaitsClimb
<1>9. MaxSub + 1 - Rank(want[u]) \in Height /\ MaxSub + 1 - Rank(want[u]) < h
  BY <1>3, <1>6, <1>8
<1>10. <<MaxSub + 1 - Rank(want[u]), h>> \in OpToRel(<, Nat)
  BY <1>4, <1>5, <1>9, Zenon DEF OpToRel
<1> QED
  BY <1>5, <1>9, <1>10, Zenon

\* Ordered transactions, however many, never wait for each other in a circle: the
\* sorted FOR UPDATE of move_notifications_txn and process_deliver, and the
\* statement order of everything that works on one subscriber, are enough.
THEOREM NeverStuck == LockSpec => []OrderedNeverStuck
<1>1. Inv /\ [LockNext]_lockVars => Inv'
  <2> SUFFICES ASSUME Inv, [LockNext]_lockVars PROVE Inv'
    OBVIOUS
  <2>1. CASE LockNext
    BY <2>1, PickInv, LockInv, CommitInv, AbortInv DEF LockNext
  <2>2. CASE UNCHANGED lockVars
    BY <2>2 DEF lockVars, Inv, Locked
  <2> QED
    BY <2>1, <2>2
<1> QED
  BY <1>1, InitInv, InvOrdered, PTL DEF LockSpec
=============================================================================
