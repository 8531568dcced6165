---------------------------- MODULE TokenBucket ----------------------------
(***************************************************************************)
(* What the rate limiter promises: every key has a bucket that is refilled *)
(* as time passes and is never lost.  A request takes one token or is      *)
(* refused; whatever window one looks at, no more requests get through     *)
(* than a full bucket and the refill of the window allow.                  *)
(***************************************************************************)
EXTENDS Integers

CONSTANTS
    Keys,    \* API keys and subscribers
    Unit,    \* the size of one token, in the units the refill is counted in
    Rate,    \* units a key's bucket gains in a tick
    Burst    \* units it holds

VARIABLES
    level,     \* units in each bucket
    answer,    \* the last key that asked, and what it was told
    admitted,  \* requests each key got through since the window began
    elapsed    \* ticks since the window began

vars == <<level, answer, admitted, elapsed>>

Least(a, b) == IF a <= b THEN a ELSE b

Init ==
    /\ level = Burst
    /\ answer = << >>
    /\ admitted = [k \in Keys |-> 0]
    /\ elapsed = 0

Tick ==
    /\ level' = [k \in Keys |-> Least(Burst[k], level[k] + Rate[k])]
    /\ elapsed' = elapsed + 1
    /\ UNCHANGED <<answer, admitted>>

Take(k) ==
    /\ level[k] >= Unit
    /\ level' = [level EXCEPT ![k] = @ - Unit]
    /\ admitted' = [admitted EXCEPT ![k] = @ + 1]
    /\ answer' = <<k, "allowed">>
    /\ UNCHANGED elapsed

Refuse(k) ==
    /\ level[k] < Unit
    /\ answer' = <<k, "limited">>
    /\ UNCHANGED <<level, admitted, elapsed>>

\* Without its store the limiter lets everything through, and a store that
\* comes back empty starts every bucket, and the account, anew.
FailOpen(k) ==
    /\ answer' = <<k, "unmetered">>
    /\ UNCHANGED <<level, admitted, elapsed>>

StartOver ==
    /\ level' = Burst
    /\ admitted' = [k \in Keys |-> 0]
    /\ elapsed' = 0
    /\ UNCHANGED answer

\* Any moment can be the beginning of the window that is looked at.
NewWindow ==
    /\ admitted' = [k \in Keys |-> 0]
    /\ elapsed' = 0
    /\ UNCHANGED <<level, answer>>

Next ==
    \/ Tick \/ StartOver \/ NewWindow
    \/ \E k \in Keys : Take(k) \/ Refuse(k) \/ FailOpen(k)

Spec == Init /\ [][Next]_vars
=============================================================================
