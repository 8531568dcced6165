---------------------------- MODULE MCLockOrder ----------------------------
(* Three transactions out of every kind, on three subscribers of which one  *)
(* does not exist yet and two categories.                                   *)
EXTENDS LockOrder, Sequences, Functions

CONSTANTS c1, c2, t1, t2, t3

Work(kind, job, upserts, subs, target, cats) ==
    [kind |-> kind, job |-> job, upserts |-> upserts, subs |-> subs,
     target |-> target, cats |-> cats]

Listed == <<
    Work("create", FALSE, {1}, {1}, 1, {}), Work("create", FALSE, {3}, {3}, 1, {}),
    Work("create", FALSE, {1, 2}, {1, 2}, 1, {}), Work("create", FALSE, {1, 3}, {1, 3}, 1, {}),
    Work("create", FALSE, {2, 3}, {}, 1, {}),                        \* a scheduled one
    Work("deliver", TRUE, {}, {1, 2}, 1, {}),
    Work("move", FALSE, {2}, {1, 2}, 2, {}), Work("move", FALSE, {2}, {1, 2}, 2, {c1, c2}),
    Work("move", FALSE, {1}, {1, 2}, 1, {c1}),                       \* back again
    Work("move", FALSE, {3}, {2, 3}, 3, {c1}),                       \* to a new one
    Work("prefs", FALSE, {}, {2}, 2, {c1}), Work("prefs", FALSE, {}, {2}, 2, {c1, c2}),
    Work("one", FALSE, {}, {1}, 1, {}), Work("one", TRUE, {}, {1}, 1, {})>>

Mix == Range(Listed)

\* The transactions are alike: their programs in one order are enough.
Rank(t) == CHOOSE i \in DOMAIN Listed : Listed[i] = program[t]

MixInit == LockInit /\ Rank(t1) <= Rank(t2) /\ Rank(t2) <= Rank(t3)

MixSpec == MixInit /\ [][LockNext]_lockVars /\ LockFairness
=============================================================================
