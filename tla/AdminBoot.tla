------------------------------ MODULE AdminBoot ------------------------------
(***************************************************************************)
(* The boot of the replicas and the root admin (bootstrap.rs ensure_admin):*)
(* the account whose email and password are in the environment is created, *)
(* or brought back to them, while a replica that is up already serves the  *)
(* admin plane of AdminRoster.  The statements of a boot are transactions  *)
(* of their own, and a replica may crash after any of them.                *)
(***************************************************************************)
EXTENDS AdminRoster, Naturals

CONSTANTS
    Replicas,
    RootIds,        \* the accounts that have, one after the other, the root email
    EnvPassword,
    MaxChanges,     \* bound: what is done through the admin plane
    MaxBoots        \* bound: boots, those after a crash included

ASSUME BootAssumption ==
    /\ RootIds \subseteq People /\ EnvPassword \in Passwords
    /\ MaxChanges \in Nat /\ MaxBoots \in Nat

VARIABLES
    boot,           \* how far a replica's boot has come, the account it has read,
                    \* and whether the admin plane has changed the root account since
    interrupted,    \* history: a crash between the rotation and the eviction
    changes, boots

bootVars == <<boot, interrupted, changes, boots>>
allVars == <<rosterVars, bootVars>>

Root == {p \in RootIds : Is(p)}

RootRow == [role |-> "admin", disabled |-> FALSE, password |-> EnvPassword]

\* Mutant: the password alone is compared.
MatchesPassword(p) == roster[p].password = EnvPassword

Matches(p) == EnabledAdmin(p) /\ roster[p].password = EnvPassword

\* A process starts, the first time or after it went down.
Start(i) ==
    /\ boot[i].phase = "down" /\ boots < MaxBoots
    /\ boots' = boots + 1
    /\ boot' = [boot EXCEPT ![i] = [phase |-> "reads", id |-> None, disturbed |-> FALSE]]
    /\ UNCHANGED <<rosterVars, interrupted, changes>>

To(i, phase, id) == boot' = [boot EXCEPT ![i].phase = phase, ![i].id = id]

\* The row with the root email: fine, drifted, or not there.
ReadRoot(i) ==
    /\ boot[i].phase = "reads"
    /\ \/ Root = {} /\ To(i, "inserts", None)
       \/ \E p \in Root : To(i, IF Matches(p) THEN "up" ELSE "updates", p)
    /\ UNCHANGED <<rosterVars, interrupted, changes, boots>>

\* A row that is gone meanwhile is not updated, and nobody notices.
UpdateRoot(i) ==
    /\ boot[i].phase = "updates"
    /\ LET p == boot[i].id
       IN  /\ roster' = IF Is(p) THEN [roster EXCEPT ![p] = RootRow] ELSE roster
           /\ To(i, "evicts", p)
    /\ UNCHANGED <<sessions, logins, rosterLock, tx, interrupted, changes, boots>>

\* Mutant: the sessions of the account are left to expire.
EvictNobody(p) == UNCHANGED <<sessions, logins>>

EvictRoot(p) == Evict(p)

DeleteSessions(i) ==
    /\ boot[i].phase = "evicts"
    /\ EvictRoot(boot[i].id)
    /\ To(i, "up", boot[i].id)
    /\ UNCHANGED <<roster, rosterLock, tx, interrupted, changes, boots>>

\* A row that is there by now: the unique email fails the boot.
InsertRoot(i) ==
    /\ boot[i].phase = "inserts"
    /\ IF Root # {}
       THEN To(i, "down", None) /\ UNCHANGED roster
       ELSE \E p \in RootIds :
                /\ roster[p] = None
                /\ roster' = [roster EXCEPT ![p] = RootRow]
                /\ To(i, "up", p)
    /\ UNCHANGED <<sessions, logins, rosterLock, tx, interrupted, changes, boots>>

Crash(i) ==
    /\ boot[i].phase # "down"
    /\ To(i, "down", None)
    /\ interrupted' = (interrupted \/ boot[i].phase = "evicts")
    /\ UNCHANGED <<rosterVars, changes, boots>>

----------------------------------------------------------------------------
(* The admin plane of the replicas that are up *)

Serving == \E i \in Replicas : boot[i].phase = "up"

\* What the admin plane does to the root account, a boot under way may miss.
Disturbs ==
    boot' = IF \A p \in RootIds : roster'[p] = roster[p] THEN boot
            ELSE [i \in Replicas |-> [boot[i] EXCEPT !.disturbed = TRUE]]

Asks ==
    \/ \E c \in Calls, op \in Ops, by, p \in People : Begin(c, op, by, p, "viewer")
    \/ \E p \in Root, password \in Passwords : SetPassword(p, password)
    \/ \E s \in Sessions, p \in Root : LoginRead(s, p)

GoesOn ==
    \/ \E c \in Calls : Lock(c) \/ Guard(c) \/ Commit(c) \/ Abort(c) \/ Answer(c)
    \/ \E s \in Sessions : LoginInsert(s)

AdminPlane ==
    /\ Serving
    /\ \/ Asks /\ changes < MaxChanges /\ changes' = changes + 1
       \/ GoesOn /\ UNCHANGED changes
    /\ Disturbs
    /\ UNCHANGED <<interrupted, boots>>

BootInit ==
    /\ RosterInit
    /\ boot = [i \in Replicas |-> [phase |-> "down", id |-> None, disturbed |-> FALSE]]
    /\ interrupted = FALSE /\ changes = 0 /\ boots = 0

BootNext ==
    \/ AdminPlane
    \/ \E i \in Replicas : \/ Start(i) \/ ReadRoot(i) \/ UpdateRoot(i)
                           \/ DeleteSessions(i) \/ InsertRoot(i) \/ Crash(i)

BootSpec == BootInit /\ [][BootNext]_allVars

----------------------------------------------------------------------------
(* Properties *)

Evicting == \E i \in Replicas : boot[i].phase = "evicts"

\* The shape of the state; the root email is one account's at a time.
BootTypeOK ==
    /\ RosterTypeOK
    /\ \A p, q \in Root : p = q
    /\ boot \in [Replicas ->
           [phase : {"down", "reads", "updates", "evicts", "inserts", "up"},
            id : RootIds \cup {None}, disturbed : BOOLEAN]]
    /\ \A i \in Replicas : boot[i].phase \in {"updates", "evicts"} => boot[i].id # None
    /\ changes <= MaxChanges /\ boots <= MaxBoots

\* A replica that is up has left an enabled root admin with the password of the
\* environment, unless the admin plane changed that account since its boot
\* began; so a restart is the way out of a lockout, however many replicas start
\* at once and crash on the way (bootstrap.rs ensure_admin).
RestartRestores ==
    \A i \in Replicas :
        boot[i].phase = "up" /\ ~boot[i].disturbed =>
            \E p \in Root : EnabledAdmin(p) /\ roster[p].password = EnvPassword

\* Once no boot stands between the rotation of the root password and the
\* eviction, only current sessions are left; excepted is a crash between the
\* two statements, which run outside a transaction (bootstrap.rs ensure_admin).
EvictedAtRest == ~interrupted /\ ~Evicting => SessionsCurrent
=============================================================================
