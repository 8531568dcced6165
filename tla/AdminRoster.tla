----------------------------- MODULE AdminRoster -----------------------------
(***************************************************************************)
(* The admin users of an instance (api/admin.rs, auth.rs): role changes,   *)
(* disabling and deletion under the roster lock with the guard rails of    *)
(* the last enabled admin, password resets, and the sessions of logins.    *)
(*                                                                         *)
(* A role change, a disabling or a deletion is authorised, waits for the   *)
(* advisory lock, reads, and writes; a login checks the password and       *)
(* inserts its session later.  A person is an account: once deleted, an    *)
(* account with the same email is another one.                             *)
(***************************************************************************)
CONSTANTS
    People,
    Passwords, FirstPassword,
    Calls,          \* requests under way
    Sessions,       \* session rows
    Admins,         \* the enabled admins of the beginning
    None,
    Gone            \* the row of a deleted account

Roles == {"viewer", "operator", "developer", "admin"}

ASSUME RosterAssumption ==
    /\ Admins # {} /\ Admins \subseteq People
    /\ FirstPassword \in Passwords
    /\ None \notin Calls \cup Sessions
    /\ None # Gone
    /\ {None, Gone} \cap [role : Roles, disabled : BOOLEAN, password : Passwords] = {}

VARIABLES
    roster,         \* admin_users: None before it is created, then a row, then Gone
    sessions,       \* admin_sessions: the person and the password that was checked
    logins,         \* logins that have checked the password
    rosterLock,     \* who holds the advisory lock
    tx              \* the transactions of the calls

rosterVars == <<roster, sessions, logins, rosterLock, tx>>

Row == [role : Roles, disabled : BOOLEAN, password : Passwords]

Is(p) == roster[p] \in Row

EnabledAdmin(p) == Is(p) /\ roster[p].role = "admin" /\ ~roster[p].disabled

\* AdminAuth: a session row of an enabled user.
Live(s) == s # None /\ sessions[s] # None /\ Is(sessions[s].who)
                    /\ ~roster[sessions[s].who].disabled

\* Sessions and logins of a person that are over: rows are deleted, a login
\* that still has to insert one has read what holds no longer.
Evict(p) ==
    /\ sessions' = [s \in Sessions |->
           IF sessions[s] # None /\ sessions[s].who = p THEN None ELSE sessions[s]]
    /\ logins' = [s \in Sessions |->
           IF logins[s] # None /\ logins[s].who = p
           THEN [logins[s] EXCEPT !.overtaken = TRUE] ELSE logins[s]]

\* History: the sessions of a person have missed the end that was due to them.
Outlive(p) ==
    /\ sessions' = [s \in Sessions |->
           IF sessions[s] # None /\ sessions[s].who = p
           THEN [sessions[s] EXCEPT !.overtaken = TRUE] ELSE sessions[s]]
    /\ logins' = [s \in Sessions |->
           IF logins[s] # None /\ logins[s].who = p
           THEN [logins[s] EXCEPT !.overtaken = TRUE] ELSE logins[s]]

----------------------------------------------------------------------------
(* update_user and delete_user *)

\* auth.require(UserManage), before the transaction.
Begin(c, op, by, target, to) ==
    /\ tx[c] = None /\ EnabledAdmin(by)
    /\ tx' = [tx EXCEPT ![c] = [op |-> op, by |-> by, target |-> target, to |-> to,
                                read |-> None, phase |-> "waits"]]
    /\ UNCHANGED <<roster, sessions, logins, rosterLock>>

\* Mutant: lock_admin_roster takes nothing.
LockNothing(c) ==
    /\ tx[c] # None /\ tx[c].phase = "waits"
    /\ tx' = [tx EXCEPT ![c].phase = "holds"]
    /\ UNCHANGED <<roster, sessions, logins, rosterLock>>

Lock(c) ==
    /\ tx[c] # None /\ tx[c].phase = "waits"
    /\ rosterLock = None
    /\ rosterLock' = c
    /\ tx' = [tx EXCEPT ![c].phase = "holds"]
    /\ UNCHANGED <<roster, sessions, logins>>

\* The row as the transaction reads it, under the lock, and what it makes of
\* the columns: all of them are written, those it was not asked to change from
\* what it has read.
Read(t) == [t EXCEPT !.read = roster[t.target]]

NewRole(t) == IF t.op = "role" THEN t.to ELSE t.read.role

NewDisabled(t) == \/ t.op = "disable"
                  \/ t.op = "role" /\ t.read.disabled

NewlyDisabled(t) == NewDisabled(t) /\ ~t.read.disabled

WasEnabledAdmin(t) == t.read.role = "admin" /\ ~t.read.disabled

StaysEnabledAdmin(t) == t.op # "delete" /\ NewRole(t) = "admin" /\ ~NewDisabled(t)

\* The guard rail against disabling or deleting oneself.
OnOneself(t) == t.target = t.by /\ (t.op = "delete" \/ NewlyDisabled(t))

\* ensure_other_enabled_admin_exists.
OtherEnabledAdmin(p) == \E q \in People \ {p} : EnabledAdmin(q)

MayWrite(t) ==
    /\ t.read \in Row /\ ~OnOneself(t)
    /\ WasEnabledAdmin(t) /\ ~StaysEnabledAdmin(t) => OtherEnabledAdmin(t.target)

Guard(c) ==
    /\ tx[c] # None /\ tx[c].phase = "holds"
    /\ LET t == Read(tx[c])
       IN  IF MayWrite(t)
           THEN tx' = [tx EXCEPT ![c] = [t EXCEPT !.phase = "writes"]] /\ UNCHANGED rosterLock
           ELSE tx' = [tx EXCEPT ![c].phase = "refused"] /\ rosterLock' = None
    /\ UNCHANGED <<roster, sessions, logins>>

\* The lock does not keep a boot from writing the row meanwhile (AdminBoot).
Written(t) ==
    IF t.op = "delete" THEN Gone
    ELSE [roster[t.target] EXCEPT !.role = NewRole(t), !.disabled = NewDisabled(t)]

\* The sessions go with the row of a deleted account (ON DELETE CASCADE), and
\* with an account that was read enabled and is disabled.
Ends(t) == t.op = "delete" \/ NewlyDisabled(t)

\* An account that was enabled after it was read is disabled again, and its
\* sessions stay.
Relapses(t) == ~Ends(t) /\ NewDisabled(t) /\ ~roster[t.target].disabled

SessionsAfter(t) ==
    CASE Ends(t)     -> Evict(t.target)
      [] Relapses(t) -> Outlive(t.target)
      [] OTHER       -> UNCHANGED <<sessions, logins>>

Commit(c) ==
    /\ tx[c] # None /\ tx[c].phase = "writes"
    /\ Is(tx[c].target)
    /\ roster' = [roster EXCEPT ![tx[c].target] = Written(tx[c])]
    /\ SessionsAfter(tx[c])
    /\ rosterLock' = None
    /\ tx' = [tx EXCEPT ![c].phase = "done"]

\* The connection breaks: rollback.
Abort(c) ==
    /\ tx[c] # None /\ tx[c].phase \in {"waits", "holds", "writes"}
    /\ rosterLock' = IF rosterLock = c THEN None ELSE rosterLock
    /\ tx' = [tx EXCEPT ![c].phase = "refused"]
    /\ UNCHANGED <<roster, sessions, logins>>

\* The request has been answered.
Answer(c) ==
    /\ tx[c] # None /\ tx[c].phase \in {"done", "refused"}
    /\ tx' = [tx EXCEPT ![c] = None]
    /\ UNCHANGED <<roster, sessions, logins, rosterLock>>

----------------------------------------------------------------------------
(* create_user, set_user_password: one statement, one transaction; no lock *)

CreateUser(p, role, password) ==
    /\ roster[p] = None
    /\ roster' = [roster EXCEPT ![p] = [role |-> role, disabled |-> FALSE,
                                        password |-> password]]
    /\ UNCHANGED <<sessions, logins, rosterLock, tx>>

SetPassword(p, password) ==
    /\ Is(p)
    /\ roster' = [roster EXCEPT ![p].password = password]
    /\ Evict(p)
    /\ UNCHANGED <<rosterLock, tx>>

----------------------------------------------------------------------------
(* login, logout *)

\* The row is read, and the password verified against its hash.
LoginRead(s, p) ==
    /\ sessions[s] = None /\ logins[s] = None
    /\ Is(p) /\ ~roster[p].disabled
    /\ logins' = [logins EXCEPT ![s] = [who |-> p, password |-> roster[p].password,
                                        overtaken |-> FALSE]]
    /\ UNCHANGED <<roster, sessions, rosterLock, tx>>

\* create_session; the row must refer to an account.
LoginInsert(s) ==
    /\ logins[s] # None
    /\ sessions' = [sessions EXCEPT ![s] = IF Is(logins[s].who) THEN logins[s] ELSE None]
    /\ logins' = [logins EXCEPT ![s] = None]
    /\ UNCHANGED <<roster, rosterLock, tx>>

\* delete_session, or its time is over.
EndSession(s) ==
    /\ sessions[s] # None
    /\ sessions' = [sessions EXCEPT ![s] = None]
    /\ UNCHANGED <<roster, logins, rosterLock, tx>>

----------------------------------------------------------------------------
RosterInit ==
    /\ roster = [p \in People |->
           IF p \in Admins THEN [role |-> "admin", disabled |-> FALSE, password |-> FirstPassword]
           ELSE None]
    /\ sessions = [s \in Sessions |-> None] /\ logins = [s \in Sessions |-> None]
    /\ rosterLock = None /\ tx = [c \in Calls |-> None]

Ops == {"role", "disable", "enable", "delete"}

RosterNext ==
    \/ \E c \in Calls : Lock(c) \/ Guard(c) \/ Commit(c) \/ Abort(c) \/ Answer(c)
    \/ \E c \in Calls, op \in Ops, by, target \in People, to \in Roles :
           Begin(c, op, by, target, to)
    \/ \E p \in People, password \in Passwords : SetPassword(p, password)
    \/ \E p \in People, role \in Roles, password \in Passwords : CreateUser(p, role, password)
    \/ \E s \in Sessions : LoginInsert(s) \/ EndSession(s) \/ \E p \in People : LoginRead(s, p)

RosterSpec == RosterInit /\ [][RosterNext]_rosterVars

Tx == [op : Ops, by : People, target : People, to : Roles, read : Row \cup {None},
       phase : {"waits", "holds", "writes", "done", "refused"}]

Login == [who : People, password : Passwords, overtaken : BOOLEAN]

RosterTypeOK ==
    /\ roster \in [People -> Row \cup {None, Gone}]
    /\ sessions \in [Sessions -> Login \cup {None}]
    /\ logins \in [Sessions -> Login \cup {None}]
    /\ rosterLock \in Calls \cup {None}
    /\ tx \in [Calls -> Tx \cup {None}]
    /\ \A c \in Calls : tx[c] # None /\ tx[c].phase = "writes" => tx[c].read \in Row

\* However many admins demote, disable and delete each other at once, and
\* whatever was authorised before, an enabled admin is left (admin.rs,
\* lock_admin_roster and ensure_other_enabled_admin_exists).
LastAdmin == \E p \in People : EnabledAdmin(p)

\* A session belongs to an enabled account and was opened with the password in
\* force: disabling, deleting and a reset end the others.  Excepted are a login
\* that had checked the password before and inserts its row after, which nothing
\* orders (admin.rs login and set_user_password), and the sessions of an account
\* that a boot has enabled under an update which had read it disabled and
\* writes that back without ending them (admin.rs update_user; AdminBoot).
SessionsCurrent ==
    \A s \in Sessions :
        sessions[s] # None /\ ~sessions[s].overtaken =>
            Live(s) /\ sessions[s].password = roster[sessions[s].who].password
=============================================================================
