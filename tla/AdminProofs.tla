---------------------------- MODULE AdminProofs ----------------------------
(***************************************************************************)
(* The admin users, the boot of the root admin and the console, for any    *)
(* numbers of admins, requests, sessions, replicas, crashes and rows.      *)
(*                                                                         *)
(* An enabled admin is always left: this rests on the lock.  From the      *)
(* guard to the write only its holder demotes, disables or deletes, so     *)
(* that the other admin a guard has found, or did not need, is there when  *)
(* the write is made (WriterSafe), whatever a boot has made of the row     *)
(* that was read.                                                          *)
(*                                                                         *)
(* Sessions are current: the same is needed of the logins that have read   *)
(* and not yet inserted.  It is stated but for the people in a set         *)
(* (SessionsBut): none for the roster alone, and for the boots those whose *)
(* password has been rotated and who still await their eviction.           *)
(*                                                                         *)
(* A restart restores the root admin: what a boot has read stays true      *)
(* until it acts on it (Seen), for a boot that nobody disturbs.            *)
(*                                                                         *)
(* The console.  What a step does to a cached query is one of a few moves  *)
(* (EntryMove), and so is what it does to the secrets (Move), to a dialog  *)
(* with a password (FormMove), to the gate (GateMove) and to the list of   *)
(* notifications (ListMove).  Each action is shown once to make such a     *)
(* move; the invariants are then shown of the moves:                       *)
(*   - the backend signs with a secret that is accepted, because secrets   *)
(*     are numbered in their order and a completion under way names an     *)
(*     older one, or nothing else is shown (SecretsInOrder);               *)
(*   - a page at rest shows what its user was told, because what is on its *)
(*     way is at least that new, unless it was crossed (EntryKeeps);       *)
(*   - a password announced as set was set, because a request carries what *)
(*     its dialog shows until the dialog is closed or its email is edited  *)
(*     (Secure);                                                           *)
(*   - the pages passed miss nothing that was there for each of them,      *)
(*     because a page reaches from its cursor down to the next one         *)
(*     (PageFits, PassedFits).                                             *)
(* The console refines the roster, so that what holds of the roster holds  *)
(* with the console.                                                       *)
(***************************************************************************)
EXTENDS AdminConsole, AdminBoot, FiniteSetTheorems, WellFoundedInduction, TLAPS

\* Who is past the lock holds it, so that there is one (lock_admin_roster).
LockHeld ==
    \A c \in Calls :
        tx[c] # None /\ tx[c].phase \in {"holds", "writes"} => rosterLock = c

\* Between the guard and the write there is another enabled admin, unless the
\* write leaves one.
WriterSafe ==
    \A c \in Calls :
        tx[c] # None /\ tx[c].phase = "writes" =>
            /\ Is(tx[c].target)
            /\ ~StaysEnabledAdmin(tx[c]) => OtherEnabledAdmin(tx[c].target)

RosterInv == RosterTypeOK /\ LockHeld /\ WriterSafe /\ LastAdmin

\* What a login or a session row says of an account still holds.
Current(l) ==
    l # None /\ ~l.overtaken =>
        Is(l.who) /\ ~roster[l.who].disabled /\ l.password = roster[l.who].password

\* A session or login is current, or its person is exempted.
Allowed(l, exempt) == Current(l) \/ (l # None /\ l.who \in exempt)

SessionsBut(exempt) ==
    /\ RosterTypeOK
    /\ \A s \in Sessions : Allowed(sessions[s], exempt) /\ Allowed(logins[s], exempt)

----------------------------------------------------------------------------
\* The beginning: admins, and nothing under way.
LEMMA InitRoster == RosterInit => RosterInv /\ SessionsBut({})
<1> SUFFICES ASSUME RosterInit PROVE RosterInv /\ SessionsBut({})
    OBVIOUS
<1> USE RosterAssumption DEF RosterInit
<1>1. RosterTypeOK
    BY DEF RosterTypeOK, Row, Roles
<1>2. LockHeld /\ WriterSafe
    BY DEF LockHeld, WriterSafe
<1>3. LastAdmin
    <2> DEFINE first == [role |-> "admin", disabled |-> FALSE, password |-> FirstPassword]
    <2>1. PICK p \in People : p \in Admins
        OBVIOUS
    <2>2. roster[p] = first
        BY <2>1
    <2>3. FirstPassword \in Passwords
        OBVIOUS
    <2> HIDE RosterAssumption DEF RosterInit
    <2>4. first \in Row
        BY <2>3 DEF Row, Roles
    <2>5. EnabledAdmin(p)
        BY <2>2, <2>4 DEF EnabledAdmin, Is
    <2> QED BY <2>5 DEF LastAdmin
<1>4. \A s \in Sessions : Allowed(sessions[s], {}) /\ Allowed(logins[s], {})
    BY DEF Allowed, Current
<1> QED BY <1>1, <1>2, <1>3, <1>4 DEF RosterInv, SessionsBut

\* A person has a row or not; None and Gone are no rows.
LEMMA Marks == None \notin Row /\ Gone \notin Row
    BY RosterAssumption DEF Row

\* What a transaction has read gives the columns it writes.
LEMMA WrittenIs ==
    ASSUME NEW t \in Tx, t.op # "delete", t.read \in Row, Is(t.target)
    PROVE  /\ Written(t) \in Row
           /\ Written(t).role = NewRole(t)
           /\ Written(t).disabled <=> NewDisabled(t)
           /\ Written(t).password = roster[t.target].password
<1>1. PICK old \in Row : roster[t.target] = old
    BY DEF Is
<1>2. PICK read \in Row : t.read = read
    OBVIOUS
<1>3. NewRole(t) \in Roles
    BY <1>2 DEF NewRole, Tx, Row
<1>4. NewDisabled(t) \in BOOLEAN
    BY Zenon DEF NewDisabled
<1> DEFINE role == NewRole(t)
           disabled == NewDisabled(t)
<1>5. Written(t) = [old EXCEPT !.role = role, !.disabled = disabled]
    BY <1>1 DEF Written
<1> HIDE DEF role, disabled
<1>6. /\ Written(t) \in Row /\ Written(t).role = role
      /\ Written(t).disabled = disabled /\ Written(t).password = old.password
    BY <1>3, <1>4, <1>5 DEF Row, role, disabled
<1> QED BY <1>1, <1>6 DEF role, disabled

\* What a transaction writes is a row, or the mark of a deleted account.
LEMMA WritesRow ==
    ASSUME NEW t \in Tx, t.read \in Row, Is(t.target)
    PROVE  Written(t) \in Row \cup {Gone}
<1>1. t.op = "delete" => Written(t) = Gone
    BY DEF Written
<1>2. t.op # "delete" => Written(t) \in Row
    BY WrittenIs
<1> QED BY <1>1, <1>2

\* Evict keeps the shape of sessions and logins.
LEMMA EvictType ==
    ASSUME RosterTypeOK, NEW p, Evict(p)
    PROVE  /\ sessions' \in [Sessions -> Login \cup {None}]
           /\ logins' \in [Sessions -> Login \cup {None}]
    BY DEF RosterTypeOK, Evict, Login

\* So does a commit that marks them.
LEMMA OutliveType ==
    ASSUME RosterTypeOK, NEW p, Outlive(p)
    PROVE  /\ sessions' \in [Sessions -> Login \cup {None}]
           /\ logins' \in [Sessions -> Login \cup {None}]
    BY DEF RosterTypeOK, Outlive, Login

\* Type correctness, action by action.
LEMMA StepType == RosterTypeOK /\ [RosterNext]_rosterVars => RosterTypeOK'
<1> SUFFICES ASSUME RosterTypeOK, [RosterNext]_rosterVars PROVE RosterTypeOK'
    OBVIOUS
<1> USE DEF RosterTypeOK
<1>1. ASSUME NEW c \in Calls, Lock(c) PROVE RosterTypeOK'
    BY <1>1 DEF Lock, Tx
<1>2. ASSUME NEW c \in Calls, Guard(c) PROVE RosterTypeOK'
    <2>1. PICK t \in Tx : tx[c] = t
        BY <1>2 DEF Guard
    <2> DEFINE through == [t EXCEPT !.read = roster[t.target], !.phase = "writes"]
    <2>2. CASE MayWrite(Read(t))
        <3>1. roster[t.target] \in Row
            BY <2>2 DEF MayWrite, Read, Tx
        <3>2. tx' = [tx EXCEPT ![c] = through]
            BY <1>2, <2>1, <2>2 DEF Guard, Read, Tx
        <3>3. through \in Tx /\ through.read \in Row
            BY <3>1 DEF Tx
        <3>4. tx' \in [Calls -> Tx \cup {None}] /\ tx'[c] = through
            BY <3>2, <3>3
        <3>5. \A d \in Calls : tx'[d] # None /\ tx'[d].phase = "writes" => tx'[d].read \in Row
            BY <3>2, <3>3, <3>4
        <3>6. UNCHANGED <<roster, sessions, logins, rosterLock>>
            BY <1>2, <2>1, <2>2 DEF Guard
        <3> QED BY <3>4, <3>5, <3>6
    <2>3. CASE ~MayWrite(Read(t))
        BY <1>2, <2>1, <2>3 DEF Guard, Tx
    <2> QED BY <2>2, <2>3
<1>3. ASSUME NEW c \in Calls, Commit(c) PROVE RosterTypeOK'
    <2>1. tx[c] \in Tx /\ tx[c].read \in Row
        BY <1>3 DEF Commit
    <2>2. Written(tx[c]) \in Row \cup {Gone}
        BY <1>3, <2>1, WritesRow DEF Commit
    <2>3. roster' \in [People -> Row \cup {None, Gone}]
        BY <1>3, <2>2 DEF Commit
    <2>4. /\ sessions' \in [Sessions -> Login \cup {None}]
          /\ logins' \in [Sessions -> Login \cup {None}]
        BY <1>3, EvictType, OutliveType DEF Commit, SessionsAfter
    <2>5. /\ tx' \in [Calls -> Tx \cup {None}] /\ rosterLock' = None
          /\ \A d \in Calls : tx'[d] # None /\ tx'[d].phase = "writes" => tx'[d].read \in Row
        BY <1>3 DEF Commit, Tx
    <2> QED BY <2>3, <2>4, <2>5
<1>4. ASSUME NEW c \in Calls, Abort(c) \/ Answer(c) PROVE RosterTypeOK'
    BY <1>4 DEF Abort, Answer, Tx
<1>5. ASSUME NEW c \in Calls, NEW op \in Ops, NEW by \in People, NEW target \in People,
             NEW to \in Roles, Begin(c, op, by, target, to)
      PROVE  RosterTypeOK'
    BY <1>5 DEF Begin, Tx
<1>6. ASSUME NEW p \in People, NEW password \in Passwords, SetPassword(p, password)
      PROVE  RosterTypeOK'
    <2>1. roster' \in [People -> Row \cup {None, Gone}]
        BY <1>6 DEF SetPassword, Is, Row
    <2> QED BY <1>6, <2>1, EvictType DEF SetPassword
<1>7. ASSUME NEW p \in People, NEW role \in Roles, NEW password \in Passwords,
             CreateUser(p, role, password)
      PROVE  RosterTypeOK'
    BY <1>7 DEF CreateUser, Row
<1>8. ASSUME NEW s \in Sessions, LoginInsert(s) \/ EndSession(s) PROVE RosterTypeOK'
    BY <1>8 DEF LoginInsert, EndSession
<1>9. ASSUME NEW s \in Sessions, NEW p \in People, LoginRead(s, p) PROVE RosterTypeOK'
    BY <1>9 DEF LoginRead, Is, Row, Login
<1>10. CASE UNCHANGED rosterVars
    BY <1>10 DEF rosterVars
<1> QED BY <1>1, <1>2, <1>3, <1>4, <1>5, <1>6, <1>7, <1>8, <1>9, <1>10 DEF RosterNext

\* The lock and what the guard established, action by action.
LEMMA StepLock == RosterInv /\ [RosterNext]_rosterVars => LockHeld'
<1> SUFFICES ASSUME RosterInv, [RosterNext]_rosterVars PROVE LockHeld'
    OBVIOUS
<1> USE DEF RosterInv, LockHeld, RosterTypeOK, Tx
<1>1. ASSUME NEW c \in Calls, Lock(c) PROVE LockHeld'
    <2>1. \A d \in Calls : tx[d] # None => tx[d].phase \notin {"holds", "writes"}
        BY <1>1, RosterAssumption DEF Lock
    <2>2. \A d \in Calls \ {c} : tx'[d] = tx[d]
        BY <1>1 DEF Lock
    <2>3. rosterLock' = c
        BY <1>1 DEF Lock
    <2> QED BY <2>1, <2>2, <2>3
<1>11. ASSUME NEW c \in Calls, Guard(c) PROVE LockHeld'
    <2>1. rosterLock = c
        BY <1>11 DEF Guard
    <2>2. \A d \in Calls \ {c} : tx[d] # None => tx[d].phase \notin {"holds", "writes"}
        BY <2>1
    <2>3. \A d \in Calls \ {c} : tx'[d] = tx[d]
        BY <1>11 DEF Guard
    <2>4. UNCHANGED rosterLock \/ tx' = [tx EXCEPT ![c].phase = "refused"]
        BY <1>11 DEF Guard
    <2>5. rosterLock' = c \/ tx'[c].phase = "refused"
        BY <1>11, <2>1, <2>4 DEF Guard
    <2> QED BY <2>2, <2>3, <2>5
<1>2. ASSUME NEW c \in Calls, Commit(c) PROVE LockHeld'
    BY <1>2 DEF Commit
<1>3. ASSUME NEW c \in Calls, Abort(c) \/ Answer(c) PROVE LockHeld'
    BY <1>3 DEF Abort, Answer
<1>4. ASSUME NEW c \in Calls, NEW op \in Ops, NEW by \in People, NEW target \in People,
             NEW to \in Roles, Begin(c, op, by, target, to)
      PROVE  LockHeld'
    BY <1>4 DEF Begin
<1>5. ASSUME NEW p \in People, NEW password \in Passwords, SetPassword(p, password)
      PROVE  LockHeld'
    BY <1>5 DEF SetPassword
<1>6. ASSUME NEW p \in People, NEW role \in Roles, NEW password \in Passwords,
             CreateUser(p, role, password)
      PROVE  LockHeld'
    BY <1>6 DEF CreateUser
<1>7. ASSUME NEW s \in Sessions, LoginInsert(s) \/ EndSession(s) PROVE LockHeld'
    BY <1>7 DEF LoginInsert, EndSession
<1>8. ASSUME NEW s \in Sessions, NEW p \in People, LoginRead(s, p) PROVE LockHeld'
    BY <1>8 DEF LoginRead
<1>9. CASE UNCHANGED rosterVars
    BY <1>9 DEF rosterVars
<1> QED BY <1>1, <1>11, <1>2, <1>3, <1>4, <1>5, <1>6, <1>7, <1>8, <1>9 DEF RosterNext

\* A change of the roster that leaves every row its place and every enabled
\* admin one, and the transactions alone, leaves the guards' findings alone.
LEMMA AdminsKeep ==
    ASSUME RosterTypeOK, WriterSafe, LastAdmin, UNCHANGED tx,
           \A p \in People : (Is(p) => Is(p)') /\ (EnabledAdmin(p) => EnabledAdmin(p)')
    PROVE  WriterSafe' /\ LastAdmin'
<1>1. LastAdmin'
    BY DEF LastAdmin
<1>2. ASSUME NEW c \in Calls, tx[c] # None, tx[c].phase = "writes"
      PROVE  /\ Is(tx[c].target)'
             /\ ~StaysEnabledAdmin(tx[c]) => OtherEnabledAdmin(tx[c].target)'
    <2>1. Is(tx[c].target) /\ tx[c].target \in People
        BY <1>2 DEF WriterSafe, RosterTypeOK, Tx
    <2>2. ASSUME ~StaysEnabledAdmin(tx[c]) PROVE OtherEnabledAdmin(tx[c].target)'
        <3>1. PICK q \in People \ {tx[c].target} : EnabledAdmin(q)
            BY <1>2, <2>2 DEF WriterSafe, OtherEnabledAdmin
        <3> QED BY <3>1 DEF OtherEnabledAdmin
    <2> QED BY <2>1, <2>2
<1> QED BY <1>1, <1>2 DEF WriterSafe, StaysEnabledAdmin, NewRole, NewDisabled

\* In particular one that leaves every row its role and its state.
LEMMA SameRoles ==
    ASSUME RosterTypeOK, WriterSafe, LastAdmin, UNCHANGED tx,
           \A p \in People : Is(p) =>
               /\ Is(p)'
               /\ roster'[p].role = roster[p].role
               /\ roster'[p].disabled = roster[p].disabled
    PROVE  WriterSafe' /\ LastAdmin'
<1>1. \A p \in People : (Is(p) => Is(p)') /\ (EnabledAdmin(p) => EnabledAdmin(p)')
    BY DEF EnabledAdmin
<1> QED BY <1>1, AdminsKeep

\* A commit is the only one between guard and write, and leaves an admin.
LEMMA CommitKeeps ==
    ASSUME RosterInv, NEW c \in Calls, Commit(c) PROVE WriterSafe' /\ LastAdmin'
<1>1. PICK t \in Tx : tx[c] = t
    BY DEF Commit, RosterInv, RosterTypeOK
<1>2. PICK p \in People : t.target = p
    BY DEF Tx
<1>3. t # None /\ t.phase = "writes" /\ Is(p)
    BY <1>1, <1>2 DEF Commit
<1>4. roster' = [roster EXCEPT ![p] = Written(t)]
    BY <1>1, <1>2 DEF Commit
<1>5. \A q \in People \ {p} : EnabledAdmin(q) => EnabledAdmin(q)'
    BY <1>4 DEF EnabledAdmin, Is, RosterInv, RosterTypeOK
<1>6. WriterSafe'
    <2>1. rosterLock = c
        BY <1>1, <1>3 DEF RosterInv, LockHeld
    <2>2. \A d \in Calls \ {c} : tx[d] # None => tx[d].phase # "writes"
        BY <2>1 DEF RosterInv, LockHeld
    <2>3. tx'[c].phase = "done" /\ \A d \in Calls \ {c} : tx'[d] = tx[d]
        BY <1>1, <1>3 DEF Commit, RosterInv, RosterTypeOK, Tx
    <2> QED BY <2>2, <2>3 DEF WriterSafe
<1>7. LastAdmin'
    <2>1. CASE ~StaysEnabledAdmin(t)
        <3>1. PICK q \in People \ {p} : EnabledAdmin(q)
            BY <1>1, <1>2, <1>3, <2>1 DEF RosterInv, WriterSafe, OtherEnabledAdmin
        <3> QED BY <1>5, <3>1 DEF LastAdmin
    <2>2. CASE StaysEnabledAdmin(t)
        <3>1. t.op # "delete" /\ t.read \in Row
            BY <1>1, <1>3, <2>2 DEF StaysEnabledAdmin, RosterInv, RosterTypeOK
        <3>2. Written(t) \in Row /\ Written(t).role = "admin" /\ ~Written(t).disabled
            BY <1>2, <1>3, <2>2, <3>1, WrittenIs DEF StaysEnabledAdmin
        <3>3. roster'[p] = Written(t)
            BY <1>4 DEF RosterInv, RosterTypeOK
        <3>4. EnabledAdmin(p)'
            BY <3>2, <3>3 DEF EnabledAdmin, Is
        <3> QED BY <3>4 DEF LastAdmin
    <2> QED BY <2>1, <2>2
<1> QED BY <1>6, <1>7

\* The requests that write nothing: the roster is as it was, and the guard is
\* what lets one of them through.
LEMMA WaitingKeeps ==
    ASSUME RosterInv, NEW c \in Calls, UNCHANGED roster,
           \A d \in Calls \ {c} : tx'[d] = tx[d],
           tx'[c] # None /\ tx'[c].phase = "writes" =>
               MayWrite(tx'[c]) /\ tx'[c].read = roster[tx'[c].target]
    PROVE  WriterSafe' /\ LastAdmin'
<1>1. LastAdmin'
    BY DEF RosterInv, LastAdmin, EnabledAdmin, Is
<1>2. ASSUME NEW d \in Calls, tx'[d] # None, tx'[d].phase = "writes"
      PROVE  /\ Is(tx'[d].target)
             /\ ~StaysEnabledAdmin(tx'[d]) => OtherEnabledAdmin(tx'[d].target)
    <2>1. CASE d = c
        <3> DEFINE t == tx'[c]
        <3>1. MayWrite(t) /\ t.read = roster[t.target]
            BY <1>2, <2>1
        <3>2. Is(t.target)
            BY <3>1 DEF MayWrite, Is
        <3>3. CASE WasEnabledAdmin(t)
            BY <2>1, <3>1, <3>2, <3>3 DEF MayWrite
        <3>4. CASE ~WasEnabledAdmin(t)
            <4>1. ~EnabledAdmin(t.target)
                BY <3>1, <3>4 DEF WasEnabledAdmin, EnabledAdmin
            <4>2. PICK q \in People : EnabledAdmin(q)
                BY DEF RosterInv, LastAdmin
            <4>3. OtherEnabledAdmin(t.target)
                BY <4>1, <4>2 DEF OtherEnabledAdmin
            <4> QED BY <2>1, <3>2, <4>3
        <3> QED BY <3>3, <3>4
    <2>2. CASE d # c
        BY <1>2, <2>2 DEF RosterInv, WriterSafe
    <2> QED BY <2>1, <2>2
<1>3. WriterSafe'
    BY <1>2 DEF WriterSafe, Is, StaysEnabledAdmin, NewRole, NewDisabled, OtherEnabledAdmin,
                EnabledAdmin
<1> QED BY <1>1, <1>3

\* The inductive step, action by action.
LEMMA StepRoster == RosterInv /\ [RosterNext]_rosterVars => RosterInv'
<1> SUFFICES ASSUME RosterInv, [RosterNext]_rosterVars PROVE WriterSafe' /\ LastAdmin'
    BY StepType, StepLock DEF RosterInv
<1> RosterTypeOK /\ RosterTypeOK' /\ WriterSafe /\ LastAdmin
    BY StepType DEF RosterInv
<1>1. ASSUME NEW c \in Calls, Lock(c) \/ Guard(c) \/ Abort(c) \/ Answer(c)
      PROVE  WriterSafe' /\ LastAdmin'
    <2>1. UNCHANGED roster /\ \A d \in Calls \ {c} : tx'[d] = tx[d]
        BY <1>1 DEF Lock, Guard, Abort, Answer, RosterTypeOK
    <2>2. tx'[c] # None /\ tx'[c].phase = "writes" =>
              MayWrite(tx'[c]) /\ tx'[c].read = roster[tx'[c].target]
        <3>1. CASE Guard(c)
            <4> SUFFICES ASSUME tx'[c].phase = "writes"
                         PROVE  MayWrite(tx'[c]) /\ tx'[c].read = roster[tx'[c].target]
                OBVIOUS
            <4>1. PICK t \in Tx : tx[c] = t
                BY <3>1 DEF Guard, RosterTypeOK
            <4> DEFINE u == Read(t)
            <4>2. MayWrite(u) /\ tx'[c] = [u EXCEPT !.phase = "writes"]
                BY <3>1, <4>1 DEF Guard, RosterTypeOK, Tx
            <4>3. u.read = roster[t.target] /\ u.target = t.target
                BY DEF Read, Tx
            <4>4. /\ tx'[c].target = u.target /\ tx'[c].by = u.by /\ tx'[c].read = u.read
                  /\ tx'[c].op = u.op /\ tx'[c].to = u.to
                BY <4>2 DEF Tx, Read
            <4> HIDE DEF u
            <4>5. MayWrite(tx'[c])
                BY <4>2, <4>4 DEF MayWrite, OnOneself, NewlyDisabled, WasEnabledAdmin,
                                  StaysEnabledAdmin, NewRole, NewDisabled
            <4> QED BY <4>3, <4>4, <4>5
        <3>2. CASE Lock(c)
            BY <3>2 DEF Lock, RosterTypeOK, Tx
        <3>3. CASE Abort(c) \/ Answer(c)
            BY <3>3 DEF Abort, Answer, RosterTypeOK, Tx
        <3> QED BY <1>1, <3>1, <3>2, <3>3
    <2> QED BY <2>1, <2>2, WaitingKeeps
<1>2. ASSUME NEW c \in Calls, Commit(c) PROVE WriterSafe' /\ LastAdmin'
    BY <1>2, CommitKeeps
<1>3. ASSUME NEW c \in Calls, NEW op \in Ops, NEW by \in People, NEW target \in People,
             NEW to \in Roles, Begin(c, op, by, target, to)
      PROVE  WriterSafe' /\ LastAdmin'
    <2>1. UNCHANGED roster /\ \A d \in Calls \ {c} : tx'[d] = tx[d]
        BY <1>3 DEF Begin, RosterTypeOK
    <2>2. tx'[c].phase = "waits"
        BY <1>3 DEF Begin, RosterTypeOK
    <2> QED BY <2>1, <2>2, WaitingKeeps
<1>4. ASSUME NEW p \in People, NEW password \in Passwords, SetPassword(p, password)
      PROVE  WriterSafe' /\ LastAdmin'
    <2>1. UNCHANGED tx
        BY <1>4 DEF SetPassword
    <2>2. \A q \in People : Is(q) => /\ Is(q)'
                                     /\ roster'[q].role = roster[q].role
                                     /\ roster'[q].disabled = roster[q].disabled
        BY <1>4 DEF SetPassword, Is, Row, RosterTypeOK
    <2> QED BY <2>1, <2>2, SameRoles
<1>5. ASSUME NEW p \in People, NEW role \in Roles, NEW password \in Passwords,
             CreateUser(p, role, password)
      PROVE  WriterSafe' /\ LastAdmin'
    <2>1. UNCHANGED tx
        BY <1>5 DEF CreateUser
    <2>2. \A q \in People : Is(q) => q # p
        BY <1>5, Marks DEF CreateUser, Is
    <2>3. \A q \in People : Is(q) => roster'[q] = roster[q]
        BY <1>5, <2>2 DEF CreateUser, RosterTypeOK
    <2>4. \A q \in People : Is(q) => /\ Is(q)'
                                     /\ roster'[q].role = roster[q].role
                                     /\ roster'[q].disabled = roster[q].disabled
        BY <2>3 DEF Is
    <2> QED BY <2>1, <2>4, SameRoles
<1>6. ASSUME UNCHANGED <<roster, tx>> PROVE WriterSafe' /\ LastAdmin'
    BY <1>6, SameRoles DEF Is
<1>7. ASSUME NEW s \in Sessions,
             LoginInsert(s) \/ EndSession(s) \/ \E p \in People : LoginRead(s, p)
      PROVE  UNCHANGED <<roster, tx>>
    BY <1>7 DEF LoginInsert, EndSession, LoginRead
<1>8. CASE UNCHANGED rosterVars
    BY <1>6, <1>8 DEF rosterVars
<1> QED BY <1>1, <1>2, <1>3, <1>4, <1>5, <1>6, <1>7, <1>8 DEF RosterNext

\* However many admins demote, disable and delete each other at once, an
\* enabled admin is left (admin.rs, lock_admin_roster and the guard under it).
THEOREM LastAdminAlways == RosterSpec => []LastAdmin
<1>1. RosterInit => RosterInv
    BY InitRoster
<1>2. RosterInv /\ [RosterNext]_rosterVars => RosterInv'
    BY StepRoster
<1>3. RosterInv => LastAdmin
    BY DEF RosterInv
<1> QED BY <1>1, <1>2, <1>3, PTL DEF RosterSpec

----------------------------------------------------------------------------
\* What evicts a person leaves current what was, if every other row stays; and
\* the person needs no exemption any more.
LEMMA EvictKeeps ==
    ASSUME NEW exempt, NEW rest, NEW p \in People, exempt \subseteq rest \cup {p},
           SessionsBut(exempt), RosterTypeOK', Evict(p),
           \A q \in People \ {p} : roster'[q] = roster[q]
    PROVE  SessionsBut(rest)'
<1> USE DEF SessionsBut, RosterTypeOK
<1>1. ASSUME NEW s \in Sessions PROVE Allowed(sessions[s], rest)'
    <2>1. sessions'[s] = None \/ (sessions'[s] = sessions[s] /\ sessions[s].who # p)
        BY DEF Evict
    <2>2. sessions[s] = None \/ sessions[s].who \in People
        BY DEF Login
    <2>3. Allowed(sessions[s], exempt)
        OBVIOUS
    <2> QED BY <2>1, <2>2, <2>3 DEF Allowed, Current, Is
<1>2. ASSUME NEW s \in Sessions PROVE Allowed(logins[s], rest)'
    <2>1. CASE logins[s] = None
        BY <2>1 DEF Evict, Allowed, Current
    <2>2. CASE logins[s] # None /\ logins[s].who = p
        <3>1. logins[s] \in Login
            BY <2>2
        <3>2. logins'[s] = [logins[s] EXCEPT !.overtaken = TRUE]
            BY <2>2 DEF Evict
        <3>3. logins'[s].overtaken
            BY <3>1, <3>2 DEF Login
        <3> QED BY <3>3 DEF Allowed, Current
    <2>3. CASE logins[s] # None /\ logins[s].who # p
        <3>1. logins'[s] = logins[s] /\ logins[s].who \in People
            BY <2>3 DEF Evict, Login
        <3>2. Allowed(logins[s], exempt)
            OBVIOUS
        <3> QED BY <2>3, <3>1, <3>2 DEF Allowed, Current, Is
    <2> QED BY <2>1, <2>2, <2>3
<1> QED BY <1>1, <1>2

\* What is marked is nobody's claim any more.
LEMMA OutliveKeeps ==
    ASSUME NEW exempt, NEW p \in People, SessionsBut(exempt), RosterTypeOK', Outlive(p),
           \A q \in People \ {p} : roster'[q] = roster[q]
    PROVE  SessionsBut(exempt)'
<1> USE DEF SessionsBut, RosterTypeOK
<1>1. ASSUME NEW s \in Sessions PROVE Allowed(sessions[s], exempt)'
    <2>1. CASE sessions[s] = None
        BY <2>1 DEF Outlive, Allowed, Current
    <2>2. CASE sessions[s] # None /\ sessions[s].who = p
        <3>1. sessions[s] \in Login
            BY <2>2
        <3>2. sessions'[s] = [sessions[s] EXCEPT !.overtaken = TRUE]
            BY <2>2 DEF Outlive
        <3>3. sessions'[s].overtaken
            BY <3>1, <3>2 DEF Login
        <3> QED BY <3>3 DEF Allowed, Current
    <2>3. CASE sessions[s] # None /\ sessions[s].who # p
        <3>1. sessions'[s] = sessions[s] /\ sessions[s].who \in People
            BY <2>3 DEF Outlive, Login
        <3>2. Allowed(sessions[s], exempt)
            OBVIOUS
        <3> QED BY <2>3, <3>1, <3>2 DEF Allowed, Current, Is
    <2> QED BY <2>1, <2>2, <2>3
<1>2. ASSUME NEW s \in Sessions PROVE Allowed(logins[s], exempt)'
    <2>1. CASE logins[s] = None
        BY <2>1 DEF Outlive, Allowed, Current
    <2>2. CASE logins[s] # None /\ logins[s].who = p
        <3>1. logins[s] \in Login
            BY <2>2
        <3>2. logins'[s] = [logins[s] EXCEPT !.overtaken = TRUE]
            BY <2>2 DEF Outlive
        <3>3. logins'[s].overtaken
            BY <3>1, <3>2 DEF Login
        <3> QED BY <3>3 DEF Allowed, Current
    <2>3. CASE logins[s] # None /\ logins[s].who # p
        <3>1. logins'[s] = logins[s] /\ logins[s].who \in People
            BY <2>3 DEF Outlive, Login
        <3>2. Allowed(logins[s], exempt)
            OBVIOUS
        <3> QED BY <2>3, <3>1, <3>2 DEF Allowed, Current, Is
    <2> QED BY <2>1, <2>2, <2>3
<1> QED BY <1>1, <1>2

\* An action that leaves the sessions and logins alone, and changes only rows
\* nobody has a current session or login of, or in their role.
LEMMA RowsKeep ==
    ASSUME NEW exempt, NEW wider, exempt \subseteq wider,
           SessionsBut(exempt), RosterTypeOK', UNCHANGED <<sessions, logins>>,
           \A q \in People \ wider : Is(q) /\ ~roster[q].disabled =>
               /\ Is(q)' /\ ~roster'[q].disabled
               /\ roster'[q].password = roster[q].password
    PROVE  SessionsBut(wider)'
<1>1. ASSUME NEW s \in Sessions
      PROVE  Allowed(sessions[s], wider)' /\ Allowed(logins[s], wider)'
    <2>1. Allowed(sessions[s], exempt) /\ Allowed(logins[s], exempt)
        BY DEF SessionsBut
    <2>2. sessions[s] = None \/ sessions[s].who \in People
        BY DEF SessionsBut, RosterTypeOK, Login
    <2>3. logins[s] = None \/ logins[s].who \in People
        BY DEF SessionsBut, RosterTypeOK, Login
    <2>4. Allowed(sessions[s], wider)'
        BY <2>1, <2>2 DEF Allowed, Current
    <2>5. Allowed(logins[s], wider)'
        BY <2>1, <2>3 DEF Allowed, Current
    <2> QED BY <2>4, <2>5
<1> QED BY <1>1 DEF SessionsBut

\* The inductive step, action by action: what takes a row away, disables it or
\* gives it another password evicts its person.
LEMMA StepSession ==
    ASSUME NEW exempt, SessionsBut(exempt), [RosterNext]_rosterVars
    PROVE  SessionsBut(exempt)'
<1> RosterTypeOK /\ RosterTypeOK'
    BY StepType DEF SessionsBut
<1>1. ASSUME UNCHANGED <<roster, sessions, logins>> PROVE SessionsBut(exempt)'
    BY <1>1, RowsKeep DEF Is
<1>2. ASSUME NEW c \in Calls, Lock(c) \/ Guard(c) \/ Abort(c) \/ Answer(c)
      PROVE SessionsBut(exempt)'
    BY <1>1, <1>2 DEF Lock, Guard, Abort, Answer
<1>3. ASSUME NEW c \in Calls, NEW op \in Ops, NEW by \in People, NEW target \in People,
             NEW to \in Roles, Begin(c, op, by, target, to)
      PROVE  SessionsBut(exempt)'
    BY <1>1, <1>3 DEF Begin
<1>4. ASSUME NEW c \in Calls, Commit(c) PROVE SessionsBut(exempt)'
    <2>1. PICK t \in Tx : tx[c] = t
        BY <1>4 DEF Commit, RosterTypeOK
    <2>2. PICK p \in People : t.target = p
        BY DEF Tx
    <2>3. Is(p) /\ roster' = [roster EXCEPT ![p] = Written(t)]
        BY <1>4, <2>1, <2>2 DEF Commit
    <2>4. \A q \in People \ {p} : roster'[q] = roster[q]
        BY <2>3 DEF RosterTypeOK
    <2> SessionsAfter(t)
        BY <1>4, <2>1 DEF Commit
    <2>5. CASE Ends(t)
        <3>1. Evict(p)
            BY <2>2, <2>5 DEF SessionsAfter, Relapses
        <3> QED BY <2>4, <3>1, EvictKeeps
    <2>6. CASE Relapses(t)
        <3>1. Outlive(p)
            BY <2>2, <2>6 DEF SessionsAfter, Relapses
        <3> QED BY <2>4, <3>1, OutliveKeeps
    <2>7. CASE ~Ends(t) /\ ~Relapses(t)
        <3>1. UNCHANGED <<sessions, logins>>
            BY <2>7 DEF SessionsAfter
        <3>2. t.op # "delete" /\ t.read \in Row
            BY <1>4, <2>1, <2>7 DEF Ends, Commit, RosterTypeOK
        <3>3. roster[p] \in Row /\ roster'[p] = Written(t)
            BY <2>3 DEF Is, RosterTypeOK
        <3>4. ~roster[p].disabled =>
                  /\ Written(t) \in Row /\ ~Written(t).disabled
                  /\ Written(t).password = roster[p].password
            BY <2>2, <2>3, <2>7, <3>2, WrittenIs DEF Relapses
        <3>5. \A q \in People : Is(q) /\ ~roster[q].disabled =>
                  /\ Is(q)' /\ ~roster'[q].disabled
                  /\ roster'[q].password = roster[q].password
            BY <2>4, <3>3, <3>4 DEF Is
        <3> QED BY <3>1, <3>5, RowsKeep
    <2> QED BY <2>5, <2>6, <2>7
<1>5. ASSUME NEW p \in People, NEW password \in Passwords, SetPassword(p, password)
      PROVE  SessionsBut(exempt)'
    <2>1. Evict(p) /\ \A q \in People \ {p} : roster'[q] = roster[q]
        BY <1>5 DEF SetPassword, RosterTypeOK
    <2> QED BY <2>1, EvictKeeps
<1>6. ASSUME NEW p \in People, NEW role \in Roles, NEW password \in Passwords,
             CreateUser(p, role, password)
      PROVE  SessionsBut(exempt)'
    <2>1. \A q \in People : Is(q) => q # p
        BY <1>6, Marks DEF CreateUser, Is
    <2>2. \A q \in People : Is(q) => roster'[q] = roster[q]
        BY <1>6, <2>1 DEF CreateUser, RosterTypeOK
    <2>3. UNCHANGED <<sessions, logins>>
        BY <1>6 DEF CreateUser
    <2> QED BY <2>2, <2>3, RowsKeep DEF Is
<1>7. ASSUME NEW s \in Sessions, NEW p \in People, LoginRead(s, p) PROVE SessionsBut(exempt)'
    <2> DEFINE read == [who |-> p, password |-> roster[p].password, overtaken |-> FALSE]
    <2>1. logins'[s] = read /\ \A r \in Sessions \ {s} : logins'[r] = logins[r]
        BY <1>7 DEF LoginRead, RosterTypeOK
    <2>2. UNCHANGED <<roster, sessions>> /\ Is(p) /\ ~roster[p].disabled
        BY <1>7 DEF LoginRead
    <2>3. \A r \in Sessions : Allowed(sessions[r], exempt)'
        BY <2>2 DEF SessionsBut, Allowed, Current, Is
    <2>4. \A r \in Sessions \ {s} : Allowed(logins[r], exempt)'
        BY <2>1, <2>2 DEF SessionsBut, Allowed, Current, Is
    <2>5. Allowed(logins[s], exempt)'
        BY <2>1, <2>2 DEF Allowed, Current, Is
    <2> QED BY <2>3, <2>4, <2>5 DEF SessionsBut
<1>8. ASSUME NEW s \in Sessions, LoginInsert(s) PROVE SessionsBut(exempt)'
    <2>1. UNCHANGED roster /\ sessions'[s] \in {logins[s], None} /\ logins'[s] = None
        BY <1>8 DEF LoginInsert, RosterTypeOK
    <2>2. \A r \in Sessions \ {s} : sessions'[r] = sessions[r] /\ logins'[r] = logins[r]
        BY <1>8 DEF LoginInsert, RosterTypeOK
    <2>3. \A r \in Sessions \ {s} : Allowed(sessions[r], exempt)' /\ Allowed(logins[r], exempt)'
        BY <2>1, <2>2 DEF SessionsBut, Allowed, Current, Is
    <2>4. Allowed(sessions[s], exempt)' /\ Allowed(logins[s], exempt)'
        BY <2>1 DEF SessionsBut, Allowed, Current, Is
    <2> QED BY <2>3, <2>4 DEF SessionsBut
<1>9. ASSUME NEW s \in Sessions, EndSession(s) PROVE SessionsBut(exempt)'
    <2>1. UNCHANGED <<roster, logins>> /\ sessions'[s] = None
        BY <1>9 DEF EndSession, RosterTypeOK
    <2>2. \A r \in Sessions \ {s} : sessions'[r] = sessions[r]
        BY <1>9 DEF EndSession, RosterTypeOK
    <2>3. \A r \in Sessions : Allowed(sessions[r], exempt)'
        BY <2>1, <2>2 DEF SessionsBut, Allowed, Current, Is
    <2>4. \A r \in Sessions : Allowed(logins[r], exempt)'
        BY <2>1 DEF SessionsBut, Allowed, Current, Is
    <2> QED BY <2>3, <2>4 DEF SessionsBut
<1>10. CASE UNCHANGED rosterVars
    BY <1>1, <1>10 DEF rosterVars
<1> QED BY <1>2, <1>3, <1>4, <1>5, <1>6, <1>7, <1>8, <1>9, <1>10 DEF RosterNext

\* A session no login overtook belongs to an enabled account and was opened with
\* the password in force (admin.rs login, update_user, set_user_password).
THEOREM SessionsCurrentAlways == RosterSpec => []SessionsCurrent
<1>1. RosterInit => SessionsBut({})
    BY InitRoster
<1>2. SessionsBut({}) /\ [RosterNext]_rosterVars => SessionsBut({})'
    BY StepSession
<1>3. SessionsBut({}) => SessionsCurrent
    BY RosterAssumption DEF SessionsBut, SessionsCurrent, Allowed, Current, Live
<1> QED BY <1>1, <1>2, <1>3, PTL DEF RosterSpec

\* The roster, the sessions and the transactions keep their types.
THEOREM RosterTypes == RosterSpec => []RosterTypeOK
<1>1. RosterInit => RosterTypeOK
    BY InitRoster DEF SessionsBut
<1> QED BY <1>1, StepType, PTL DEF RosterSpec

----------------------------------------------------------------------------
(* The boot of the root admin *)

Phases == {"down", "reads", "updates", "evicts", "inserts", "up"}

BootShape ==
    /\ boot \in [Replicas -> [phase : Phases, id : RootIds \cup {None}, disturbed : BOOLEAN]]
    /\ \A i \in Replicas : boot[i].phase \in {"updates", "evicts"} => boot[i].id \in RootIds

Restored(p) == p \in Root /\ EnabledAdmin(p) /\ roster[p].password = EnvPassword

Works == \E p \in RootIds : Restored(p)

Seen ==
    \A i \in Replicas : ~boot[i].disturbed =>
        /\ boot[i].phase = "updates" => Is(boot[i].id)
        /\ boot[i].phase \in {"evicts", "up"} => Works

BootInv == RosterTypeOK /\ BootShape /\ Seen

LEMMA RootRowIsRow == RootRow \in Row
    BY BootAssumption DEF RootRow, Row, Roles

\* The statements that write the root's row leave an account that works.
LEMMA WritingRestores ==
    ASSUME RosterTypeOK, NEW p \in RootIds, roster' = [roster EXCEPT ![p] = RootRow]
    PROVE  /\ roster' \in [People -> Row \cup {None, Gone}]
           /\ Works'
           /\ \A q \in RootIds : Is(q) => Is(q)'
<1>1. p \in People
    BY BootAssumption
<1>2. roster' \in [People -> Row \cup {None, Gone}]
    BY RootRowIsRow DEF RosterTypeOK
<1>3. roster'[p] = RootRow
    BY <1>1 DEF RosterTypeOK
<1>4. Restored(p)'
    BY <1>3, RootRowIsRow DEF Restored, Root, EnabledAdmin, Is, RootRow
<1>5. \A q \in RootIds : Is(q) => Is(q)'
    BY <1>3, RootRowIsRow, BootAssumption DEF Is, RosterTypeOK
<1> QED BY <1>2, <1>4, <1>5 DEF Works

\* Where the rows of the root accounts stay, all that was seen stays true.
LEMMA SameRows ==
    ASSUME \A p \in RootIds : roster'[p] = roster[p]
    PROVE  (\A p \in RootIds : Is(p) => Is(p)') /\ (Works => Works')
    BY DEF Works, Restored, Root, EnabledAdmin, Is

LEMMA EntryReplaced ==
    ASSUME NEW S, NEW f \in [Replicas -> S], NEW i, NEW entry \in S
    PROVE  [f EXCEPT ![i] = entry] \in [Replicas -> S]
OBVIOUS

\* What a step of one replica does to its own entry, and to no other.
LEMMA ToIs ==
    ASSUME BootShape, NEW i \in Replicas, NEW phase \in Phases,
           NEW id \in RootIds \cup {None}, To(i, phase, id),
           phase \in {"updates", "evicts"} => id \in RootIds
    PROVE  /\ BootShape'
           /\ boot'[i].phase = phase /\ boot'[i].id = id
           /\ boot'[i].disturbed = boot[i].disturbed
           /\ \A j \in Replicas \ {i} : boot'[j] = boot[j]
<1>1. /\ boot'[i] = [boot[i] EXCEPT !.phase = phase, !.id = id]
      /\ \A j \in Replicas \ {i} : boot'[j] = boot[j]
    BY DEF To, BootShape
<1>2. boot' \in [Replicas -> [phase : Phases, id : RootIds \cup {None}, disturbed : BOOLEAN]]
    <2>1. [boot[i] EXCEPT !.phase = phase, !.id = id]
             \in [phase : Phases, id : RootIds \cup {None}, disturbed : BOOLEAN]
        BY DEF BootShape
    <2>2. boot' = [boot EXCEPT ![i] = [boot[i] EXCEPT !.phase = phase, !.id = id]]
        BY DEF To
    <2>3. boot \in [Replicas -> [phase : Phases, id : RootIds \cup {None}, disturbed : BOOLEAN]]
        BY DEF BootShape
    <2> QED BY <2>1, <2>2, <2>3, EntryReplaced
<1>3. /\ boot'[i].phase = phase /\ boot'[i].id = id
      /\ boot'[i].disturbed = boot[i].disturbed
    BY <1>1 DEF BootShape
<1>4. ASSUME NEW j \in Replicas, boot'[j].phase \in {"updates", "evicts"}
      PROVE  boot'[j].id \in RootIds
    BY <1>1, <1>3, <1>4 DEF BootShape
<1> QED BY <1>1, <1>2, <1>3, <1>4 DEF BootShape

LEMMA InitBoot == BootInit => BootInv
<1> SUFFICES ASSUME BootInit PROVE BootInv
    OBVIOUS
<1>1. RosterTypeOK
    BY InitRoster DEF BootInit, SessionsBut
<1> QED BY <1>1 DEF BootInit, BootInv, BootShape, Phases, Seen

\* A step of the admin plane is a step of the roster.
LEMMA PlaneIsRoster == AdminPlane => [RosterNext]_rosterVars
<1> SUFFICES ASSUME AdminPlane PROVE RosterNext
    OBVIOUS
<1>1. CASE Asks
    <2>1. ASSUME NEW c \in Calls, NEW op \in Ops, NEW by \in People, NEW p \in People,
                 Begin(c, op, by, p, "viewer")
          PROVE  RosterNext
        BY <2>1 DEF RosterNext, Roles
    <2>2. ASSUME NEW p \in Root, NEW password \in Passwords, SetPassword(p, password)
          PROVE  RosterNext
        BY <2>2, BootAssumption DEF RosterNext, Root
    <2>3. ASSUME NEW s \in Sessions, NEW p \in Root, LoginRead(s, p) PROVE RosterNext
        BY <2>3, BootAssumption DEF RosterNext, Root
    <2> QED BY <1>1, <2>1, <2>2, <2>3 DEF Asks
<1>2. CASE GoesOn
    BY <1>2 DEF GoesOn, RosterNext
<1> QED BY <1>1, <1>2 DEF AdminPlane

LEMMA StepBoot == BootInv /\ [BootNext]_allVars => BootInv'
<1> SUFFICES ASSUME BootInv, [BootNext]_allVars PROVE BootInv'
    OBVIOUS
<1> USE DEF BootInv
<1>1. CASE AdminPlane
    <2>1. RosterTypeOK'
        BY <1>1, PlaneIsRoster, StepType
    <2>2. CASE \A p \in RootIds : roster'[p] = roster[p]
        <3>1. boot' = boot
            BY <1>1, <2>2 DEF AdminPlane, Disturbs
        <3> QED BY <2>1, <2>2, <3>1, SameRows DEF BootShape, Seen
    <2>3. CASE ~\A p \in RootIds : roster'[p] = roster[p]
        <3>1. boot' = [i \in Replicas |-> [boot[i] EXCEPT !.disturbed = TRUE]]
            BY <1>1, <2>3 DEF AdminPlane, Disturbs
        <3> QED BY <2>1, <3>1 DEF BootShape, Seen
    <2> QED BY <2>2, <2>3
<1>2. ASSUME NEW i \in Replicas, Start(i) \/ ReadRoot(i) \/ Crash(i) PROVE BootInv'
    <2>1. UNCHANGED rosterVars
        BY <1>2 DEF Start, ReadRoot, Crash
    <2>2. RosterTypeOK'
        BY <2>1 DEF RosterTypeOK, rosterVars, Tx, Login
    <2>3. \A p \in RootIds : roster'[p] = roster[p]
        BY <2>1 DEF rosterVars
    <2>4. CASE Start(i)
        <3>1. BootShape'
            BY <2>4 DEF BootShape, Start, Phases
        <3>2. boot'[i].phase = "reads" /\ \A j \in Replicas \ {i} : boot'[j] = boot[j]
            BY <2>4 DEF BootShape, Start
        <3> QED BY <2>2, <2>3, <3>1, <3>2, SameRows DEF Seen, BootShape
    <2>5. CASE Crash(i)
        <3>1. To(i, "down", None) /\ "down" \in Phases
            BY <2>5 DEF Crash, Phases
        <3>2. BootShape' /\ boot'[i].phase = "down" /\ \A j \in Replicas \ {i} : boot'[j] = boot[j]
            BY <3>1, ToIs
        <3> QED BY <2>2, <2>3, <3>2, SameRows DEF Seen, BootShape
    <2>6. CASE ReadRoot(i) /\ Root = {}
        <3>1. To(i, "inserts", None) /\ "inserts" \in Phases
            BY <2>6 DEF ReadRoot, Phases
        <3>2. /\ BootShape' /\ boot'[i].phase = "inserts"
              /\ \A j \in Replicas \ {i} : boot'[j] = boot[j]
            BY <3>1, ToIs
        <3> QED BY <2>2, <2>3, <3>2, SameRows DEF Seen, BootShape
    <2>7. ASSUME NEW p \in Root, To(i, IF Matches(p) THEN "up" ELSE "updates", p)
          PROVE  BootInv'
        <3> DEFINE phase == IF Matches(p) THEN "up" ELSE "updates"
        <3>1. p \in RootIds /\ Is(p) /\ phase \in Phases
            BY DEF Root, Phases
        <3>2. /\ BootShape' /\ boot'[i].phase = phase /\ boot'[i].id = p
              /\ \A j \in Replicas \ {i} : boot'[j] = boot[j]
            BY <2>7, <3>1, ToIs
        <3>3. phase = "up" => Works
            BY <3>1 DEF Matches, Works, Restored
        <3> QED BY <2>2, <2>3, <3>1, <3>2, <3>3, SameRows DEF Seen, BootShape
    <2> QED BY <1>2, <2>4, <2>5, <2>6, <2>7 DEF ReadRoot
<1>3. ASSUME NEW i \in Replicas, UpdateRoot(i) PROVE BootInv'
    <2> DEFINE p == boot[i].id
    <2>1. p \in RootIds /\ boot[i].phase = "updates"
        BY <1>3 DEF UpdateRoot, BootShape
    <2>2. BootShape'
        BY <1>3, <2>1 DEF BootShape, UpdateRoot, To, Phases
    <2>3. \A j \in Replicas \ {i} : boot'[j] = boot[j]
        BY <1>3 DEF UpdateRoot, To, BootShape
    <2>4. boot'[i].disturbed = boot[i].disturbed /\ boot'[i].phase = "evicts"
        BY <1>3 DEF UpdateRoot, To, BootShape
    <2>5. CASE Is(p)
        <3>1. roster' = [roster EXCEPT ![p] = RootRow]
            BY <1>3, <2>5 DEF UpdateRoot
        <3>2. RosterTypeOK'
            BY <1>3, <2>1, <3>1, WritingRestores DEF UpdateRoot, RosterTypeOK
        <3>3. Works' /\ \A q \in RootIds : Is(q) => Is(q)'
            BY <2>1, <3>1, WritingRestores
        <3> QED BY <2>2, <2>3, <2>4, <3>2, <3>3 DEF Seen, BootShape
    <2>6. CASE ~Is(p)
        <3>1. roster' = roster
            BY <1>3, <2>6 DEF UpdateRoot
        <3>2. RosterTypeOK'
            BY <1>3, <3>1 DEF UpdateRoot, RosterTypeOK
        <3>3. boot[i].disturbed
            BY <2>1, <2>6 DEF Seen
        <3> QED BY <2>2, <2>3, <2>4, <3>1, <3>2, <3>3, SameRows DEF Seen, BootShape
    <2> QED BY <2>5, <2>6
<1>4. ASSUME NEW i \in Replicas, DeleteSessions(i) PROVE BootInv'
    <2>1. RosterTypeOK'
        BY <1>4, EvictType DEF DeleteSessions, EvictRoot, RosterTypeOK
    <2>2. BootShape'
        BY <1>4 DEF BootShape, DeleteSessions, To, Phases
    <2>3. \A p \in RootIds : roster'[p] = roster[p]
        BY <1>4 DEF DeleteSessions
    <2>4. \A j \in Replicas \ {i} : boot'[j] = boot[j]
        BY <1>4 DEF DeleteSessions, To, BootShape
    <2>5. /\ boot[i].phase = "evicts" /\ boot'[i].phase = "up"
          /\ boot'[i].disturbed = boot[i].disturbed
        BY <1>4 DEF DeleteSessions, To, BootShape
    <2>6. Seen'
        BY <2>2, <2>3, <2>4, <2>5, SameRows DEF Seen, BootShape
    <2> QED BY <2>1, <2>2, <2>6
<1>5. ASSUME NEW i \in Replicas, InsertRoot(i) PROVE BootInv'
    <2>1. BootShape'
        BY <1>5 DEF BootShape, InsertRoot, To, Phases
    <2>2. \A j \in Replicas \ {i} : boot'[j] = boot[j]
        BY <1>5 DEF InsertRoot, To, BootShape
    <2>3. boot'[i].phase \in {"down", "up"}
        BY <1>5 DEF InsertRoot, To, BootShape
    <2>4. CASE Root # {}
        <3>1. roster' = roster /\ boot'[i].phase = "down"
            BY <1>5, <2>4 DEF InsertRoot, To, BootShape
        <3>2. RosterTypeOK'
            BY <1>5, <3>1 DEF InsertRoot, RosterTypeOK
        <3> QED BY <2>1, <2>2, <3>1, <3>2, SameRows DEF Seen, BootShape
    <2>5. CASE Root = {}
        <3>1. PICK p \in RootIds : roster' = [roster EXCEPT ![p] = RootRow]
            BY <1>5, <2>5 DEF InsertRoot
        <3>2. RosterTypeOK'
            BY <1>5, <3>1, WritingRestores DEF InsertRoot, RosterTypeOK
        <3>3. Works' /\ \A q \in RootIds : Is(q) => Is(q)'
            BY <3>1, WritingRestores
        <3> QED BY <2>1, <2>2, <2>3, <3>2, <3>3 DEF Seen, BootShape
    <2> QED BY <2>4, <2>5
<1>6. CASE UNCHANGED allVars
    BY <1>6 DEF allVars, rosterVars, bootVars, RosterTypeOK, BootShape, Seen, Works, Restored,
                Root, EnabledAdmin, Is
<1> QED BY <1>1, <1>2, <1>3, <1>4, <1>5, <1>6 DEF BootNext

\* A replica that is up has left a root admin that works, unless the admin plane
\* changed the account meanwhile (bootstrap.rs ensure_admin), for every instance.
THEOREM RestartRestoresAlways == BootSpec => []RestartRestores
<1>1. BootInit => BootInv
    BY InitBoot
<1>2. BootInv /\ [BootNext]_allVars => BootInv'
    BY StepBoot
<1>3. BootInv => RestartRestores
    BY DEF BootInv, Seen, Works, Restored, RestartRestores
<1> QED BY <1>1, <1>2, <1>3, PTL DEF BootSpec

\* A boot writes an enabled admin, whatever it finds, and leaves the
\* transactions alone.
LEMMA BootKeepsAdmins ==
    ASSUME RosterInv, RosterTypeOK', UNCHANGED <<rosterLock, tx>>,
           roster' = roster \/ \E p \in RootIds : roster' = [roster EXCEPT ![p] = RootRow]
    PROVE  RosterInv'
<1>1. LockHeld'
    BY DEF RosterInv, LockHeld
<1>2. \A q \in People : (Is(q) => Is(q)') /\ (EnabledAdmin(q) => EnabledAdmin(q)')
    <2>1. CASE roster' = roster
        BY <2>1 DEF EnabledAdmin, Is
    <2>2. ASSUME NEW p \in RootIds, roster' = [roster EXCEPT ![p] = RootRow],
                 NEW q \in People
          PROVE  (Is(q) => Is(q)') /\ (EnabledAdmin(q) => EnabledAdmin(q)')
        <3>1. CASE q = p
            <4>1. roster'[q] = RootRow
                BY <2>2, <3>1 DEF RosterInv, RosterTypeOK
            <4> QED BY <4>1, RootRowIsRow DEF Is, EnabledAdmin, RootRow
        <3>2. CASE q # p
            <4>1. roster'[q] = roster[q]
                BY <2>2, <3>2 DEF RosterInv, RosterTypeOK
            <4> QED BY <4>1 DEF Is, EnabledAdmin
        <3> QED BY <3>1, <3>2
    <2> QED BY <2>1, <2>2
<1>3. RosterTypeOK /\ WriterSafe /\ LastAdmin /\ UNCHANGED tx
    BY DEF RosterInv
<1>4. WriterSafe' /\ LastAdmin'
    BY <1>2, <1>3, AdminsKeep
<1> QED BY <1>1, <1>4 DEF RosterInv

LEMMA StepBootAdmins == BootInv /\ RosterInv /\ [BootNext]_allVars => RosterInv'
<1> SUFFICES ASSUME BootInv, RosterInv, [BootNext]_allVars PROVE RosterInv'
    OBVIOUS
<1>1. RosterTypeOK'
    BY StepBoot DEF BootInv
<1>2. CASE AdminPlane
    BY <1>2, PlaneIsRoster, StepRoster
<1>3. ASSUME NEW i \in Replicas, Start(i) \/ ReadRoot(i) \/ DeleteSessions(i) \/ Crash(i)
      PROVE  RosterInv'
    <2>1. UNCHANGED <<roster, rosterLock, tx>>
        BY <1>3 DEF Start, ReadRoot, DeleteSessions, Crash, rosterVars
    <2> QED BY <1>1, <2>1, BootKeepsAdmins
<1>4. ASSUME NEW i \in Replicas, UpdateRoot(i) PROVE RosterInv'
    <2>1. /\ UNCHANGED <<rosterLock, tx>> /\ boot[i].id \in RootIds
          /\ roster' \in {[roster EXCEPT ![boot[i].id] = RootRow], roster}
        BY <1>4 DEF UpdateRoot, BootInv, BootShape
    <2> QED BY <1>1, <2>1, BootKeepsAdmins
<1>5. ASSUME NEW i \in Replicas, InsertRoot(i) PROVE RosterInv'
    <2>1. UNCHANGED <<rosterLock, tx>>
        BY <1>5 DEF InsertRoot
    <2>2. roster' = roster \/ \E p \in RootIds : roster' = [roster EXCEPT ![p] = RootRow]
        BY <1>5 DEF InsertRoot
    <2> QED BY <1>1, <2>1, <2>2, BootKeepsAdmins
<1>6. CASE UNCHANGED allVars
    <2>1. UNCHANGED <<roster, rosterLock, tx>>
        BY <1>6 DEF allVars, rosterVars
    <2> QED BY <1>1, <2>1, BootKeepsAdmins
<1> QED BY <1>2, <1>3, <1>4, <1>5, <1>6 DEF BootNext

\* The boots take no roster lock, and an enabled admin is left all the same: what
\* an update has read of the root account may be old when it writes it back, but
\* the other admin its guard has found is still there (bootstrap.rs ensure_admin,
\* admin.rs update_user).
THEOREM LastAdminOverBoots == BootSpec => []LastAdmin
<1>1. BootInit => BootInv /\ RosterInv
    BY InitBoot, InitRoster DEF BootInit
<1>2. BootInv /\ RosterInv /\ [BootNext]_allVars => BootInv' /\ RosterInv'
    BY StepBoot, StepBootAdmins
<1>3. RosterInv => LastAdmin
    BY DEF RosterInv
<1> QED BY <1>1, <1>2, <1>3, PTL DEF BootSpec

----------------------------------------------------------------------------
(* Rotation and eviction of a boot are two statements *)

\* The accounts whose password a boot has rotated and whose sessions it has
\* still to end.
Awaiting == {boot[i].id : i \in {j \in Replicas : boot[j].phase = "evicts"}}

EvictInv ==
    /\ BootInv
    /\ interrupted \in BOOLEAN
    /\ interrupted \/ SessionsBut(Awaiting)

LEMMA InitEvict == BootInit => EvictInv
<1> SUFFICES ASSUME BootInit PROVE EvictInv
    OBVIOUS
<1>1. SessionsBut({}) /\ BootInv
    BY InitRoster, InitBoot DEF BootInit
<1>2. Awaiting = {}
    BY DEF Awaiting, BootInit
<1> QED BY <1>1, <1>2 DEF EvictInv, BootInit

\* A step of one replica that neither comes to the eviction nor leaves it.
LEMMA SameAwaiting ==
    ASSUME NEW i \in Replicas, boot[i].phase # "evicts", boot'[i].phase # "evicts",
           \A j \in Replicas \ {i} : boot'[j] = boot[j]
    PROVE  Awaiting' = Awaiting
    BY DEF Awaiting

LEMMA StepEvict == EvictInv /\ [BootNext]_allVars => EvictInv'
<1> SUFFICES ASSUME EvictInv, [BootNext]_allVars PROVE EvictInv'
    OBVIOUS
<1> USE DEF EvictInv
<1>1. BootInv'
    BY StepBoot
<1>2. RosterTypeOK' /\ BootShape /\ BootShape'
    BY <1>1 DEF BootInv
<1>3. PICK exempt : exempt = Awaiting
    OBVIOUS
\* The roster moves as it does without boots.
<1>4. ASSUME [RosterNext]_rosterVars, UNCHANGED interrupted, Awaiting' = Awaiting
      PROVE  EvictInv'
    <2>1. interrupted \/ SessionsBut(exempt)
        BY <1>3
    <2>2. interrupted \/ SessionsBut(exempt)'
        BY <1>4, <2>1, StepSession
    <2>3. exempt = Awaiting'
        BY <1>3, <1>4
    <2> QED BY <1>1, <1>4, <2>2, <2>3 DEF SessionsBut
<1>5. CASE AdminPlane
    <2>1. \A i \in Replicas : boot'[i].phase = boot[i].phase /\ boot'[i].id = boot[i].id
        <3>1. CASE boot' = boot
            BY <3>1
        <3>2. CASE boot' = [i \in Replicas |-> [boot[i] EXCEPT !.disturbed = TRUE]]
            BY <1>2, <3>2 DEF BootShape
        <3> QED BY <1>5, <3>1, <3>2 DEF AdminPlane, Disturbs
    <2>2. Awaiting' = Awaiting
        BY <2>1 DEF Awaiting
    <2>3. UNCHANGED interrupted
        BY <1>5 DEF AdminPlane
    <2> QED BY <1>4, <1>5, <2>2, <2>3, PlaneIsRoster
<1>6. ASSUME NEW i \in Replicas, Start(i) \/ ReadRoot(i) PROVE EvictInv'
    <2>1. UNCHANGED <<rosterVars, interrupted>>
        BY <1>6 DEF Start, ReadRoot
    <2>2. \A j \in Replicas \ {i} : boot'[j] = boot[j]
        BY <1>2, <1>6 DEF Start, ReadRoot, To, BootShape
    <2>3. boot[i].phase \in {"down", "reads"}
        BY <1>6 DEF Start, ReadRoot
    <2>4. boot'[i].phase \in {"reads", "inserts", "up", "updates"}
        <3>1. CASE Start(i)
            BY <1>2, <3>1 DEF Start, BootShape
        <3>2. CASE ReadRoot(i)
            <4>1. PICK phase, id : phase \in {"inserts", "up", "updates"} /\ To(i, phase, id)
                BY <3>2 DEF ReadRoot
            <4>2. boot'[i].phase = phase
                BY <1>2, <4>1 DEF To, BootShape
            <4> QED BY <4>1, <4>2
        <3> QED BY <1>6, <3>1, <3>2
    <2>5. Awaiting' = Awaiting
        BY <2>2, <2>3, <2>4, SameAwaiting
    <2> QED BY <1>4, <2>1, <2>5
<1>7. ASSUME NEW i \in Replicas, Crash(i) PROVE EvictInv'
    <2>1. UNCHANGED rosterVars /\ interrupted' = (interrupted \/ boot[i].phase = "evicts")
        BY <1>7 DEF Crash
    <2>2. CASE boot[i].phase = "evicts"
        BY <1>1, <2>1, <2>2
    <2>3. CASE boot[i].phase # "evicts"
        <3>1. \A j \in Replicas \ {i} : boot'[j] = boot[j]
            BY <1>2, <1>7 DEF Crash, To, BootShape
        <3>2. boot'[i].phase = "down"
            BY <1>2, <1>7 DEF Crash, To, BootShape
        <3>3. Awaiting' = Awaiting
            BY <2>3, <3>1, <3>2, SameAwaiting
        <3>4. UNCHANGED interrupted
            BY <2>1, <2>3
        <3> QED BY <1>4, <2>1, <3>3, <3>4
    <2> QED BY <2>2, <2>3
<1>8. ASSUME NEW i \in Replicas, UpdateRoot(i) PROVE EvictInv'
    <2> DEFINE p == boot[i].id
    <2>1. UNCHANGED <<sessions, logins, interrupted>> /\ boot[i].phase = "updates"
        BY <1>8 DEF UpdateRoot
    <2>2. \A q \in People \ {p} : roster'[q] = roster[q]
        BY <1>8 DEF UpdateRoot, RosterTypeOK, BootInv
    <2>3. boot'[i].phase = "evicts" /\ boot'[i].id = p
        BY <1>2, <1>8 DEF UpdateRoot, To, BootShape
    <2>4. \A j \in Replicas \ {i} : boot'[j] = boot[j]
        BY <1>2, <1>8 DEF UpdateRoot, To, BootShape
    <2>5. Awaiting' = Awaiting \cup {p}
        BY <2>1, <2>3, <2>4 DEF Awaiting
    <2>6. PICK wider : wider = exempt \cup {p}
        OBVIOUS
    <2>7. \A q \in People \ wider : Is(q) /\ ~roster[q].disabled =>
              /\ Is(q)' /\ ~roster'[q].disabled
              /\ roster'[q].password = roster[q].password
        BY <2>2, <2>6 DEF Is
    <2>8. interrupted \/ SessionsBut(exempt)
        BY <1>3
    <2>9. interrupted \/ SessionsBut(wider)'
        BY <1>2, <2>1, <2>6, <2>7, <2>8, RowsKeep
    <2>10. wider = Awaiting'
        BY <1>3, <2>5, <2>6
    <2> QED BY <1>1, <2>1, <2>9, <2>10 DEF SessionsBut
<1>9. ASSUME NEW i \in Replicas, DeleteSessions(i) PROVE EvictInv'
    <2>1. PICK p \in People : p = boot[i].id
        BY <1>2, <1>9, BootAssumption DEF DeleteSessions, BootShape
    <2>2. UNCHANGED <<roster, interrupted>> /\ boot[i].phase = "evicts" /\ Evict(p)
        BY <1>9, <2>1 DEF DeleteSessions, EvictRoot
    <2>3. \A j \in Replicas \ {i} : boot'[j] = boot[j]
        BY <1>2, <1>9 DEF DeleteSessions, To, BootShape
    <2>4. Awaiting \subseteq Awaiting' \cup {p}
        BY <2>1, <2>3 DEF Awaiting
    <2>5. PICK rest : rest = Awaiting'
        OBVIOUS
    <2>6. exempt \subseteq rest \cup {p}
        BY <1>3, <2>4, <2>5
    <2>7. interrupted \/ SessionsBut(exempt)
        BY <1>3
    <2>8. interrupted \/ SessionsBut(rest)'
        BY <1>2, <2>2, <2>6, <2>7, EvictKeeps
    <2> QED BY <1>1, <2>2, <2>5, <2>8 DEF SessionsBut
<1>10. ASSUME NEW i \in Replicas, InsertRoot(i) PROVE EvictInv'
    <2>1. UNCHANGED <<sessions, logins, interrupted>> /\ boot[i].phase = "inserts"
        BY <1>10 DEF InsertRoot
    <2>2. \A j \in Replicas \ {i} : boot'[j] = boot[j]
        BY <1>2, <1>10 DEF InsertRoot, To, BootShape
    <2>3. boot'[i].phase \in {"down", "up"}
        BY <1>2, <1>10 DEF InsertRoot, To, BootShape
    <2>4. Awaiting' = Awaiting
        BY <2>1, <2>2, <2>3, SameAwaiting
    <2>5. \A q \in People : Is(q) => roster'[q] = roster[q]
        <3>1. CASE roster' = roster
            BY <3>1
        <3>2. ASSUME NEW p \in RootIds, roster[p] = None,
                     roster' = [roster EXCEPT ![p] = RootRow]
              PROVE  \A q \in People : Is(q) => roster'[q] = roster[q]
            <4>1. ~Is(p)
                BY <3>2, Marks DEF Is
            <4>2. \A q \in People \ {p} : roster'[q] = roster[q]
                BY <3>2 DEF RosterTypeOK, BootInv
            <4> QED BY <4>1, <4>2
        <3> QED BY <1>10, <3>1, <3>2 DEF InsertRoot
    <2>6. \A q \in People \ exempt : Is(q) /\ ~roster[q].disabled =>
              /\ Is(q)' /\ ~roster'[q].disabled
              /\ roster'[q].password = roster[q].password
        BY <2>5 DEF Is
    <2>7. interrupted \/ SessionsBut(exempt)
        BY <1>3
    <2>8. interrupted \/ SessionsBut(exempt)'
        BY <1>2, <2>1, <2>6, <2>7, RowsKeep
    <2>9. exempt = Awaiting'
        BY <1>3, <2>4
    <2> QED BY <1>1, <2>1, <2>8, <2>9 DEF SessionsBut
<1>11. CASE UNCHANGED allVars
    <2>1. UNCHANGED <<rosterVars, boot, interrupted>>
        BY <1>11 DEF allVars, bootVars
    <2>2. Awaiting' = Awaiting
        BY <2>1 DEF Awaiting
    <2> QED BY <1>4, <2>1, <2>2
<1> QED BY <1>5, <1>6, <1>7, <1>8, <1>9, <1>10, <1>11 DEF BootNext

\* Where no boot stands between rotation and eviction and none crashed there,
\* only current sessions are left (bootstrap.rs ensure_admin), for every instance.
THEOREM EvictedAlways == BootSpec => []EvictedAtRest
<1>1. BootInit => EvictInv
    BY InitEvict
<1>2. EvictInv /\ [BootNext]_allVars => EvictInv'
    BY StepEvict
<1>3. EvictInv => EvictedAtRest
    <2> SUFFICES ASSUME EvictInv, ~interrupted, ~Evicting PROVE SessionsCurrent
        BY DEF EvictedAtRest
    <2>1. Awaiting = {}
        BY DEF Awaiting, Evicting
    <2>2. SessionsBut({})
        BY <2>1 DEF EvictInv
    <2> QED BY <2>2, RosterAssumption DEF SessionsBut, SessionsCurrent, Allowed, Current, Live
<1> QED BY <1>1, <1>2, <1>3, PTL DEF BootSpec

----------------------------------------------------------------------------
(* The console: the shape of its state. *)

\* What the forms and tabs hold, a request, a cache entry and a query under way.
UiFields == {"tab", "rotated", "created", "key", "draft", "applied", "passed", "there",
             "open", "query", "create", "resets"}

CallFields == {"op", "at", "arg", "session", "mine", "answer", "value", "ver"}

EntryFields == {"data", "ver", "stale", "error", "raced", "fetch"}

FetchFields == {"cookie", "again", "raced", "answer", "data", "ver"}

\* A broadcast has the form's idempotency key or none.
BroadcastKeys == {"", "k"}

\* The tables of the admin plane: environments, secrets, keys, dead letters and rows.
PlaneType ==
    [envs : Nat, hmac : [current : Nat, previous : Nat, made : Nat],
     keys : [1..MaxKeys -> {"none", "active", "revoked"}], letters : SUBSET Letters,
     rows : SUBSET Rows, broadcasts : Seq(BroadcastKeys)]

\* The interface, the requests and the cache have their fields.
UiShape == DOMAIN ui = UiFields /\ ui.key \in BroadcastKeys

CallsShape ==
    /\ DOMAIN calls = Calls
    /\ \A c \in Calls : calls[c] # None =>
           /\ DOMAIN calls[c] = CallFields
           /\ calls[c].op \in PageOps \cup {"logout"}
           /\ calls[c].op = "compose" => calls[c].at \in BroadcastKeys
           /\ calls[c].answer = "looked" => calls[c].op = "compose"

EntryShape(entry) == DOMAIN entry = EntryFields /\ DOMAIN entry.fetch = FetchFields

Shaped(c) == \A k \in DOMAIN c : EntryShape(c[k])

Shape ==
    /\ UiShape /\ CallsShape /\ Shaped(cache) /\ srv \in PlaneType
    /\ doubled \in BOOLEAN /\ crossed \in BOOLEAN

\* What is on the page has an entry in the cache.
ActiveThere == Active \subseteq DOMAIN cache

Base == Shape /\ ActiveThere

----------------------------------------------------------------------------
(* What a step does to an entry of the cache. *)

\* An entry before a step: one that appears was never loaded.
Before(k) == IF k \in DOMAIN cache THEN cache[k] ELSE Empty

SameData(e, d) == d.data = e.data /\ d.ver = e.ver /\ d.raced = e.raced

OwnSame(k) == k \in Versioned => own'[k] = own[k]

\* Nothing; what appears is there and fresh, or about to come.
KeptEntry(k, e, d) ==
    /\ d = e /\ OwnSame(k)
    /\ k \in Active' \ Active /\ AtRest(e) => e.data # None /\ ~e.stale

\* Its staleTime runs out.
StaleEntry(k, e, d) ==
    /\ SameData(e, d) /\ d.error = e.error /\ d.stale /\ d.fetch = e.fetch /\ OwnSame(k)
    /\ k \in Active' => k \in Active

\* It is asked for (again).
AskedEntry(k, e, d) == SameData(e, d) /\ d.fetch.answer = "sent"

\* invalidateQueries of what is not shown, or on its way for the first time.
MarkedEntry(k, e, d) ==
    /\ SameData(e, d) /\ d.error = e.error /\ d.stale
    /\ d.fetch.answer = e.fetch.answer
    /\ d.fetch.data = e.fetch.data /\ d.fetch.ver = e.fetch.ver
    /\ IF AtRest(e) THEN k \notin Active' ELSE d.fetch.raced

\* The server answers it, with what holds at that moment.
ServedEntry(k, e, d) ==
    /\ SameData(e, d) /\ d.error = e.error /\ d.stale = e.stale /\ OwnSame(k)
    /\ d.fetch.answer = "ok" /\ d.fetch.raced = e.fetch.raced
    /\ d.fetch.data = Answered(k, e.fetch.cookie)
    /\ k \in Versioned => d.fetch.ver = ver[k]
    /\ UNCHANGED serverVars

\* The answer is an error.
FailedEntry(k, e, d) ==
    /\ SameData(e, d) /\ OwnSame(k)
    /\ d.fetch.answer \in {"expired", "failed"}

\* The answer becomes what is shown.
LandedEntry(k, e, d) ==
    /\ e.fetch.answer = "ok" /\ OwnSame(k)
    /\ d.data = e.fetch.data /\ d.ver = e.fetch.ver /\ d.raced = e.fetch.raced
    /\ AtRest(d)

\* The error is shown, beside the data there was.
DroppedEntry(k, e, d) == SameData(e, d) /\ OwnSame(k) /\ AtRest(d) /\ d.error

\* Each entry does one of these at a time.
EntryMove(k, e, d) ==
    \/ KeptEntry(k, e, d) \/ StaleEntry(k, e, d) \/ AskedEntry(k, e, d)
    \/ MarkedEntry(k, e, d) \/ ServedEntry(k, e, d) \/ FailedEntry(k, e, d)
    \/ LandedEntry(k, e, d) \/ DroppedEntry(k, e, d)

\* A page shows what it is asked to, and each entry moves as it may.
View ==
    /\ Shaped(cache') /\ ActiveThere'
    /\ DOMAIN cache \subseteq DOMAIN cache' \/ DOMAIN cache' = {}
    /\ DOMAIN cache' \subseteq DOMAIN cache \cup Active'
    /\ \A k \in DOMAIN cache' : EntryMove(k, Before(k), cache'[k])

\* An entry nobody has loaded has the shape of one, and is at rest.
LEMMA EmptyShape == EntryShape(Empty) /\ Empty.data = None /\ AtRest(Empty)
BY DEF Empty, Idle, AtRest, EntryShape, EntryFields, FetchFields

\* What useQuery puts on its way is a request that no answer has reached.
LEMMA AskedShape == \A k : DOMAIN Asked(k) = FetchFields /\ Asked(k).answer = "sent"
BY DEF Asked, Idle, FetchFields

\* Asking again changes what is on its way, never what is shown.
LEMMA FetchingMoves ==
    \A e, k : EntryShape(e) =>
        EntryShape(Fetching(e, k)) /\ AskedEntry(k, e, Fetching(e, k))
<1> TAKE e, k
<1> HAVE EntryShape(e)
<1> DEFINE d == Fetching(e, k)
<1>1. /\ DOMAIN d = EntryFields /\ d.data = e.data /\ d.ver = e.ver /\ d.raced = e.raced
      /\ d.fetch = Asked(k)
    BY DEF Fetching, EntryShape, EntryFields
<1> QED BY <1>1, AskedShape DEF EntryShape, AskedEntry, SameData

\* Components that appear, or that the network has come back for.
LEMMA MountedMoves ==
    \A a : /\ Base /\ cache' = Mounted(cache, a) /\ UNCHANGED own
           /\ Active' \ Active \subseteq a /\ a \subseteq Active'
        => View
<1> TAKE a
<1> HAVE /\ Base /\ cache' = Mounted(cache, a) /\ UNCHANGED own
         /\ Active' \ Active \subseteq a /\ a \subseteq Active'
<1>1. DOMAIN cache' = DOMAIN cache \cup a
    BY DEF Mounted
<1>2. ASSUME NEW k \in DOMAIN cache'
      PROVE  cache'[k] = IF k \in a /\ AtRest(Before(k)) /\
                                 (Before(k).data = None \/ Before(k).stale)
                         THEN Fetching(Before(k), k) ELSE Before(k)
    BY <1>1 DEF Mounted, Before
<1>3. \A k : EntryShape(Before(k))
    BY EmptyShape DEF Base, Shape, Shaped, Before
<1>4. ASSUME NEW k \in DOMAIN cache'
      PROVE  EntryShape(cache'[k]) /\ EntryMove(k, Before(k), cache'[k])
    <2>1. CASE k \in a /\ AtRest(Before(k)) /\ (Before(k).data = None \/ Before(k).stale)
        BY <1>2, <1>3, <2>1, FetchingMoves DEF EntryMove
    <2>2. CASE ~(k \in a /\ AtRest(Before(k)) /\ (Before(k).data = None \/ Before(k).stale))
        <3>1. cache'[k] = Before(k)
            BY <1>2, <2>2
        <3>2. KeptEntry(k, Before(k), cache'[k])
            BY <2>2, <3>1 DEF KeptEntry, OwnSame
        <3> QED BY <1>3, <3>1, <3>2 DEF EntryMove
    <2> QED BY <2>1, <2>2
<1> QED BY <1>1, <1>4 DEF View, Shaped, ActiveThere, Base

\* What Show mounts is what the new page observes.
LEMMA ShownActive ==
    \A c, u, pg, x : ShowOver(c, u, pg, x) => Active' = ActiveOf(u, pg, x)
BY DEF ShowOver, Active, ActiveOf, DetailPage, ListPage, LookupPage, Has

\* Going to a page mounts its queries and changes nothing that is shown.
LEMMA ShowMoves == \A u, pg, x : Base /\ Show(u, pg, x) /\ UNCHANGED own => View
<1> TAKE u, pg, x
<1> HAVE Base /\ Show(u, pg, x) /\ UNCHANGED own
<1>1. cache' = Mounted(cache, Active' \ Active)
    BY ShownActive DEF Show, ShowOver
<1> QED BY <1>1, MountedMoves

\* Who, where, and the state of the components that queries depend on.
SamePage ==
    /\ UNCHANGED <<user, page>>
    /\ ui'.tab = ui.tab /\ ui'.applied = ui.applied /\ ui'.open = ui.open
    /\ ui'.query = ui.query

\* Which queries are observed follows from the page and what is open on it.
LEMMA SameActive == SamePage => Active' = Active
BY DEF SamePage, Active, ActiveOf, DetailPage, ListPage, LookupPage

\* One entry changes, and nothing appears.
LEMMA EntryMoves ==
    \A k \in DOMAIN cache :
        /\ Base /\ DOMAIN cache' = DOMAIN cache /\ UNCHANGED own
        /\ \A q \in DOMAIN cache : q # k => cache'[q] = cache[q]
        /\ EntryShape(cache'[k]) /\ EntryMove(k, cache[k], cache'[k])
        /\ Active' \subseteq Active
        => View
<1> TAKE k \in DOMAIN cache
<1> HAVE /\ Base /\ DOMAIN cache' = DOMAIN cache /\ UNCHANGED own
         /\ \A q \in DOMAIN cache : q # k => cache'[q] = cache[q]
         /\ EntryShape(cache'[k]) /\ EntryMove(k, cache[k], cache'[k])
         /\ Active' \subseteq Active
<1>1. ASSUME NEW q \in DOMAIN cache, q # k
      PROVE  EntryShape(cache'[q]) /\ EntryMove(q, cache[q], cache'[q])
    <2>1. KeptEntry(q, cache[q], cache'[q])
        BY <1>1 DEF KeptEntry, OwnSame
    <2> QED BY <1>1, <2>1 DEF EntryMove, Base, Shape, Shaped
<1>2. \A q \in DOMAIN cache : Before(q) = cache[q]
    BY DEF Before
<1> QED BY <1>1, <1>2 DEF View, Shaped, ActiveThere, Base

\* A step that leaves the cache and the page alone is a move of every entry.
LEMMA Stays == Base /\ UNCHANGED <<cache, own>> /\ SamePage => View
<1> SUFFICES ASSUME Base, UNCHANGED <<cache, own>>, SamePage PROVE View
    OBVIOUS
<1>1. ASSUME NEW q \in DOMAIN cache PROVE EntryMove(q, Before(q), cache'[q])
    <2>1. KeptEntry(q, Before(q), cache'[q])
        BY SameActive DEF KeptEntry, OwnSame, Before
    <2> QED BY <2>1 DEF EntryMove
<1> QED BY <1>1, SameActive DEF View, Shaped, ActiveThere, Base, Shape

----------------------------------------------------------------------------
\* A query that is served moves one entry, by its answer.
LEMMA ServingQuery ==
    \A k \in DOMAIN cache : Base /\ ServeQuery(k) => View
<1> TAKE k \in DOMAIN cache
<1> HAVE Base /\ ServeQuery(k)
<1> DEFINE f == cache[k].fetch
<1>1. EntryShape(cache[k])
    BY DEF Base, Shape, Shaped
<1>2. PICK x : cache' = [cache EXCEPT ![k].fetch = x]
               /\ \/ x = [f EXCEPT !.answer = "expired"]
                  \/ x = [f EXCEPT !.answer = "failed"]
                  \/ x = [f EXCEPT !.answer = "ok", !.data = Answered(k, f.cookie),
                                   !.ver = IF k \in Versioned THEN ver[k] ELSE 0]
    BY DEF ServeQuery
<1>3. /\ DOMAIN x = FetchFields
      /\ \/ x.answer \in {"expired", "failed"}
         \/ /\ x.answer = "ok" /\ x.raced = f.raced /\ x.data = Answered(k, f.cookie)
            /\ k \in Versioned => x.ver = ver[k]
    BY <1>1, <1>2 DEF EntryShape, FetchFields
<1>4. cache'[k] = [cache[k] EXCEPT !.fetch = x]
    BY <1>2
<1>5. /\ DOMAIN cache'[k] = EntryFields /\ SameData(cache[k], cache'[k])
      /\ cache'[k].error = cache[k].error /\ cache'[k].stale = cache[k].stale
      /\ cache'[k].fetch = x
    BY <1>1, <1>4 DEF EntryShape, EntryFields, SameData
<1>6. UNCHANGED <<serverVars, own>> /\ SamePage
    BY DEF ServeQuery, mineVars, gateVars, SamePage
<1>7. FailedEntry(k, cache[k], cache'[k]) \/ ServedEntry(k, cache[k], cache'[k])
    BY <1>3, <1>5, <1>6 DEF FailedEntry, ServedEntry, OwnSame
<1>8. DOMAIN cache' = DOMAIN cache /\ \A q \in DOMAIN cache : q # k => cache'[q] = cache[q]
    BY <1>2
<1> QED BY <1>3, <1>5, <1>6, <1>7, <1>8, EntryMoves, SameActive DEF EntryMove, EntryShape

\* A query that fails on its way moves one entry, by its error.
LEMMA FailingQuery ==
    \A k \in DOMAIN cache : Base /\ (FailQuery(k) \/ Expire(k)) => View
<1> TAKE k \in DOMAIN cache
<1> HAVE Base /\ (FailQuery(k) \/ Expire(k))
<1>1. EntryShape(cache[k])
    BY DEF Base, Shape, Shaped
<1>2. UNCHANGED own /\ SamePage
    BY DEF FailQuery, Expire, mineVars, gateVars, SamePage
<1>3. DOMAIN cache' = DOMAIN cache /\ \A q \in DOMAIN cache : q # k => cache'[q] = cache[q]
    BY DEF FailQuery, Expire
<1>4. CASE FailQuery(k)
    <2>1. cache'[k] = [cache[k] EXCEPT !.fetch.answer = "failed"]
        BY <1>4 DEF FailQuery
    <2>2. /\ DOMAIN cache'[k] = EntryFields /\ SameData(cache[k], cache'[k])
          /\ cache'[k].fetch = [cache[k].fetch EXCEPT !.answer = "failed"]
        BY <1>1, <2>1 DEF EntryShape, EntryFields, SameData
    <2>3. DOMAIN cache'[k].fetch = FetchFields /\ cache'[k].fetch.answer = "failed"
        BY <1>1, <2>2 DEF EntryShape, FetchFields
    <2>4. FailedEntry(k, cache[k], cache'[k])
        BY <1>2, <2>2, <2>3 DEF FailedEntry, OwnSame
    <2> QED BY <1>2, <1>3, <2>2, <2>3, <2>4, EntryMoves, SameActive DEF EntryMove, EntryShape
<1>5. CASE Expire(k)
    <2>1. cache'[k] = [cache[k] EXCEPT !.stale = TRUE]
        BY <1>5 DEF Expire
    <2>2. /\ DOMAIN cache'[k] = EntryFields /\ SameData(cache[k], cache'[k])
          /\ cache'[k].error = cache[k].error /\ cache'[k].fetch = cache[k].fetch
          /\ cache'[k].stale
        BY <1>1, <2>1 DEF EntryShape, EntryFields, SameData
    <2>3. StaleEntry(k, cache[k], cache'[k])
        BY <1>2, <2>2, SameActive DEF StaleEntry, OwnSame
    <2> QED BY <1>1, <1>2, <1>3, <2>2, <2>3, EntryMoves, SameActive DEF EntryMove, EntryShape
<1> QED BY <1>4, <1>5
----------------------------------------------------------------------------
\* A call goes on: what it asks stays, and once answered it is never unanswered.
Continues(c) ==
    /\ calls[c] # None /\ DOMAIN calls'[c] = CallFields
    /\ calls'[c].op = calls[c].op /\ calls'[c].at = calls[c].at
    /\ calls'[c].arg = calls[c].arg /\ calls'[c].session = calls[c].session
    /\ calls'[c].mine => calls[c].mine
    /\ calls'[c].answer = "sent" => calls[c].answer = "sent"
    /\ calls'[c].answer = "looked" => calls[c].answer = "looked" \/ calls[c].op = "compose"

\* No request begins.
CallsKeep == DOMAIN calls' = Calls /\ \A c \in Calls : calls'[c] # None => Continues(c)

\* The secrets that unserved completions have been asked for.
Asking(cs) ==
    {cs[c].arg : c \in {d \in Calls :
        cs[d] # None /\ cs[d].op = "complete" /\ cs[d].answer = "sent"}}

\* Requests that go on have the shape of requests.
LEMMA CallsGoOn ==
    CallsShape /\ CallsKeep => CallsShape' /\ Asking(calls') \subseteq Asking(calls)
BY DEF CallsShape, CallsKeep, Continues, Asking

\* Requests that are left alone go on.
LEMMA SameCalls == CallsShape /\ UNCHANGED calls => CallsKeep
BY DEF CallsShape, CallsKeep, Continues

\* What an unanswered request may be answered.
Answers(c, a) == calls[c] # None /\ a # "sent" /\ (a = "looked" => calls[c].op = "compose")

\* An answer goes on with the request it answers and leaves the others alone.
LEMMA Replied ==
    \A c \in Calls : \A a, v, w : CallsShape /\ Answers(c, a) /\ Reply(c, a, v, w) => CallsKeep
<1> USE DEF Answers
<1> TAKE c \in Calls
<1> TAKE a, v, w
<1> HAVE CallsShape /\ Answers(c, a) /\ Reply(c, a, v, w)
<1>1. DOMAIN calls' = Calls
    BY DEF Reply, CallsShape
<1>2. ASSUME NEW d \in Calls, d # c PROVE calls'[d] = calls[d]
    BY <1>2 DEF Reply, CallsShape
<1>3. /\ DOMAIN calls'[c] = CallFields
      /\ calls'[c].op = calls[c].op /\ calls'[c].at = calls[c].at
      /\ calls'[c].arg = calls[c].arg /\ calls'[c].session = calls[c].session
      /\ calls'[c].mine = calls[c].mine /\ calls'[c].answer = a
    BY DEF Reply, CallsShape, CallFields
<1> QED BY <1>1, <1>2, <1>3 DEF CallsKeep, Continues, CallsShape

\* Leaving a page forgets some requests and leaves the others alone.
LEMMA Unmounted == \A ops : CallsShape /\ Unmount(ops) => CallsKeep
<1> TAKE ops
<1> HAVE CallsShape /\ Unmount(ops)
<1>1. ASSUME NEW d \in Calls, calls'[d] # None PROVE Continues(d)
    <2>1. calls'[d] \in {[calls[d] EXCEPT !.mine = FALSE], calls[d]} /\ calls[d] # None
        BY <1>1 DEF Unmount
    <2> QED BY <2>1 DEF Continues, CallsShape, CallFields
<1> QED BY <1>1 DEF CallsKeep, Unmount

\* A call that is sent: what it asks for is of its time.
IsNew(c, op, at, arg) ==
    /\ DOMAIN calls'[c] = CallFields
    /\ calls'[c].op = op /\ calls'[c].at = at /\ calls'[c].arg = arg
    /\ calls'[c].answer = "sent" /\ calls'[c].session = cookie /\ calls'[c].ver = 0
    /\ user # None

\* After Send every request goes on or is the new one.
LEMMA IsSent ==
    \A op, at, arg : CallsShape /\ Send(op, at, arg) =>
        /\ DOMAIN calls' = Calls
        /\ \A c \in Calls : calls'[c] # None => Continues(c) \/ IsNew(c, op, at, arg)
<1> TAKE op, at, arg
<1> HAVE CallsShape /\ Send(op, at, arg)
<1> DEFINE call == [op |-> op, at |-> at, arg |-> arg, session |-> cookie, mine |-> TRUE,
                    answer |-> "sent", value |-> 0, ver |-> 0]
<1>1. PICK c : calls' = [calls EXCEPT ![c] = call]
    BY DEF Send
<1>2. ASSUME NEW d \in Calls, d # c, calls'[d] # None PROVE Continues(d)
    BY <1>1, <1>2 DEF Continues, CallsShape
<1>3. c \in Calls => IsNew(c, op, at, arg)
    BY <1>1 DEF IsNew, CallsShape, CallFields, Send
<1>4. DOMAIN calls' = Calls
    BY <1>1 DEF CallsShape
<1> QED BY <1>2, <1>3, <1>4

\* Sending leaves the other requests alone.
LEMMA SentKeeps ==
    \A op, at, arg : /\ CallsShape /\ Send(op, at, arg)
                     /\ op \in PageOps \cup {"logout"} /\ op # "complete"
                     /\ op = "compose" => at \in BroadcastKeys
        => CallsShape' /\ Asking(calls') \subseteq Asking(calls)
<1> TAKE op, at, arg
<1> HAVE /\ CallsShape /\ Send(op, at, arg)
         /\ op \in PageOps \cup {"logout"} /\ op # "complete"
         /\ op = "compose" => at \in BroadcastKeys
<1> QED BY IsSent DEF CallsShape, Continues, IsNew, Asking

----------------------------------------------------------------------------
\* The state of the components keeps its shape, and announces nothing new.
UiKeep == UiShape' /\ ui'.rotated \in {ui.rotated, 0}

\* A page that opens has an empty interface.
LEMMA FreshShape == DOMAIN FreshUi = UiFields /\ FreshUi.key = "" /\ FreshUi.rotated = 0
BY DEF FreshUi, UiFields

\* Opening a page keeps the shape of the interface.
LEMMA FreshKeeps == ui' = FreshUi => UiKeep
BY FreshShape DEF UiKeep, UiShape, BroadcastKeys

\* An interface that is left alone keeps its shape.
LEMMA SameUi == UiShape /\ UNCHANGED ui => UiKeep
BY DEF UiKeep, UiShape

\* The user is dropped, or the queries on the page are the same.
LEMMA FewerActive ==
    \A c, u, x : /\ ShowOver(c, u, page, x)
                 /\ \/ u = None
                    \/ /\ u = user /\ x.tab = ui.tab /\ x.applied = ui.applied
                       /\ x.open = ui.open /\ x.query = ui.query
        => Active' \subseteq Active /\ DOMAIN cache' = DOMAIN c
           /\ \A k \in DOMAIN c : cache'[k] = c[k]
<1> TAKE c, u, x
<1> HAVE /\ ShowOver(c, u, page, x)
         /\ \/ u = None
            \/ /\ u = user /\ x.tab = ui.tab /\ x.applied = ui.applied
               /\ x.open = ui.open /\ x.query = ui.query
<1>1. Active' = ActiveOf(u, page, x)
    BY ShownActive
<1>2. ActiveOf(u, page, x) \subseteq Active
    BY DEF Active, ActiveOf, DetailPage, ListPage, LookupPage
<1>3. ActiveOf(u, page, x) \ Active = {}
    BY <1>2
<1>4. cache' = Mounted(c, {})
    BY <1>3 DEF ShowOver
<1> QED BY <1>1, <1>2, <1>4 DEF Mounted

\* An answer that lands becomes what is shown, or the 401 clears it all.
LEMMA LandingQuery ==
    \A k \in DOMAIN cache : Base /\ LandQuery(k) => View /\ UiKeep /\ CallsKeep
<1> TAKE k \in DOMAIN cache
<1> HAVE Base /\ LandQuery(k)
<1> DEFINE f == cache[k].fetch
           entry == cache[k]
<1>1. EntryShape(entry) /\ UNCHANGED own
    BY DEF Base, Shape, Shaped, LandQuery
<1>2. PICK landed, u, x, ops :
          /\ ShowOver([cache EXCEPT ![k] = landed], u, page, x) /\ Unmount(ops)
          /\ \/ u = None /\ x = FreshUi
             \/ u = user /\ x \in {[ui EXCEPT !.resets = FreshRows], ui}
          /\ \/ /\ f.answer = "ok"
                /\ landed = [Empty EXCEPT !.data = f.data, !.ver = f.ver, !.raced = f.raced]
             \/ landed = [entry EXCEPT !.fetch = [Asked(k) EXCEPT !.again = FALSE,
                                                                  !.raced = f.raced]]
             \/ landed = [entry EXCEPT !.fetch = Idle, !.error = TRUE]
    BY DEF LandQuery
<1> DEFINE c == [cache EXCEPT ![k] = landed]
<1>3. EntryShape(landed) /\ EntryMove(k, entry, landed)
    <2>1. CASE /\ f.answer = "ok"
               /\ landed = [Empty EXCEPT !.data = f.data, !.ver = f.ver, !.raced = f.raced]
        <3>1. EntryShape(landed) /\ AtRest(landed) /\ landed.data = f.data
                  /\ landed.ver = f.ver /\ landed.raced = f.raced
            BY <2>1 DEF Empty, Idle, AtRest, EntryShape, EntryFields, FetchFields
        <3> QED BY <1>1, <2>1, <3>1 DEF EntryMove, LandedEntry, OwnSame
    <2>2. CASE landed = [entry EXCEPT !.fetch = [Asked(k) EXCEPT !.again = FALSE,
                                                                 !.raced = f.raced]]
        <3>1. /\ DOMAIN landed = EntryFields /\ SameData(entry, landed)
              /\ landed.fetch = [Asked(k) EXCEPT !.again = FALSE, !.raced = f.raced]
            BY <1>1, <2>2 DEF EntryShape, EntryFields, SameData
        <3>2. DOMAIN landed.fetch = FetchFields /\ landed.fetch.answer = "sent"
            BY <3>1, AskedShape DEF FetchFields
        <3> QED BY <3>1, <3>2 DEF EntryShape, EntryMove, AskedEntry
    <2>3. CASE landed = [entry EXCEPT !.fetch = Idle, !.error = TRUE]
        <3>1. /\ DOMAIN landed = EntryFields /\ SameData(entry, landed)
              /\ landed.fetch = Idle /\ landed.error
            BY <1>1, <2>3 DEF EntryShape, EntryFields, SameData
        <3>2. DOMAIN Idle = FetchFields /\ Idle.answer = "none"
            BY DEF Idle, FetchFields
        <3> QED BY <1>1, <3>1, <3>2 DEF EntryShape, EntryMove, DroppedEntry, OwnSame, AtRest
    <2> QED BY <1>2, <2>1, <2>2, <2>3
<1>4. DOMAIN c = DOMAIN cache /\ c[k] = landed
      /\ \A q \in DOMAIN cache : q # k => c[q] = cache[q]
    OBVIOUS
<1>5. UiShape
    BY DEF Base, Shape
<1>6. u = None \/ (u = user /\ x.tab = ui.tab /\ x.applied = ui.applied
                      /\ x.open = ui.open /\ x.query = ui.query)
    <2>1. LET y == [ui EXCEPT !.resets = FreshRows]
          IN  y.tab = ui.tab /\ y.applied = ui.applied /\ y.open = ui.open /\ y.query = ui.query
        BY <1>5 DEF UiShape, UiFields
    <2> QED BY <1>2, <2>1
<1>7. ShowOver(c, u, page, x)
    BY <1>2
<1> HIDE DEF c
<1>8. Active' \subseteq Active /\ DOMAIN cache' = DOMAIN cache
      /\ \A q \in DOMAIN cache : cache'[q] = c[q]
    BY <1>4, <1>6, <1>7, FewerActive
<1>9. View
    BY <1>1, <1>3, <1>4, <1>8, EntryMoves
<1>11. UiKeep
    <2>1. ui' = x
        BY <1>7 DEF ShowOver
    <2>2. CASE x = [ui EXCEPT !.resets = FreshRows]
        BY <1>5, <2>1, <2>2 DEF UiShape, UiKeep, UiFields
    <2> QED BY <1>2, <1>5, <2>1, <2>2, FreshKeeps, SameUi
<1>12. CallsKeep
    BY <1>2, Unmounted DEF Base, Shape
<1> QED BY <1>9, <1>11, <1>12

\* invalidateQueries of a query that is not shown, or on its way for the first time.
MarksIt(k, e, d) ==
    /\ ~(k \in Active /\ AtRest(e))
    /\ SameData(e, d) /\ d.error = e.error /\ d.stale
    /\ d.fetch.answer = e.fetch.answer
    /\ d.fetch.data = e.fetch.data /\ d.fetch.ver = e.fetch.ver
    /\ AtRest(e) \/ d.fetch.raced

\* invalidateQueries asks again for what is observed and marks the rest.
LEMMA InvalidatedMoves ==
    \A keys : \A k \in DOMAIN cache : Base =>
        /\ EntryShape(Invalidated(keys)[k])
        /\ k \notin keys => Invalidated(keys)[k] = cache[k]
        /\ k \in keys => \/ AskedEntry(k, cache[k], Invalidated(keys)[k])
                         \/ MarksIt(k, cache[k], Invalidated(keys)[k])
<1> TAKE keys
<1> TAKE k \in DOMAIN cache
<1> HAVE Base
<1> DEFINE e == cache[k]
           d == Invalidated(keys)[k]
           marked == [e EXCEPT !.stale = TRUE]
<1>1. EntryShape(e)
    BY DEF Base, Shape, Shaped
<1>2. CASE k \notin keys
    <2>1. d = e
        BY <1>2 DEF Invalidated
    <2> QED BY <1>1, <1>2, <2>1
<1>3. CASE k \in keys /\ k \in Active /\ (AtRest(e) \/ e.data # None)
    <2>1. d = Fetching(marked, k)
        BY <1>3 DEF Invalidated
    <2>2. EntryShape(marked) /\ SameData(e, marked)
        BY <1>1 DEF EntryShape, EntryFields, SameData
    <2> HIDE DEF marked
    <2>3. EntryShape(d) /\ AskedEntry(k, marked, d)
        BY <2>1, <2>2, FetchingMoves
    <2> QED BY <1>3, <2>2, <2>3 DEF AskedEntry, SameData
<1>4. CASE k \in keys /\ ~(k \in Active /\ (AtRest(e) \/ e.data # None))
    <2> DEFINE on == ~AtRest(e)
               f == [e.fetch EXCEPT !.raced = on]
    <2>1. d = [e EXCEPT !.stale = TRUE, !.fetch.raced = on]
        BY <1>4 DEF Invalidated
    <2> HIDE DEF on
    <2>2. f.answer = e.fetch.answer /\ f.data = e.fetch.data /\ f.ver = e.fetch.ver
          /\ DOMAIN f = FetchFields /\ f.raced = on
        BY <1>1 DEF EntryShape, FetchFields
    <2>3. /\ DOMAIN d = EntryFields /\ SameData(e, d) /\ d.error = e.error /\ d.stale
          /\ d.fetch = f
        BY <1>1, <2>1 DEF EntryShape, EntryFields, SameData
    <2> HIDE DEF f
    <2>4. EntryShape(d)
        BY <2>2, <2>3 DEF EntryShape
    <2>5. AtRest(e) \/ d.fetch.raced
        BY <2>2, <2>3 DEF on
    <2>6. MarksIt(k, e, d)
        BY <1>4, <2>2, <2>3, <2>5 DEF MarksIt
    <2> QED BY <1>4, <2>4, <2>6
<1> QED BY <1>2, <1>3, <1>4

\* What react-query does of itself moves entries, not the interface.
LEMMA CacheMoves == Base /\ Cache => View /\ UiKeep /\ CallsKeep
<1> SUFFICES ASSUME Base, Cache PROVE View /\ UiKeep /\ CallsKeep
    OBVIOUS
<1>1. PICK k \in DOMAIN cache : ServeQuery(k) \/ FailQuery(k) \/ LandQuery(k) \/ Expire(k)
    BY DEF Cache
<1>2. CASE LandQuery(k)
    BY <1>2, LandingQuery
<1>3. CASE ServeQuery(k) \/ FailQuery(k) \/ Expire(k)
    <2>1. View
        BY <1>3, ServingQuery, FailingQuery
    <2>2. UNCHANGED <<ui, calls>>
        BY <1>3 DEF ServeQuery, FailQuery, Expire, mineVars
    <2> QED BY <2>1, <2>2, SameUi, SameCalls DEF Base, Shape
<1> QED BY <1>1, <1>2, <1>3

----------------------------------------------------------------------------
(* What a page shows of the current secret, or is about to. *)

\* The secret on the page, and the secret in the answer under way to it.
Drawn(c) == IF Detail \in DOMAIN c /\ c[Detail].data # None THEN c[Detail].data.current ELSE 0

Coming(c) ==
    IF Detail \in DOMAIN c /\ c[Detail].fetch.answer = "ok"
    THEN c[Detail].fetch.data.current ELSE 0

\* What the page shows of the secret is refetched, lands, or is gone.
Looks ==
    \/ Drawn(cache') = Drawn(cache) /\ Coming(cache') \in {Coming(cache), 0}
    \/ Drawn(cache') = Drawn(cache) /\ Coming(cache') = srv.hmac.current
    \/ Drawn(cache') \in {Coming(cache), 0} /\ Coming(cache') = 0

\* The answer for an environment holds the current secret of its own moment.
LEMMA ServesDetail ==
    \A s : Answered(Detail, s).current \in {srv.hmac.current, 0}
<1> TAKE s
<1>1. /\ Detail \notin {Envs, Keys, Dlq, Users}
      /\ Detail[1] # "notifications"
    BY DEF Detail, Envs, Keys, Dlq, Users
<1>2. Answered(Detail, s) = DetailFor(s)
    BY <1>1, SMTT(20) DEF Answered
<1> QED BY <1>2 DEF DetailFor

\* What the page shows of a secret it showed, or was on its way to it.
LEMMA ViewLooks == Base /\ View => Looks
<1> SUFFICES ASSUME Base, View PROVE Looks
    OBVIOUS
<1> DEFINE e == Before(Detail)
           d == cache'[Detail]
           Data(x) == IF x.data # None THEN x.data.current ELSE 0
           Fetch(x) == IF x.fetch.answer = "ok" THEN x.fetch.data.current ELSE 0
<1>1. CASE Detail \notin DOMAIN cache'
    BY <1>1 DEF Looks, Drawn, Coming
<1>2. CASE Detail \in DOMAIN cache'
    <2>1. Drawn(cache) = Data(e) /\ Coming(cache) = Fetch(e)
        BY EmptyShape DEF Drawn, Coming, Before, AtRest
    <2>2. Drawn(cache') = Data(d) /\ Coming(cache') = Fetch(d)
        BY <1>2 DEF Drawn, Coming
    <2>3. EntryMove(Detail, e, d)
        BY <1>2 DEF View
    <2> HIDE DEF e, d
    <2>4. ASSUME ServedEntry(Detail, e, d) PROVE Fetch(d) \in {srv.hmac.current, 0}
        BY <2>4, ServesDetail DEF ServedEntry
    <2> QED BY <2>1, <2>2, <2>3, <2>4
            DEF Looks, EntryMove, KeptEntry, StaleEntry, AskedEntry, MarkedEntry, ServedEntry,
                FailedEntry, LandedEntry, DroppedEntry, SameData, AtRest
<1> QED BY <1>1, <1>2

(* What a step does to the secrets, to what is shown of them and to what is *)
(* asked about them.                                                        *)

\* No completion is asked for.
AsksLess == Asking(calls') \subseteq Asking(calls)

\* Nothing, but for what the page shows.
Quietly ==
    /\ srv'.hmac = srv.hmac /\ backend' = backend
    /\ ui'.rotated \in {ui.rotated, 0} /\ Looks /\ AsksLess
    /\ UNCHANGED <<doubled, crossed>>

\* A rotation by this admin, by another or by another tab (rotate_hmac).
Rotates ==
    /\ srv'.hmac = Rotate(srv.hmac)
    /\ doubled' = (doubled \/ srv.hmac.previous # 0)
    /\ AsksLess
    /\ UNCHANGED <<crossed, backend, ui, cache>>

\* A completion arrives that names a secret; it drops the previous one of now.
Completes ==
    \E secret \in Asking(calls) :
        /\ srv'.hmac = [srv.hmac EXCEPT !.previous = 0]
        /\ crossed' = (crossed \/ srv.hmac.current # secret)
        /\ AsksLess
        /\ UNCHANGED <<doubled, backend, ui, cache>>

\* The banner announces the secret its answer carries.
SaysRotated ==
    /\ crossed' = (crossed \/ ui'.rotated # srv.hmac.current)
    /\ srv'.hmac = srv.hmac /\ backend' = backend
    /\ Looks /\ AsksLess
    /\ UNCHANGED doubled

\* The admin completes: the page shows the secret the backend has.
AsksCompletion ==
    /\ Asking(calls') \subseteq Asking(calls) \cup {backend}
    /\ backend = Drawn(cache)
    /\ UNCHANGED <<srv, doubled, crossed, backend, ui, cache>>

\* The backend gets the banner's secret, or else the page's.
Installs ==
    /\ backend' = IF ui.rotated # 0 THEN ui.rotated ELSE Drawn(cache)
    /\ backend' # 0
    /\ UNCHANGED <<srv, doubled, crossed, ui, cache, calls>>

\* Every step is one of these.
Move == Quietly \/ Rotates \/ Completes \/ SaysRotated \/ AsksCompletion \/ Installs

\* The secrets are left alone.
Rest == srv' \in PlaneType /\ srv'.hmac = srv.hmac /\ UNCHANGED <<backend, doubled, crossed>>

\* A step that asks nothing new and leaves the secrets alone is quiet.
LEMMA QuietStep ==
    Base /\ View /\ UiKeep /\ CallsShape' /\ AsksLess /\ Rest => Base' /\ View /\ Quietly
BY ViewLooks DEF Base, View, UiKeep, Rest, Quietly, Shape

\* Requests that go on ask nothing new of the secrets.
LEMMA SameCallsLess == Base /\ CallsKeep => CallsShape' /\ AsksLess
BY CallsGoOn DEF Base, Shape, AsksLess

\* Requests left alone ask nothing new of the secrets.
LEMMA NoCalls == Base /\ UNCHANGED calls => CallsShape' /\ AsksLess
BY SameCalls, SameCallsLess DEF Base, Shape

\* A step outside the server leaves its secrets alone.
LEMMA SameSrv == Base /\ UNCHANGED <<srv, backend, doubled, crossed>> => Rest
BY DEF Base, Shape, Rest

\* A step that leaves the interface alone announces no secret.
LEMMA SameUiKeep == Base /\ UNCHANGED ui => UiKeep
BY SameUi DEF Base, Shape

\* A request that is not about the secrets is sent quietly.
LEMMA SendsOnPage ==
    \A op, at, arg : /\ Base /\ Send(op, at, arg)
                     /\ op \in PageOps \cup {"logout"} /\ op # "complete"
                     /\ op = "compose" => at \in BroadcastKeys
                     /\ UiKeep /\ SamePage
                     /\ UNCHANGED <<srv, backend, doubled, crossed, cache, own>>
        => Base' /\ View /\ Quietly
<1> TAKE op, at, arg
<1> HAVE /\ Base /\ Send(op, at, arg)
         /\ op \in PageOps \cup {"logout"} /\ op # "complete"
         /\ op = "compose" => at \in BroadcastKeys
         /\ UiKeep /\ SamePage
         /\ UNCHANGED <<srv, backend, doubled, crossed, cache, own>>
<1>1. CallsShape' /\ AsksLess
    BY SentKeeps DEF Base, Shape, AsksLess
<1>2. View /\ Rest
    BY Stays, SameSrv
<1> QED BY <1>1, <1>2, QuietStep

\* So is one that changes nothing on the page.
LEMMA SendsQuietly ==
    \A op, at, arg : /\ Base /\ Send(op, at, arg)
                     /\ op \in PageOps \cup {"logout"} /\ op # "complete"
                     /\ op = "compose" => at \in BroadcastKeys
                     /\ UNCHANGED <<srv, backend, doubled, crossed, ui, cache, own, user, page>>
        => Base' /\ View /\ Quietly
BY SendsOnPage, SameUiKeep DEF SamePage

\* What react-query does is quiet.
LEMMA QuietCache == Base /\ Cache => Base' /\ View /\ Quietly
<1> SUFFICES ASSUME Base, Cache PROVE Base' /\ View /\ Quietly
    OBVIOUS
<1>1. UNCHANGED <<srv, backend, doubled, crossed>>
    BY DEF Cache, ServeQuery, FailQuery, LandQuery, Expire, serverVars, planeVars, mineVars
<1> QED BY <1>1, CacheMoves, SameCallsLess, SameSrv, QuietStep

\* Loading, signing in and signing out are quiet.
LEMMA GateMoves == Base /\ Gate => Base' /\ View /\ Quietly
<1> SUFFICES ASSUME Base, Gate PROVE Base' /\ View /\ Quietly
    OBVIOUS
<1> USE DEF serverVars, planeVars, gateVars, viewVars, mineVars
<1>1. CASE LoadMe
    <2>1. View /\ UiKeep
        <3>1. ASSUME NEW u, NEW pg, Show(u, pg, FreshUi), UNCHANGED own PROVE View /\ UiKeep
            BY <3>1, ShowMoves, FreshKeeps DEF Show, ShowOver
        <3>2. CASE UNCHANGED <<user, viewVars, own>>
            BY <3>2, Stays, SameUiKeep DEF SamePage
        <3> QED BY <1>1, <3>1, <3>2 DEF LoadMe
    <2> QED BY <1>1, <2>1, NoCalls, SameSrv, QuietStep DEF LoadMe
<1>2. CASE Reload
    <2>1. View
        <3>1. DOMAIN cache' = {} /\ user' = None
            BY <1>2 DEF Reload, NoCache
        <3>2. Active' = {}
            BY <3>1 DEF Active, ActiveOf
        <3> QED BY <3>1, <3>2 DEF View, Shaped, ActiveThere
    <2> QED BY <1>2, <2>1, FreshKeeps, NoCalls, SameSrv, QuietStep DEF Reload
<1>3. CASE LandLogin
    <2>1. View /\ UiKeep
        <3>1. ASSUME NEW u, NEW pg, Show(u, pg, FreshUi), UNCHANGED own PROVE View /\ UiKeep
            BY <3>1, ShowMoves, FreshKeeps DEF Show, ShowOver
        <3>2. CASE UNCHANGED <<user, viewVars, own>>
            BY <3>2, Stays, SameUiKeep DEF SamePage
        <3> QED BY <1>3, <3>1, <3>2 DEF LandLogin
    <2> QED BY <1>3, <2>1, NoCalls, SameSrv, QuietStep DEF LandLogin
<1>4. CASE SignOut
    BY <1>4, SendsQuietly DEF SignOut
<1>5. ASSUME NEW s \in Sessions, ServeLogin(s) \/ \E p \in People : SignIn(s, p)
      PROVE  Base' /\ View /\ Quietly
    <2>1. UNCHANGED <<srv, backend, doubled, crossed, ui, cache, own, user, page, calls>>
        BY <1>5 DEF ServeLogin, SignIn
    <2> QED BY <2>1, Stays, SameUiKeep, NoCalls, SameSrv, QuietStep DEF SamePage
<1> QED BY <1>1, <1>2, <1>3, <1>4, <1>5 DEF Gate

\* Paging, filtering and opening are quiet.
LEMMA BrowseMoves == Base /\ Browse => Base' /\ View /\ Quietly
<1> SUFFICES ASSUME Base, Browse PROVE Base' /\ View /\ Quietly
    OBVIOUS
<1> USE DEF serverVars, planeVars, gateVars, viewVars, mineVars
<1>1. ASSUME NEW x, Turn(x), DOMAIN x = UiFields, x.key = ui.key, x.rotated = ui.rotated
      PROVE  Base' /\ View /\ Quietly
    <2>1. View /\ ui' = x
        BY <1>1, ShowMoves DEF Turn, Show, ShowOver
    <2>2. UiKeep
        BY <1>1, <2>1 DEF UiKeep, UiShape, Base, Shape
    <2> QED BY <1>1, <2>1, <2>2, NoCalls, SameSrv, QuietStep DEF Turn
<1>2. ASSUME \/ ApplyFilter \/ ResetFilter \/ LoadMore \/ CloseTimeline
             \/ \E f \in Filters : EditFilter(f)
             \/ \E n \in Rows : OpenTimeline(n)
             \/ \E id \in Lookups : LookUp(id)
      PROVE  Base' /\ View /\ Quietly
    <2> DEFINE Like(x) == DOMAIN x = UiFields /\ x.key = ui.key /\ x.rotated = ui.rotated
    <2>1. UiShape
        BY DEF Base, Shape
    <2>2. ASSUME NEW x, Turn(x), Like(x) PROVE Base' /\ View /\ Quietly
        BY <1>1, <2>2
    <2>3. \A a, p, t :
              /\ Like([ui EXCEPT !.applied = a, !.passed = p, !.there = t])
              /\ Like([ui EXCEPT !.draft = "all", !.applied = a, !.passed = p, !.there = t])
              /\ Like([ui EXCEPT !.draft = a]) /\ Like([ui EXCEPT !.open = a])
              /\ Like([ui EXCEPT !.query = a])
        BY <2>1 DEF UiShape, UiFields
    <2> HIDE DEF Like
    <2>4. CASE ApplyFilter
        <3> DEFINE a == [filter |-> ui.draft, cursor |-> 0]
        <3>1. Turn([ui EXCEPT !.applied = a, !.passed = {}, !.there = Rows])
            BY <2>4 DEF ApplyFilter
        <3> HIDE DEF a
        <3> QED BY <2>2, <2>3, <3>1
    <2>5. CASE ResetFilter
        <3> DEFINE a == [filter |-> "all", cursor |-> 0]
        <3>1. Turn([ui EXCEPT !.draft = "all", !.applied = a, !.passed = {}, !.there = Rows])
            BY <2>5 DEF ResetFilter
        <3> HIDE DEF a
        <3> QED BY <2>2, <2>3, <3>1
    <2>6. CASE LoadMore
        <3> DEFINE a == Following(cache[Listed].data.next)
                   p == ui.passed \cup cache[Listed].data.items
                   t == ui.there \cap cache[Listed].data.there
        <3>1. Turn([ui EXCEPT !.applied = a, !.passed = p, !.there = t])
            <4>1. Turn([ui EXCEPT !.applied = a,
                                  !.passed = @ \cup cache[Listed].data.items,
                                  !.there = @ \cap cache[Listed].data.there])
                BY <2>6 DEF LoadMore
            <4> QED BY <2>1, <4>1 DEF UiShape, UiFields
        <3> HIDE DEF a, p, t
        <3> QED BY <2>2, <2>3, <3>1
    <2>7. CASE CloseTimeline
        BY <2>2, <2>3, <2>7 DEF CloseTimeline
    <2>8. ASSUME NEW f \in Filters, EditFilter(f) PROVE Base' /\ View /\ Quietly
        BY <2>2, <2>3, <2>8 DEF EditFilter
    <2>9. ASSUME NEW n \in Rows, OpenTimeline(n) PROVE Base' /\ View /\ Quietly
        BY <2>2, <2>3, <2>9 DEF OpenTimeline
    <2>10. ASSUME NEW id \in Lookups, LookUp(id) PROVE Base' /\ View /\ Quietly
        BY <2>2, <2>3, <2>10 DEF LookUp
    <2> QED BY <1>2, <2>4, <2>5, <2>6, <2>7, <2>8, <2>9, <2>10
<1>3. CASE Reconnect
    <2>1. Active' = Active
        BY <1>3, SameActive DEF Reconnect, SamePage
    <2>2. View
        BY <1>3, <2>1, MountedMoves DEF Reconnect
    <2> QED BY <1>3, <2>2, SameUiKeep, NoCalls, SameSrv, QuietStep DEF Reconnect
<1>4. ASSUME NEW pg \in Pages, Go(pg) PROVE Base' /\ View /\ Quietly
    <2>1. View /\ UiKeep
        BY <1>4, ShowMoves, FreshKeeps DEF Go, Show, ShowOver
    <2>2. CallsKeep
        BY <1>4, Unmounted DEF Go, Base, Shape
    <2>3. Rest
        BY <1>4, SameSrv DEF Go
    <2>4. CallsShape' /\ AsksLess
        BY <2>2, SameCallsLess
    <2> QED BY <2>1, <2>3, <2>4, QuietStep
<1> QED BY <1>2, <1>3, <1>4 DEF Browse

\* A click that neither completes nor composes is quiet.
LEMMA ClickMoves ==
    \A kind, op, at, arg : /\ Base /\ Click(kind, op, at, arg)
                           /\ op \in PageOps \ {"complete", "compose"}
        => Base' /\ View /\ Quietly
<1> TAKE kind, op, at, arg
<1> HAVE Base /\ Click(kind, op, at, arg) /\ op \in PageOps \ {"complete", "compose"}
<1>1. /\ Send(op, at, arg)
      /\ UNCHANGED <<srv, backend, doubled, crossed, ui, cache, own, user, page>>
    BY DEF Click, serverVars, planeVars, gateVars, viewVars
<1> QED BY <1>1, SendsQuietly

\* A dialog of the users table leaves the rest of the interface alone.
LEMMA DialogKeeps ==
    \A d, x : Base /\ ui' = WithDialog(d, x) => UiKeep /\ ui'.tab = ui.tab
                  /\ ui'.applied = ui.applied /\ ui'.open = ui.open /\ ui'.query = ui.query
<1> TAKE d, x
<1> HAVE Base /\ ui' = WithDialog(d, x)
<1>1. UiShape
    BY DEF Base, Shape
<1>2. \E y : ui' = [ui EXCEPT !.create = y] \/ ui' = [ui EXCEPT !.resets = y]
    BY DEF WithDialog
<1> QED BY <1>1, <1>2 DEF UiKeep, UiShape, UiFields

\* What is done in the users table is quiet.
LEMMA UserAdminMoves == Base /\ UserAdmin => Base' /\ View /\ Quietly
<1> SUFFICES ASSUME Base, UserAdmin PROVE Base' /\ View /\ Quietly
    OBVIOUS
<1>1. ASSUME NEW p \in People,
             (\E to \in Offered : ChangeRole(p, to)) \/ ToggleDisabled(p) \/ DeleteUser(p)
      PROVE  Base' /\ View /\ Quietly
    <2>1. \E op \in Ops : \E to : Click("users", op, p, to)
        BY <1>1 DEF ChangeRole, ToggleDisabled, DeleteUser, Ops
    <2> QED BY <2>1, ClickMoves DEF PageOps, Ops
<1>2. ASSUME NEW d, OpenDialog(d) \/ CloseDialog(d) \/ EditEmail(d)
      PROVE  Base' /\ View /\ Quietly
    <2>1. \E e, x : ui' = WithDialog(e, x)
        BY <1>2 DEF OpenDialog, CloseDialog, EditEmail
    <2>2. UNCHANGED <<srv, backend, doubled, crossed, cache, own, user, page, calls>>
        BY <1>2 DEF OpenDialog, CloseDialog, EditEmail, serverVars, planeVars, gateVars, mineVars
    <2>3. UiKeep /\ SamePage
        BY <2>1, <2>2, DialogKeeps DEF SamePage
    <2> QED BY <2>2, <2>3, Stays, NoCalls, SameSrv, QuietStep
<1>3. ASSUME NEW d \in Dialogs, NEW role \in Offered, SubmitDialog(d, role)
      PROVE  Base' /\ View /\ Quietly
    <2>1. \E op \in {"create", "reset"} : \E at, arg : Send(op, at, arg)
        BY <1>3 DEF SubmitDialog
    <2>2. UNCHANGED <<srv, backend, doubled, crossed, cache, own, user, page>>
        BY <1>3 DEF SubmitDialog, serverVars, planeVars, gateVars
    <2>3. \E e, x : ui' = WithDialog(e, x)
        BY <1>3 DEF SubmitDialog
    <2>4. UiKeep /\ SamePage
        BY <2>2, <2>3, DialogKeeps DEF SamePage
    <2> QED BY <2>1, <2>2, <2>4, SendsOnPage DEF PageOps
<1> QED BY <1>1, <1>2, <1>3 DEF UserAdmin

\* A click on a plane page is quiet, asks to complete or installs the secret.
LEMMA PlaneMoves == Base /\ Plane => Base' /\ View /\ Move
<1> SUFFICES ASSUME Base, Plane PROVE Base' /\ View /\ Move
    OBVIOUS
<1>1. ASSUME \/ CreateEnvironment \/ CreateKey \/ RotateSecret \/ ReplayAll
             \/ \E n \in 1..MaxKeys : RevokeKey(n)
             \/ \E l \in Letters : ReplayOne(l)
      PROVE  Base' /\ View /\ Move
    <2>1. ASSUME NEW kind, NEW op \in PageOps \ {"complete", "compose"}, NEW at,
                 Click(kind, op, at, 0)
          PROVE  Base' /\ View /\ Move
        BY <2>1, ClickMoves DEF Move
    <2>2. {"env", "key", "rotate", "replay-all", "revoke", "replay"}
              \subseteq PageOps \ {"complete", "compose"}
        BY DEF PageOps, HmacOps
    <2> QED BY <1>1, <2>1, <2>2
            DEF CreateEnvironment, CreateKey, RotateSecret, ReplayAll, RevokeKey, ReplayOne
<1>2. CASE Compose
    <2>1. Send("compose", ui.key, 0)
        BY <1>2 DEF Compose, Click
    <2>2. UNCHANGED <<srv, backend, doubled, crossed, ui, cache, own, user, page>>
        BY <1>2 DEF Compose, Click, serverVars, planeVars, gateVars, viewVars
    <2>3. "compose" \in PageOps /\ ui.key \in BroadcastKeys
        BY DEF PageOps, Base, Shape, UiShape
    <2> QED BY <2>1, <2>2, <2>3, SendsQuietly DEF Move
<1>3. ASSUME CloseKey \/ \E key \in {"", "k"} : TypeKey(key) PROVE Base' /\ View /\ Move
    <2>1. UNCHANGED <<srv, backend, doubled, crossed, cache, own, user, page, calls>>
        BY <1>3 DEF CloseKey, TypeKey, serverVars, planeVars, gateVars, mineVars
    <2>2. \/ ui' = [ui EXCEPT !.created = 0]
          \/ \E key \in BroadcastKeys : ui' = [ui EXCEPT !.key = key]
        BY <1>3 DEF CloseKey, TypeKey, BroadcastKeys
    <2>3. UiKeep /\ SamePage
        BY <2>1, <2>2 DEF UiKeep, SamePage, UiShape, UiFields, Base, Shape
    <2> QED BY <2>1, <2>3, Stays, NoCalls, SameSrv, QuietStep DEF Move
<1>4. CASE CompleteRotation
    <2>1. /\ Send("complete", 0, cache[Detail].data.current)
          /\ UNCHANGED <<srv, doubled, crossed, backend, ui, cache, own, user, page>>
        BY <1>4 DEF CompleteRotation, Click, serverVars, planeVars, gateVars, viewVars
    <2>2. backend = Drawn(cache) /\ cache[Detail].data.current = backend
        BY <1>4 DEF CompleteRotation, HmacShown, Shown, Drawn, Base, ActiveThere
    <2>3. CallsShape' /\ Asking(calls') \subseteq Asking(calls) \cup {backend}
        BY <2>1, <2>2, IsSent
           DEF CallsShape, Continues, IsNew, Asking, Base, Shape, PageOps, HmacOps
    <2>4. View /\ UiKeep /\ Rest
        BY <2>1, Stays, SameUiKeep, SameSrv DEF SamePage
    <2> QED BY <2>1, <2>2, <2>3, <2>4
            DEF Move, AsksCompletion, Base, Shape, View, UiKeep, Rest
<1>5. CASE Install
    <2>1. UNCHANGED <<srv, doubled, crossed, ui, cache, own, user, page, calls>>
        BY <1>5 DEF Install, serverVars, planeVars, gateVars, viewVars
    <2>2. Detail \in DOMAIN cache /\ cache[Detail].data # None
        BY <1>5 DEF Install, HmacShown, Shown, Base, ActiveThere
    <2>3. Installs
        BY <1>5, <2>1, <2>2 DEF Install, Installs, Drawn
    <2>4. View /\ UiKeep /\ CallsShape'
        BY <2>1, Stays, SameUiKeep, NoCalls DEF SamePage
    <2> QED BY <2>1, <2>3, <2>4 DEF Move, Base, Shape, View, UiKeep
<1>6. ASSUME NEW tab \in {"keys", "hmac"}, SwitchTab(tab) PROVE Base' /\ View /\ Move
    <2> DEFINE x == [ui EXCEPT !.tab = tab, !.rotated = 0, !.created = 0]
    <2>1. View /\ ui' = x
        BY <1>6, ShowMoves DEF SwitchTab, Show, ShowOver
    <2>2. UiKeep
        BY <2>1 DEF UiKeep, UiShape, UiFields, Base, Shape
    <2>3. CallsKeep
        BY <1>6, Unmounted DEF SwitchTab, Base, Shape
    <2>4. Rest
        BY <1>6, SameSrv DEF SwitchTab, serverVars, planeVars
    <2>5. CallsShape' /\ AsksLess
        BY <2>3, SameCallsLess
    <2> QED BY <2>1, <2>2, <2>4, <2>5, QuietStep DEF Move
<1> QED BY <1>1, <1>2, <1>3, <1>4, <1>5, <1>6 DEF Plane

\* A rotation keeps the types of the server and changes its secrets only.
LEMMA RotatesPlane ==
    \A s \in PlaneType : /\ [s EXCEPT !.hmac = Rotate(@)] \in PlaneType
                         /\ [s EXCEPT !.hmac = Rotate(@)].hmac = Rotate(s.hmac)
<1> TAKE s \in PlaneType
<1>1. Rotate(s.hmac) \in [current : Nat, previous : Nat, made : Nat]
    BY DEF PlaneType, Rotate
<1>2. \A h \in [current : Nat, previous : Nat, made : Nat] :
          [s EXCEPT !.hmac = h] \in PlaneType /\ [s EXCEPT !.hmac = h].hmac = h
    BY DEF PlaneType
<1> QED BY <1>1, <1>2

\* A notification or a broadcast leaves the secrets alone.
LEMMA Inserting ==
    \A key \in BroadcastKeys : srv \in PlaneType /\ InsertBroadcast(key)
        => srv' \in PlaneType /\ srv'.hmac = srv.hmac
<1> TAKE key \in BroadcastKeys
<1> HAVE srv \in PlaneType /\ InsertBroadcast(key)
<1>1. CASE srv' = srv
    BY <1>1
<1>2. CASE srv' = [srv EXCEPT !.broadcasts = Append(@, key)]
    <2>1. srv.broadcasts \in Seq(BroadcastKeys)
        BY DEF PlaneType
    <2>2. Append(srv.broadcasts, key) \in Seq(BroadcastKeys)
        BY <2>1
    <2>3. \A b \in Seq(BroadcastKeys) : [srv EXCEPT !.broadcasts = b] \in PlaneType
              /\ [srv EXCEPT !.broadcasts = b].hmac = srv.hmac
        BY DEF PlaneType
    <2> QED BY <1>2, <2>2, <2>3
<1> QED BY <1>1, <1>2 DEF InsertBroadcast

\* What others do is quiet, a rotation or a completion.
LEMMA ElsewhereMoves == Base /\ Elsewhere => Base' /\ View /\ Move
<1> SUFFICES ASSUME Base, Elsewhere PROVE Base' /\ View /\ Move
    OBVIOUS
<1> USE DEF ElsewhereRest, gateVars, viewVars, mineVars, planeVars
<1>1. ASSUME UNCHANGED <<ui, cache, own, user, page, calls, backend, doubled, crossed>>,
             srv' \in PlaneType, srv'.hmac = srv.hmac
      PROVE  Base' /\ View /\ Move
    BY <1>1, Stays, SameUiKeep, NoCalls, QuietStep DEF SamePage, Rest, Move
<1>2. ASSUME NEW c \in Calls,
             \/ OtherIsAnswered(c)
             \/ \E op \in Ops, by, p \in People, to \in Offered :
                    OtherUpdates(c, op, by, p, to)
      PROVE  Base' /\ View /\ Move
    BY <1>1, <1>2 DEF OtherIsAnswered, OtherUpdates, Base, Shape
<1>3. ASSUME NEW p \in People, OtherSetsPassword(p) PROVE Base' /\ View /\ Move
    BY <1>1, <1>3 DEF OtherSetsPassword, Base, Shape
<1>4. ASSUME NEW s \in Sessions, SessionEnds(s) \/ \E p \in People : OtherSignsIn(s, p)
      PROVE  Base' /\ View /\ Move
    BY <1>1, <1>4 DEF SessionEnds, OtherSignsIn, Base, Shape
<1>5. ASSUME NEW n \in 1..MaxKeys, OtherRevokes(n) PROVE Base' /\ View /\ Move
    <2>1. srv' = [srv EXCEPT !.keys[n] = "revoked"]
        BY <1>5 DEF OtherRevokes
    <2>2. srv' \in PlaneType /\ srv'.hmac = srv.hmac
        BY <2>1 DEF PlaneType, Base, Shape
    <2> QED BY <1>1, <1>5, <2>2 DEF OtherRevokes
<1>6. ASSUME NEW l \in Letters, JobIsParked(l) PROVE Base' /\ View /\ Move
    <2>1. srv' = [srv EXCEPT !.letters = @ \cup {l}]
        BY <1>6 DEF JobIsParked
    <2>2. srv' \in PlaneType /\ srv'.hmac = srv.hmac
        BY <2>1 DEF PlaneType, Base, Shape
    <2> QED BY <1>1, <1>6, <2>2 DEF JobIsParked
<1>7. CASE OtherRotates
    <2>1. srv' = [srv EXCEPT !.hmac = Rotate(@)]
        BY <1>7 DEF OtherRotates
    <2>2. srv' \in PlaneType /\ srv'.hmac = Rotate(srv.hmac)
        BY <2>1, RotatesPlane DEF Base, Shape
    <2>3. UNCHANGED <<ui, cache, own, user, page, calls, backend, crossed>>
              /\ doubled' = (doubled \/ srv.hmac.previous # 0)
        BY <1>7 DEF OtherRotates
    <2>4. View /\ UiKeep /\ CallsShape' /\ AsksLess
        BY <2>3, Stays, SameUiKeep, NoCalls DEF SamePage
    <2> QED BY <2>2, <2>3, <2>4 DEF Base, Shape, View, UiKeep, Move, Rotates
<1>8. ASSUME NEW n \in Rows, NotificationArrives(n) PROVE Base' /\ View /\ Move
    <2>1. srv' = [srv EXCEPT !.rows = @ \cup {n}]
        BY <1>8 DEF NotificationArrives
    <2>2. srv' \in PlaneType /\ srv'.hmac = srv.hmac
        BY <2>1 DEF PlaneType, Base, Shape
    <2> QED BY <1>1, <1>8, <2>2 DEF NotificationArrives
<1>9. CASE OtherComposes("k")
    <2>1. InsertBroadcast("k")
        BY <1>9 DEF OtherComposes
    <2>2. srv' \in PlaneType /\ srv'.hmac = srv.hmac
        BY <2>1, Inserting DEF Base, Shape, BroadcastKeys
    <2> QED BY <1>1, <1>9, <2>2 DEF OtherComposes
<1> QED BY <1>2, <1>3, <1>4, <1>5, <1>6, <1>7, <1>8, <1>9 DEF Elsewhere

\* The answer of a request changes nothing on the page before it lands.
LEMMA RepliesQuietly ==
    \A c \in Calls : \A a, v, w :
        /\ Base /\ Answers(c, a) /\ Reply(c, a, v, w)
        /\ UNCHANGED <<backend, doubled, crossed, ui, cache, own, user, page>>
        /\ srv' \in PlaneType /\ srv'.hmac = srv.hmac
        => Base' /\ View /\ Quietly
<1> TAKE c \in Calls
<1> TAKE a, v, w
<1> HAVE /\ Base /\ Answers(c, a) /\ Reply(c, a, v, w)
         /\ UNCHANGED <<backend, doubled, crossed, ui, cache, own, user, page>>
         /\ srv' \in PlaneType /\ srv'.hmac = srv.hmac
<1>1. CallsKeep
    BY Replied DEF Base, Shape
<1>2. View /\ UiKeep /\ Rest
    BY Stays, SameUiKeep DEF SamePage, Rest
<1> QED BY <1>1, <1>2, SameCallsLess, QuietStep

\* What an operation of the plane writes, and what it does to the secrets.
LEMMA AppliesPlane ==
    \A call : srv \in PlaneType /\ call.op \in PlaneOps /\ srv' = Applied(call) =>
        /\ srv' \in PlaneType
        /\ call.op = "rotate" => srv'.hmac = Rotate(srv.hmac)
        /\ call.op = "complete" => srv'.hmac = [srv.hmac EXCEPT !.previous = 0]
        /\ call.op \notin HmacOps => srv'.hmac = srv.hmac
<1> TAKE call
<1> HAVE srv \in PlaneType /\ call.op \in PlaneOps /\ srv' = Applied(call)
<1>1. CASE call.op = "env"
    <2> DEFINE n == srv.envs + 1
    <2>1. srv' = [srv EXCEPT !.envs = n]
        BY <1>1 DEF Applied
    <2>2. n \in Nat
        BY DEF PlaneType
    <2> HIDE DEF n
    <2>3. srv' \in PlaneType /\ srv'.hmac = srv.hmac
        BY <2>1, <2>2 DEF PlaneType
    <2> QED BY <1>1, <2>3 DEF HmacOps
<1>2. CASE call.op = "rotate"
    <2>1. srv' = [srv EXCEPT !.hmac = Rotate(@)]
        BY <1>2 DEF Applied
    <2> QED BY <1>2, <2>1, RotatesPlane DEF HmacOps
<1>3. CASE call.op = "complete"
    <2> DEFINE h == [srv.hmac EXCEPT !.previous = 0]
    <2>1. srv' = [srv EXCEPT !.hmac = h]
        BY <1>3 DEF Applied
    <2>2. h \in [current : Nat, previous : Nat, made : Nat]
        BY DEF PlaneType
    <2> HIDE DEF h
    <2>3. srv' \in PlaneType /\ srv'.hmac = h
        BY <2>1, <2>2 DEF PlaneType
    <2> QED BY <1>3, <2>3 DEF h, HmacOps
<1>4. CASE call.op = "key"
    <2> DEFINE keys == [srv.keys EXCEPT ![Cardinality(KeysMade) + 1] = "active"]
    <2>1. srv' = [srv EXCEPT !.keys = keys]
        BY <1>4 DEF Applied
    <2>2. keys \in [1..MaxKeys -> {"none", "active", "revoked"}]
        BY DEF PlaneType
    <2> HIDE DEF keys
    <2>3. srv' \in PlaneType /\ srv'.hmac = srv.hmac
        BY <2>1, <2>2 DEF PlaneType
    <2> QED BY <1>4, <2>3
<1>5. CASE call.op = "revoke"
    <2> DEFINE keys == [srv.keys EXCEPT ![call.at] = "revoked"]
    <2>1. srv' = [srv EXCEPT !.keys = keys]
        BY <1>5 DEF Applied
    <2>2. keys \in [1..MaxKeys -> {"none", "active", "revoked"}]
        BY DEF PlaneType
    <2> HIDE DEF keys
    <2>3. srv' \in PlaneType /\ srv'.hmac = srv.hmac
        BY <2>1, <2>2 DEF PlaneType
    <2> QED BY <1>5, <2>3
<1>6. CASE call.op \in {"replay", "replay-all"}
    <2>1. srv' = [srv EXCEPT !.letters = @ \ Parked(call)]
        BY <1>6 DEF Applied
    <2>2. srv.letters \ Parked(call) \in SUBSET Letters
        BY DEF PlaneType
    <2> QED BY <1>6, <2>1, <2>2 DEF PlaneType
<1> QED BY <1>1, <1>2, <1>3, <1>4, <1>5, <1>6 DEF PlaneOps

\* The two history flags are flags.
LEMMA Flags == Base => doubled \in BOOLEAN /\ crossed \in BOOLEAN
BY DEF Base, Shape

\* Serving an operation of the plane is quiet, a rotation or a completion.
LEMMA ServingPlane == \A c \in Calls : Base /\ ServePlane(c) => Base' /\ View /\ Move
<1> TAKE c \in Calls
<1> HAVE Base /\ ServePlane(c)
<1> DEFINE call == calls[c]
<1>1. UNCHANGED <<backend, ui, cache, own, user, page>>
    BY DEF ServePlane, BrowserRest, gateVars, viewVars
<1>2. /\ call # None /\ call.answer = "sent" /\ call.op \in PlaneOps
    BY DEF ServePlane, Arrived
<1>3. \E a, v, w : Answers(c, a) /\ Reply(c, a, v, w)
    BY <1>2 DEF ServePlane, Answers
<1>4. CASE UNCHANGED <<srv, doubled, crossed>>
    BY <1>1, <1>2, <1>3, <1>4, RepliesQuietly DEF Base, Shape, Move
<1>5. CASE /\ srv' = Applied(call)
           /\ doubled' = (doubled \/ (call.op = "rotate" /\ srv.hmac.previous # 0))
           /\ crossed' = (crossed \/ (call.op = "complete" /\ srv.hmac.current # call.arg))
    <2>1. /\ srv' \in PlaneType
          /\ call.op = "rotate" => srv'.hmac = Rotate(srv.hmac)
          /\ call.op = "complete" => srv'.hmac = [srv.hmac EXCEPT !.previous = 0]
          /\ call.op \notin HmacOps => srv'.hmac = srv.hmac
        BY <1>2, <1>5, AppliesPlane DEF Base, Shape
    <2>2. CallsShape' /\ AsksLess
        BY <1>2, <1>3, Replied, SameCallsLess DEF Base, Shape
    <2>7. doubled' \in BOOLEAN /\ crossed' \in BOOLEAN
        BY <1>5
    <2>3. Base' /\ View
        BY <1>1, <2>1, <2>2, <2>7, Stays, SameUiKeep DEF SamePage, View, UiKeep, Base, Shape
    <2>4. CASE call.op = "rotate"
        <3>1. doubled' = (doubled \/ srv.hmac.previous # 0) /\ crossed' = crossed
            BY <1>5, <2>4, Flags
        <3> QED BY <1>1, <2>1, <2>2, <2>3, <2>4, <3>1 DEF Move, Rotates
    <2>5. CASE call.op = "complete"
        <3>1. call.arg \in Asking(calls)
            BY <1>2, <2>5 DEF Asking
        <3>2. doubled' = doubled /\ crossed' = (crossed \/ srv.hmac.current # call.arg)
            BY <1>5, <2>5, Flags
        <3> QED BY <1>1, <2>1, <2>2, <2>3, <2>5, <3>1, <3>2 DEF Move, Completes
    <2>6. CASE call.op \notin HmacOps
        <3>1. doubled' = doubled /\ crossed' = crossed
            BY <1>5, <2>6, Flags DEF HmacOps
        <3> QED BY <1>1, <1>2, <1>3, <2>1, <2>6, <3>1, RepliesQuietly DEF Move
    <2> QED BY <2>4, <2>5, <2>6 DEF HmacOps
<1> QED BY <1>4, <1>5 DEF ServePlane

\* An answer that lands is quiet, or announces the secret it carries.
LEMMA LandingCall == \A c \in Calls : Base /\ LandCall(c) => Base' /\ View /\ Move
<1> TAKE c \in Calls
<1> HAVE Base /\ LandCall(c)
<1> DEFINE call == calls[c]
           told == Affects(call.op)
           after == IF Leaves(call) THEN FreshUi
                    ELSE IF Announces(call) THEN Announced(call) ELSE ui
           fetched == IF Invalidates(call) THEN Invalidated(told) ELSE cache
           u == IF Leaves(call) THEN None ELSE user
<1>1. ShowOver(fetched, u, page, after)
    BY DEF LandCall
<1>2. /\ DOMAIN fetched = DOMAIN cache
      /\ \A k \in DOMAIN cache : fetched[k] = IF Invalidates(call) THEN Invalidated(told)[k]
                                             ELSE cache[k]
    BY DEF Invalidated
<1>3. View /\ ui' = after
    <2>1. u = None \/ (u = user /\ after.tab = ui.tab /\ after.applied = ui.applied
                          /\ after.open = ui.open /\ after.query = ui.query)
        <3>1. \/ after = FreshUi /\ u = None
              \/ u = user /\ after \in {Announced(call), ui}
            OBVIOUS
        <3>2. \/ Announced(call) = ui
              \/ \E r : \/ Announced(call) = [ui EXCEPT !.resets = r]
                       \/ Announced(call) = [ui EXCEPT !.create = r]
                       \/ Announced(call) = [ui EXCEPT !.rotated = r]
                       \/ Announced(call) = [ui EXCEPT !.created = r]
            BY DEF Announced
        <3>3. UiShape
            BY DEF Base, Shape
        <3> HIDE DEF after, u
        <3>4. LET x == Announced(call)
              IN  /\ x.tab = ui.tab /\ x.applied = ui.applied
                  /\ x.open = ui.open /\ x.query = ui.query
            BY <3>2, <3>3 DEF UiShape, UiFields
        <3> QED BY <3>1, <3>4
    <2> HIDE DEF fetched, after, u
    <2>2. /\ Active' \subseteq Active /\ DOMAIN cache' = DOMAIN fetched
          /\ \A k \in DOMAIN fetched : cache'[k] = fetched[k]
        BY <1>1, <2>1, FewerActive
    <2>3. \A k : k \notin told \/ ~Invalidates(call) => OwnSame(k)
        BY DEF LandCall, OwnSame, Invalidates
    <2>4. ASSUME NEW k \in DOMAIN cache
          PROVE  EntryShape(cache'[k]) /\ EntryMove(k, cache[k], cache'[k])
        <3>1. CASE k \notin told \/ ~Invalidates(call)
            <4>1. cache'[k] = cache[k]
                BY <1>2, <2>2, <3>1, InvalidatedMoves
            <4>2. KeptEntry(k, cache[k], cache'[k])
                BY <2>2, <2>3, <3>1, <4>1 DEF KeptEntry
            <4> QED BY <4>1, <4>2 DEF EntryMove, Base, Shape, Shaped
        <3>2. CASE k \in told /\ Invalidates(call)
            <4>1. cache'[k] = Invalidated(told)[k]
                BY <1>2, <2>2, <3>2
            <4>2. \/ AskedEntry(k, cache[k], cache'[k])
                  \/ MarksIt(k, cache[k], cache'[k])
                BY <3>2, <4>1, InvalidatedMoves
            <4>3. EntryShape(cache'[k])
                BY <4>1, InvalidatedMoves
            <4>4. MarksIt(k, cache[k], cache'[k]) => MarkedEntry(k, cache[k], cache'[k])
                BY <2>2 DEF MarksIt, MarkedEntry
            <4> QED BY <4>2, <4>3, <4>4 DEF EntryMove
        <3> QED BY <3>1, <3>2
    <2>5. \A k \in DOMAIN cache : Before(k) = cache[k]
        BY DEF Before
    <2>6. DOMAIN cache' = DOMAIN cache
        BY <1>2, <2>2
    <2>7. View
        BY <2>2, <2>4, <2>5, <2>6 DEF View, Shaped, ActiveThere, Base
    <2> QED BY <1>1, <2>7 DEF ShowOver, after
<1> HIDE DEF fetched, u
<1>4. CallsKeep
    <2>1. \A d \in Calls : calls'[d] \in {None, [calls[d] EXCEPT !.mine = @ /\ ~Leaves(call)]}
                           /\ (calls[d] = None => calls'[d] = None)
        BY DEF LandCall
    <2>2. DOMAIN calls' = Calls
        BY DEF LandCall
    <2>3. ASSUME NEW d \in Calls, calls[d] # None, NEW b
          PROVE  LET e == [calls[d] EXCEPT !.mine = b]
                 IN  /\ DOMAIN e = CallFields /\ e.op = calls[d].op /\ e.at = calls[d].at
                     /\ e.arg = calls[d].arg /\ e.answer = calls[d].answer
                     /\ e.session = calls[d].session /\ e.mine = b
        BY <2>3 DEF CallFields, CallsShape, Base, Shape
    <2>4. ASSUME NEW d \in Calls, calls'[d] # None PROVE Continues(d)
        <3> DEFINE b == calls[d].mine /\ ~Leaves(call)
        <3>1. calls[d] # None /\ calls'[d] = [calls[d] EXCEPT !.mine = b]
            BY <2>1, <2>4
        <3>2. b => calls[d].mine
            OBVIOUS
        <3> HIDE DEF b
        <3> QED BY <3>1, <3>2, <2>3 DEF Continues
    <2> QED BY <2>2, <2>4 DEF CallsKeep
<1>5. CallsShape' /\ AsksLess
    BY <1>4, SameCallsLess
<1>6. UNCHANGED <<srv, doubled, backend>>
    BY DEF LandCall
<1>7. UiShape
    BY DEF Base, Shape
<1>8. CASE Announces(call) /\ call.op = "rotate" /\ ~Leaves(call)
    <2>1. ui' = [ui EXCEPT !.rotated = call.value]
        BY <1>3, <1>8 DEF Announced
    <2>2. UiShape' /\ ui'.rotated = call.value
        BY <2>1, <1>7 DEF UiShape, UiFields
    <2>3. crossed' = (crossed \/ ui'.rotated # srv.hmac.current)
        <3>1. crossed' = (crossed \/ call.value # srv.hmac.current)
            BY <1>8, Zenon DEF LandCall
        <3> QED BY <3>1, <2>2
    <2> QED BY <1>3, <1>5, <1>6, <2>2, <2>3, ViewLooks DEF Move, SaysRotated, View, Base, Shape
<1>9. CASE ~(Announces(call) /\ call.op = "rotate")
    <2>1. crossed' = crossed
        BY <1>9, Flags DEF LandCall
    <2>2. UiKeep
        <3>1. CASE Leaves(call)
            BY <1>3, <3>1, FreshKeeps
        <3>2. CASE ~Leaves(call) /\ ~Announces(call)
            BY <1>3, <1>7, <3>2, SameUi
        <3>3. CASE ~Leaves(call) /\ Announces(call)
            <4>1. call.op # "rotate" /\ ui' = Announced(call)
                BY <1>3, <1>9, <3>3
            <4>2. \/ ui' = ui
                  \/ \E r : ui' = [ui EXCEPT !.resets = r]
                  \/ \E r : ui' = [ui EXCEPT !.create = r]
                  \/ ui' = [ui EXCEPT !.rotated = 0]
                  \/ \E r : ui' = [ui EXCEPT !.created = r]
                BY <4>1 DEF Announced
            <4> QED BY <4>2, <1>7 DEF UiKeep, UiShape, UiFields
        <3> QED BY <3>1, <3>2, <3>3
    <2>3. Rest
        BY <1>6, <2>1, SameSrv
    <2> QED BY <1>3, <1>5, <2>2, <2>3, QuietStep DEF Move
<1>10. Announces(call) /\ call.op = "rotate" => ~Leaves(call)
    BY DEF Announces, Leaves
<1> QED BY <1>8, <1>9, <1>10

\* The server does one of these moves.
LEMMA ServerMoves == Base /\ Server => Base' /\ View /\ Move
<1> SUFFICES ASSUME Base, Server PROVE Base' /\ View /\ Move
    OBVIOUS
<1> USE DEF BrowserRest, gateVars, viewVars, serverVars, planeVars
<1>1. srv \in PlaneType
    BY DEF Base, Shape
<1>2. ASSUME NEW c \in Calls, \E a, v, w : Answers(c, a) /\ Reply(c, a, v, w),
             UNCHANGED <<backend, doubled, crossed, ui, cache, own, user, page, srv>>
      PROVE  Base' /\ View /\ Move
    BY <1>1, <1>2, RepliesQuietly DEF Move
<1>3. ASSUME NEW c \in Calls, LoseCall(c) PROVE Base' /\ View /\ Move
    <2>1. UNCHANGED <<backend, doubled, crossed, ui, cache, own, user, page, srv>>
        BY <1>3 DEF LoseCall
    <2>2. CallsKeep
        <3>1. calls' = [calls EXCEPT ![c].answer = "failed"] /\ calls[c] # None
            BY <1>3 DEF LoseCall
        <3> QED BY <3>1 DEF CallsKeep, Continues, CallsShape, CallFields, Base, Shape
    <2> QED BY <2>1, <2>2, Stays, SameUiKeep, SameSrv, SameCallsLess, QuietStep
            DEF SamePage, Move
<1>4. ASSUME NEW c \in Calls,
             \/ TurnAway(c) \/ ServeUpdate(c) \/ AnswerUpdate(c) \/ ServeCreateUser(c)
             \/ ServeReset(c) \/ LookForSnapshot(c) \/ ServeLogout(c)
      PROVE  Base' /\ View /\ Move
    <2>1. calls[c] # None
        BY <1>4 DEF TurnAway, ServeUpdate, AnswerUpdate, ServeCreateUser, ServeReset,
                    LookForSnapshot, ServeLogout, Arrived
    <2>2. \E a, v, w : Answers(c, a) /\ Reply(c, a, v, w)
        <3>1. CASE TurnAway(c)
            BY <2>1, <3>1 DEF TurnAway, Answers
        <3>2. CASE ServeUpdate(c) \/ AnswerUpdate(c)
            BY <2>1, <3>2 DEF ServeUpdate, AnswerUpdate, Answers
        <3>3. CASE ServeCreateUser(c) \/ ServeReset(c) \/ ServeLogout(c)
            BY <2>1, <3>3 DEF ServeCreateUser, ServeReset, ServeLogout, Answers
        <3>4. CASE LookForSnapshot(c)
            BY <2>1, <3>4 DEF LookForSnapshot, Arrived, Answers
        <3> QED BY <1>4, <3>1, <3>2, <3>3, <3>4
    <2>3. UNCHANGED <<backend, doubled, crossed, ui, cache, own, user, page, srv>>
        BY <1>4 DEF TurnAway, ServeUpdate, AnswerUpdate, ServeCreateUser, ServeReset,
                    LookForSnapshot, ServeLogout
    <2> QED BY <1>2, <2>2, <2>3
<1>5. ASSUME NEW c \in Calls, TakeLock(c) \/ CheckGuard(c) \/ CommitUpdate(c) \/ AbortUpdate(c)
      PROVE  Base' /\ View /\ Move
    <2>1. UNCHANGED <<backend, doubled, crossed, ui, cache, own, user, page, srv, calls>>
        BY <1>5 DEF TakeLock, CheckGuard, CommitUpdate, AbortUpdate
    <2> QED BY <2>1, Stays, SameUiKeep, SameSrv, NoCalls, QuietStep DEF SamePage, Move
<1>6. ASSUME NEW c \in Calls, InsertSnapshot(c) PROVE Base' /\ View /\ Move
    <2>1. calls[c] # None /\ InsertBroadcast(calls[c].at)
        BY <1>6 DEF InsertSnapshot
    <2>2. calls[c].op = "compose" /\ calls[c].at \in BroadcastKeys
        BY <1>6 DEF InsertSnapshot, Base, Shape, CallsShape
    <2>3. srv' \in PlaneType /\ srv'.hmac = srv.hmac
        BY <1>1, <2>1, <2>2, Inserting
    <2>4. UNCHANGED <<backend, doubled, crossed, ui, cache, own, user, page>>
        BY <1>6 DEF InsertSnapshot
    <2>5. \E a, v, w : Answers(c, a) /\ Reply(c, a, v, w)
        BY <1>6, <2>1 DEF InsertSnapshot, Answers
    <2> QED BY <2>1, <2>3, <2>4, <2>5, RepliesQuietly DEF Move
<1> QED BY <1>3, <1>4, <1>5, <1>6, ServingPlane, LandingCall DEF Server

\* So does every step of the console.
LEMMA NextMoves == Base /\ [Next]_vars => Base' /\ View /\ Move
<1> SUFFICES ASSUME Base, [Next]_vars PROVE Base' /\ View /\ Move
    OBVIOUS
<1>1. CASE UNCHANGED vars
    <2>1. UNCHANGED <<srv, backend, doubled, crossed, ui, cache, own, user, page, calls>>
        BY <1>1 DEF vars, serverVars, planeVars, gateVars, viewVars, mineVars
    <2> QED BY <2>1, Stays, SameUiKeep, SameSrv, NoCalls, QuietStep DEF SamePage, Move
<1> QED BY <1>1, QuietCache, ServerMoves, GateMoves, UserAdminMoves, PlaneMoves,
           BrowseMoves, ElsewhereMoves DEF Next, Move

\* In the beginning everything has its shape.
LEMMA InitBase == Init => Base
<1> SUFFICES ASSUME Init PROVE Base
    OBVIOUS
<1>1. srv \in PlaneType
    <2>1. <<>> \in Seq(BroadcastKeys)
        OBVIOUS
    <2>2. [n \in 1..MaxKeys |-> IF n = 1 THEN "active" ELSE "none"]
              \in [1..MaxKeys -> {"none", "active", "revoked"}]
        OBVIOUS
    <2>3. [current |-> 1, previous |-> 0, made |-> 1]
              \in [current : Nat, previous : Nat, made : Nat]
        OBVIOUS
    <2> QED BY <2>1, <2>2, <2>3 DEF Init, PlaneType
<1>2. UiShape /\ CallsShape
    BY FreshShape DEF Init, UiShape, CallsShape, BroadcastKeys
<1>3. Shaped(cache) /\ ActiveThere
    BY DEF Init, NoCache, Shaped, ActiveThere, Active, ActiveOf
<1> QED BY <1>1, <1>2, <1>3 DEF Base, Shape, Init

----------------------------------------------------------------------------
(* The backend keeps working. *)

\* The page shows, and the backend signs with, the current secret.
AllCurrent ==
    /\ backend = srv.hmac.current
    /\ ui.rotated \in {0, srv.hmac.current}
    /\ Drawn(cache) \in {0, srv.hmac.current}
    /\ Coming(cache) \in {0, srv.hmac.current}

\* With one rotation at a time, secrets are numbered in their order, and whatever
\* is shown is in one of the slots; a banner with the previous one is what the
\* backend has; and a completion under way that names the current one was asked
\* for when nothing else was shown or installed.
SecretsInOrder ==
    LET cur == srv.hmac.current
        prev == srv.hmac.previous
    IN  /\ srv.hmac.made = cur /\ cur > 0 /\ prev \in {0, cur - 1}
        /\ backend \in {cur, prev} \ {0}
        /\ ui.rotated \in {0, cur, prev} /\ (ui.rotated \notin {0, cur} => backend = ui.rotated)
        /\ Drawn(cache) \in {0, cur, prev} /\ Coming(cache) \in {0, cur, prev}
        /\ Coming(cache) = 0 \/ Coming(cache) >= Drawn(cache)
        /\ \A a \in Asking(calls) : a \in 1..cur /\ (a = cur => AllCurrent)

\* This holds until two rotations ran at once or one was not shown.
HmacInv == doubled \/ crossed \/ SecretsInOrder

\* Every move keeps the secrets in order.
LEMMA StepHmac == Base /\ HmacInv /\ [Next]_vars => HmacInv'
<1> SUFFICES ASSUME Base, HmacInv, [Next]_vars, ~doubled', ~crossed' PROVE SecretsInOrder'
    BY DEF HmacInv
<1>1. Move /\ Base'
    BY NextMoves
<1>2. srv.hmac \in [current : Nat, previous : Nat, made : Nat]
    BY DEF Base, Shape, PlaneType
<1>3. doubled \in BOOLEAN /\ crossed \in BOOLEAN
    BY Flags
<1> DEFINE cur == srv.hmac.current
           prev == srv.hmac.previous
<1>4. ~doubled /\ ~crossed
    BY <1>1, <1>3 DEF Move, Quietly, Rotates, Completes, SaysRotated, AsksCompletion, Installs
<1>5. SecretsInOrder
    BY <1>4 DEF HmacInv
<1>6. prev = 0 => AllCurrent
    BY <1>2, <1>5 DEF SecretsInOrder, AllCurrent
<1>7. CASE Quietly
    BY <1>2, <1>5, <1>7 DEF SecretsInOrder, AllCurrent, Quietly, Looks, AsksLess
<1>8. CASE Rotates
    <2>1. prev = 0 /\ AllCurrent
        BY <1>6, <1>8 DEF Rotates
    <2> QED BY <1>2, <1>5, <1>8, <2>1 DEF SecretsInOrder, AllCurrent, Rotates, Rotate, AsksLess
<1>9. CASE Completes
    <2>1. AllCurrent
        BY <1>5, <1>9 DEF Completes, SecretsInOrder
    <2> QED BY <1>2, <1>5, <1>9, <2>1 DEF SecretsInOrder, AllCurrent, Completes, AsksLess
<1>10. CASE SaysRotated
    <2>1. ui'.rotated = cur /\ UNCHANGED backend /\ srv'.hmac = srv.hmac /\ Looks /\ AsksLess
        BY <1>10 DEF SaysRotated
    <2>2. AllCurrent => AllCurrent'
        BY <1>2, <1>5, <2>1 DEF SecretsInOrder, AllCurrent, Looks
    <2> QED BY <1>2, <1>5, <2>1, <2>2 DEF SecretsInOrder, AllCurrent, Looks, AsksLess
<1>11. CASE AsksCompletion
    BY <1>2, <1>5, <1>11 DEF SecretsInOrder, AllCurrent, AsksCompletion
<1>12. CASE Installs
    <2>1. UNCHANGED <<srv, ui, cache, calls>>
        BY <1>12 DEF Installs
    <2>2. /\ backend' \in {cur, prev} \ {0}
          /\ ui.rotated \notin {0, cur} => backend' = ui.rotated
          /\ AllCurrent => backend' = cur
        BY <1>2, <1>5, <1>12 DEF SecretsInOrder, AllCurrent, Installs
    <2>3. AllCurrent => AllCurrent'
        BY <2>1, <2>2 DEF AllCurrent
    <2> QED BY <1>2, <1>5, <2>1, <2>2, <2>3 DEF SecretsInOrder
<1> QED BY <1>1, <1>7, <1>8, <1>9, <1>10, <1>11, <1>12 DEF Move

\* In the beginning the backend signs with the first secret.
LEMMA InitHmac == Init => HmacInv
<1> SUFFICES ASSUME Init PROVE SecretsInOrder
    BY DEF HmacInv
<1>1. srv.hmac.current = 1 /\ srv.hmac.previous = 0 /\ srv.hmac.made = 1 /\ backend = 1
    BY DEF Init
<1>2. Drawn(cache) = 0 /\ Coming(cache) = 0 /\ ui.rotated = 0
    BY FreshShape DEF Init, NoCache, Drawn, Coming
<1>3. Asking(calls) = {}
    BY DEF Init, Asking
<1> QED BY <1>1, <1>2, <1>3 DEF SecretsInOrder

----------------------------------------------------------------------------
\* The server's plane is changed by the requests served and by the others only.
LEMMA PlaneChanges ==
    [Next]_vars /\ srv' # srv =>
        \/ \E c \in Calls : ServePlane(c) \/ InsertSnapshot(c)
        \/ Elsewhere
<1> SUFFICES ASSUME [Next]_vars, srv' # srv,
                    ~Elsewhere, \A c \in Calls : ~ServePlane(c) /\ ~InsertSnapshot(c)
             PROVE  FALSE
    OBVIOUS
<1> USE DEF serverVars, planeVars
<1>1. ~Cache
    BY DEF Cache, ServeQuery, FailQuery, LandQuery, Expire
<1>2. ~Gate
    BY DEF Gate, LoadMe, Reload, SignIn, ServeLogin, LandLogin, SignOut
<1>3. ~UserAdmin
    <2>1. \A kind, op, at, arg : ~Click(kind, op, at, arg)
        BY DEF Click
    <2> QED BY <2>1 DEF UserAdmin, ChangeRole, ToggleDisabled, DeleteUser, OpenDialog,
                        CloseDialog, EditEmail, SubmitDialog
<1>4. ~Plane
    <2>1. \A kind, op, at, arg : ~Click(kind, op, at, arg)
        BY DEF Click
    <2> QED BY <2>1 DEF Plane, CreateEnvironment, CreateKey, CloseKey, RotateSecret,
                        CompleteRotation, Install, ReplayAll, Compose, RevokeKey, SwitchTab,
                        ReplayOne, TypeKey
<1>5. ~Browse
    <2>1. \A x : ~Turn(x)
        BY DEF Turn
    <2> QED BY <2>1 DEF Browse, ApplyFilter, ResetFilter, LoadMore, CloseTimeline, Reconnect,
                        EditFilter, OpenTimeline, LookUp, Go
<1>6. ~Server
    BY DEF Server, TurnAway, LoseCall, LandCall, ServeUpdate, AnswerUpdate, ServeCreateUser,
           ServeReset, TakeLock, CheckGuard, CommitUpdate, AbortUpdate, LookForSnapshot,
           ServeLogout
<1>7. ~UNCHANGED vars
    BY DEF vars
<1> QED BY <1>1, <1>2, <1>3, <1>4, <1>5, <1>6, <1>7 DEF Next

\* A broadcast comes by its insertion, and one notification at a time.
LEMMA BroadcastChanges ==
    Base /\ [Next]_vars =>
        /\ srv'.broadcasts = srv.broadcasts \/ \E key \in BroadcastKeys : InsertBroadcast(key)
        /\ srv'.rows = srv.rows \/ \E n \in Rows : srv'.rows = srv.rows \cup {n}
<1> DEFINE Keep == srv'.broadcasts = srv.broadcasts /\ srv'.rows = srv.rows
           Insert == (\E key \in BroadcastKeys : InsertBroadcast(key)) /\ srv'.rows = srv.rows
           Grow == /\ srv'.broadcasts = srv.broadcasts
                   /\ \E n \in Rows : srv'.rows = srv.rows \cup {n}
<1> SUFFICES ASSUME Base, [Next]_vars, srv' # srv PROVE Keep \/ Insert \/ Grow
    OBVIOUS
<1>1. srv \in PlaneType
    BY DEF Base, Shape
<1>2. ASSUME NEW c \in Calls, ServePlane(c) PROVE Keep
    <2>1. srv' = Applied(calls[c]) /\ calls[c].op \in PlaneOps
        BY <1>2 DEF ServePlane, Arrived
    <2> QED BY <1>1, <2>1 DEF Applied, PlaneOps, PlaneType
<1>3. ASSUME NEW key \in BroadcastKeys, InsertBroadcast(key) PROVE Insert
    BY <1>1, <1>3 DEF InsertBroadcast, PlaneType
<1>4. ASSUME NEW c \in Calls, InsertSnapshot(c) PROVE Insert
    BY <1>3, <1>4 DEF InsertSnapshot, Base, Shape, CallsShape
<1>5. CASE Elsewhere
    <2>1. CASE OtherComposes("k")
        BY <1>3, <2>1 DEF OtherComposes, BroadcastKeys
    <2>2. CASE OtherRotates
        BY <1>1, <2>2 DEF OtherRotates, PlaneType
    <2>3. ASSUME NEW n \in Rows, NotificationArrives(n) PROVE Grow
        BY <1>1, <2>3 DEF NotificationArrives, PlaneType
    <2>4. ASSUME NEW n, OtherRevokes(n) PROVE Keep
        BY <1>1, <2>4 DEF OtherRevokes, PlaneType
    <2>5. ASSUME NEW l, JobIsParked(l) PROVE Keep
        BY <1>1, <2>5 DEF JobIsParked, PlaneType
    <2>6. \/ OtherComposes("k") \/ OtherRotates \/ \E n \in Rows : NotificationArrives(n)
          \/ \E n : OtherRevokes(n) \/ JobIsParked(n)
        BY <1>5 DEF Elsewhere, OtherIsAnswered, OtherUpdates, OtherSetsPassword, SessionEnds,
                    OtherSignsIn, planeVars
    <2> QED BY <2>1, <2>2, <2>3, <2>4, <2>5, <2>6
<1> QED BY <1>2, <1>4, <1>5, PlaneChanges

\* An idempotency key makes one broadcast.
LEMMA StepBroadcasts ==
    Base /\ OneBroadcastPerKey /\ [Next]_vars => OneBroadcastPerKey'
<1> SUFFICES ASSUME Base, OneBroadcastPerKey, [Next]_vars PROVE OneBroadcastPerKey'
    OBVIOUS
<1>1. CASE srv'.broadcasts = srv.broadcasts
    BY <1>1 DEF OneBroadcastPerKey
<1>2. ASSUME NEW key \in BroadcastKeys, InsertBroadcast(key) PROVE OneBroadcastPerKey'
    <2>1. CASE srv' = srv
        BY <1>1, <2>1
    <2>2. CASE srv' # srv
        <3> DEFINE b == srv.broadcasts
        <3>1. srv \in PlaneType /\ b \in Seq(BroadcastKeys)
            BY DEF Base, Shape, PlaneType
        <3>2. Composed(key) = {} /\ srv'.broadcasts = Append(b, key)
            BY <1>2, <2>2, <3>1 DEF InsertBroadcast, PlaneType
        <3>3. \A n \in DOMAIN b : key # "" => b[n] # key
            BY <3>2 DEF Composed
        <3>4. /\ DOMAIN Append(b, key) = DOMAIN b \cup {Len(b) + 1}
              /\ Append(b, key)[Len(b) + 1] = key
              /\ \A n \in DOMAIN b : Append(b, key)[n] = b[n]
            BY <3>1
        <3>5. \A m, n \in DOMAIN b : b[m] = b[n] /\ b[m] # "" => m = n
            BY DEF OneBroadcastPerKey
        <3>6. Len(b) + 1 \notin DOMAIN b
            BY <3>1
        <3> DEFINE d == Append(b, key)
                   last == Len(b) + 1
        <3> HIDE DEF b, d, last
        <3>7. ASSUME NEW m \in DOMAIN d, NEW n \in DOMAIN d, d[m] = d[n], d[m] # ""
              PROVE  m = n
            <4>1. DOMAIN d = DOMAIN b \cup {last} /\ d[last] = key
                  /\ \A i \in DOMAIN b : d[i] = b[i]
                BY <3>4 DEF d, last
            <4> QED BY <3>3, <3>5, <3>7, <4>1
        <3> QED BY <3>2, <3>7 DEF OneBroadcastPerKey, d, b
    <2> QED BY <2>1, <2>2
<1> QED BY <1>1, <1>2, BroadcastChanges

\* Whatever is retried, sent twice or done in the wrong order, and whatever another
\* admin does meanwhile, the backend signs with a secret that is accepted and an
\* idempotency key makes one broadcast (rotate_hmac, complete_hmac_rotation,
\* create_broadcast_idempotent; HmacTab, broadcasts.tsx).
THEOREM RetriesSafe == Spec => []RetriesAreSafe
<1>1. Init => Base /\ HmacInv /\ OneBroadcastPerKey
    <2>1. Init => srv.broadcasts = <<>>
        BY DEF Init
    <2>2. ASSUME srv.broadcasts = <<>> PROVE OneBroadcastPerKey
        <3>1. <<>> \in Seq(BroadcastKeys) /\ Len(<<>>) = 0
            OBVIOUS
        <3>2. DOMAIN srv.broadcasts = {}
            BY <2>2, <3>1
        <3> QED BY <3>2 DEF OneBroadcastPerKey
    <2> QED BY <2>1, <2>2, InitBase, InitHmac
<1>2. Base /\ HmacInv /\ OneBroadcastPerKey /\ [Next]_vars
          => (Base /\ HmacInv /\ OneBroadcastPerKey)'
    BY NextMoves, StepHmac, StepBroadcasts
<1>3. Base /\ HmacInv /\ OneBroadcastPerKey => RetriesAreSafe
    BY DEF HmacInv, SecretsInOrder, RetriesAreSafe, BackendKeepsWorking
<1> QED BY <1>1, <1>2, <1>3, PTL DEF Spec

----------------------------------------------------------------------------
(* Types of what a request carries, of the dialogs and of the users table. *)

\* A dialog: open, with an email typed, the password drawn, done, and lapsed.
PasswordNumbers == 0..MaxPassword

DialogType ==
    [open : BOOLEAN, email : Emails \cup {None}, password : PasswordNumbers, done : BOOLEAN,
     lapsed : BOOLEAN]

DialogsTyped == ui.create \in DialogType /\ ui.resets \in [People -> DialogType]

\* What a request may ask for.
MayAsk(op, at, arg) ==
    /\ op \in PageOps \cup {"logout"}
    /\ op \in Ops => at \in People /\ arg \in Roles
    /\ op = "create" => at \in Emails /\ arg[1] \in Roles /\ arg[2] \in PasswordNumbers
    /\ op = "reset" => at \in People /\ arg[2] \in PasswordNumbers

\* An answer names no version that is not there, and no password that was not set.
Told(c) ==
    /\ calls[c].ver \in Nat /\ \A k \in Affects(calls[c].op) : calls[c].ver <= ver[k]
    /\ calls[c].answer = "ok" /\ calls[c].op \in {"create", "reset"} =>
           <<calls[c].at, calls[c].arg[2]>> \in accepted
    /\ calls[c].answer = "under way" => calls[c].op \in Ops

\* Every request was one the pages make, and its answer is true.
CallsTyped ==
    \A c \in Calls : calls[c] # None =>
        /\ MayAsk(calls[c].op, calls[c].at, calls[c].arg)
        /\ calls[c].session \in Sessions \cup {None}
        /\ Told(c)

\* The users table: people and their roles.
Table(data) == DOMAIN data \subseteq People /\ \A p \in DOMAIN data : data[p][1] \in Roles

TableTyped ==
    Users \in DOMAIN cache =>
        /\ cache[Users].data # None => Table(cache[Users].data)
        /\ cache[Users].fetch.answer = "ok" => Table(cache[Users].fetch.data)

\* A browser has a session cookie or none, and signs in for a session.
GateTyped ==
    /\ cookie \in Sessions \cup {None}
    /\ signing # None => /\ DOMAIN signing = {"session", "who", "role", "answer"}
                         /\ signing.session \in Sessions

\* Versions and passwords are numbers.
Counted == ver \in [Versioned -> Nat] /\ own \in [Versioned -> Nat] /\ drawn \in PasswordNumbers

Types == DialogsTyped /\ CallsTyped /\ TableTyped /\ GateTyped /\ Counted /\ RosterTypeOK

Good == Base /\ Types

----------------------------------------------------------------------------
\* Versions only grow, and a password that was set stays one that was set.
Grown ==
    /\ ver' \in [Versioned -> Nat] /\ \A k \in Versioned : ver[k] <= ver'[k]
    /\ accepted \subseteq accepted'

\* A versioned key is one of four, which are distinct.
LEMMA KeysDiffer ==
    /\ Envs # Detail /\ Envs # Keys /\ Envs # Dlq /\ Envs # Users
    /\ Detail # Keys /\ Detail # Dlq /\ Detail # Users
    /\ Keys # Dlq /\ Keys # Users /\ Dlq # Users
BY DEF Envs, Detail, Keys, Dlq, Users

\* Counters left alone have grown.
LEMMA SameGrown == Counted /\ UNCHANGED <<ver, accepted>> => Grown
BY DEF Counted, Grown

\* What an operation counts has grown, and nothing shrinks.
LEMMA BumpGrown ==
    \A k \in Versioned : Counted /\ Bump(k) /\ accepted \subseteq accepted' =>
        Grown /\ ver'[k] = ver[k] + 1
BY DEF Counted, Grown, Bump

\* An operation is counted at one query at most.
LEMMA AffectsOne == \A op : Affects(op) \subseteq Versioned /\ \A j, k \in Affects(op) : j = k
BY DEF Affects, Versioned

\* What was told stays true.
LEMMA StaysTold ==
    \A c \in Calls : /\ calls[c] # None /\ Told(c) /\ Counted /\ Grown
                     /\ Continues(c) /\ calls'[c].ver = calls[c].ver
                     /\ calls'[c].answer \in {calls[c].answer, "failed"}
        => Told(c)'
<1> TAKE c \in Calls
<1> HAVE /\ calls[c] # None /\ Told(c) /\ Counted /\ Grown
         /\ Continues(c) /\ calls'[c].ver = calls[c].ver
         /\ calls'[c].answer \in {calls[c].answer, "failed"}
<1>1. \A k \in Affects(calls[c].op) : ver[k] \in Nat /\ ver'[k] \in Nat /\ ver[k] <= ver'[k]
    BY AffectsOne DEF Counted, Grown
<1>2. ASSUME NEW k \in Affects(calls[c].op) PROVE calls[c].ver <= ver'[k]
    <2>1. calls[c].ver \in Nat /\ calls[c].ver <= ver[k]
        BY DEF Told
    <2> QED BY <1>1, <2>1
<1> QED BY <1>2 DEF Told, Continues, Grown

\* Nothing is answered, or nothing but that it failed.
KeptWords ==
    \A c \in Calls : calls'[c] # None =>
        /\ Continues(c) /\ calls'[c].ver = calls[c].ver
        /\ calls'[c].answer \in {calls[c].answer, "failed"}

\* Requests that go on with their words keep their types.
LEMMA KeptTyped == Good /\ Grown /\ KeptWords => CallsTyped'
<1> SUFFICES ASSUME Good, Grown, KeptWords, NEW c \in Calls, calls'[c] # None
             PROVE  /\ MayAsk(calls'[c].op, calls'[c].at, calls'[c].arg)
                    /\ calls'[c].session \in Sessions \cup {None}
                    /\ Told(c)'
    BY DEF CallsTyped
<1>1. Continues(c) /\ calls[c] # None
    BY DEF KeptWords, Continues
<1>2. MayAsk(calls[c].op, calls[c].at, calls[c].arg) /\ Told(c)
          /\ calls[c].session \in Sessions \cup {None}
    BY <1>1 DEF Good, Types, CallsTyped
<1>3. Told(c)'
    BY <1>1, <1>2, StaysTold DEF KeptWords, Good, Types
<1> QED BY <1>1, <1>2, <1>3 DEF Continues

\* Requests left alone keep their words.
LEMMA SameWords == Good /\ UNCHANGED calls => KeptWords
BY DEF KeptWords, Continues, Good, Base, Shape, CallsShape

\* Requests a page leaves behind keep their words.
LEMMA UnmountWords == \A ops : Good /\ Unmount(ops) => KeptWords
<1> TAKE ops
<1> HAVE Good /\ Unmount(ops)
<1>1. CallsShape
    BY DEF Good, Base, Shape
<1>2. CallsKeep
    BY <1>1, Unmounted
<1>3. ASSUME NEW c \in Calls, calls'[c] # None
      PROVE  calls'[c].ver = calls[c].ver /\ calls'[c].answer = calls[c].answer
    <2>1. calls'[c] \in {[calls[c] EXCEPT !.mine = FALSE], calls[c]} /\ calls[c] # None
        BY <1>3 DEF Unmount
    <2> QED BY <1>1, <2>1 DEF CallsShape, CallFields
<1> QED BY <1>2, <1>3 DEF KeptWords, CallsKeep

\* When an answer lands the other requests keep their words.
LEMMA LandedWords == \A c \in Calls : Good /\ LandCall(c) => KeptWords
<1> TAKE c \in Calls
<1> HAVE Good /\ LandCall(c)
<1>1. CallsShape
    BY DEF Good, Base, Shape
<1> DEFINE stays == ~Leaves(calls[c])
<1>2. calls' = [d \in Calls |-> IF d = c \/ calls[d] = None THEN None
                              ELSE [calls[d] EXCEPT !.mine = @ /\ stays]]
    BY DEF LandCall
<1> HIDE DEF stays
<1>3. ASSUME NEW d \in Calls, calls'[d] # None
      PROVE  Continues(d) /\ calls'[d].ver = calls[d].ver /\ calls'[d].answer = calls[d].answer
    <2> DEFINE b == calls[d].mine /\ stays
    <2>1. calls[d] # None /\ calls'[d] = [calls[d] EXCEPT !.mine = b]
        BY <1>2, <1>3
    <2>2. b => calls[d].mine
        OBVIOUS
    <2> HIDE DEF b
    <2> QED BY <1>1, <2>1, <2>2 DEF Continues, CallsShape, CallFields
<1> QED BY <1>3 DEF KeptWords

\* When a request is lost the others keep their words.
LEMMA LostWords == \A c \in Calls : Good /\ LoseCall(c) => KeptWords
<1> TAKE c \in Calls
<1> HAVE Good /\ LoseCall(c)
<1>1. calls' = [calls EXCEPT ![c].answer = "failed"] /\ calls[c] # None
    BY DEF LoseCall
<1> QED BY <1>1 DEF KeptWords, Continues, CallsShape, CallFields, Good, Base, Shape

\* The server answers a request.
LEMMA RepliedTyped ==
    \A c \in Calls : \A a, v, w :
        /\ Good /\ Grown /\ Answers(c, a) /\ Reply(c, a, v, w)
        /\ w \in Nat /\ \A k \in Affects(calls[c].op) : w <= ver'[k]
        /\ a = "ok" /\ calls[c].op \in {"create", "reset"} =>
               <<calls[c].at, calls[c].arg[2]>> \in accepted'
        /\ a = "under way" => calls[c].op \in Ops
        => CallsTyped'
<1> TAKE c \in Calls
<1> TAKE a, v, w
<1> HAVE /\ Good /\ Grown /\ Answers(c, a) /\ Reply(c, a, v, w)
         /\ w \in Nat /\ \A k \in Affects(calls[c].op) : w <= ver'[k]
         /\ a = "ok" /\ calls[c].op \in {"create", "reset"} =>
                <<calls[c].at, calls[c].arg[2]>> \in accepted'
         /\ a = "under way" => calls[c].op \in Ops
<1>1. CallsShape
    BY DEF Good, Base, Shape
<1>2. CallsKeep
    BY <1>1, Replied
<1>3. calls'[c].ver = w /\ calls'[c].answer = a /\ calls[c] # None
    BY <1>1 DEF Reply, CallsShape, CallFields, Answers
<1>4. ASSUME NEW d \in Calls, calls'[d] # None
      PROVE  /\ MayAsk(calls'[d].op, calls'[d].at, calls'[d].arg)
             /\ calls'[d].session \in Sessions \cup {None}
             /\ Told(d)'
    <2>1. Continues(d) /\ calls[d] # None
        BY <1>2, <1>4 DEF CallsKeep, Continues
    <2>2. MayAsk(calls[d].op, calls[d].at, calls[d].arg) /\ Told(d)
              /\ calls[d].session \in Sessions \cup {None}
        BY <2>1 DEF Good, Types, CallsTyped
    <2>3. CASE d # c
        <3>1. calls'[d] = calls[d]
            BY <2>3, <1>1 DEF Reply, CallsShape
        <3>2. Told(d)'
            BY <2>1, <2>2, <3>1, StaysTold DEF Good, Types
        <3> QED BY <2>1, <2>2, <3>2 DEF Continues
    <2>4. CASE d = c
        BY <1>3, <2>1, <2>2, <2>4 DEF Told, Continues
    <2> QED BY <2>3, <2>4
<1> QED BY <1>4 DEF CallsTyped

\* A request that may be asked is sent with its types.
LEMMA SentTyped ==
    \A op, at, arg : Good /\ Grown /\ Send(op, at, arg) /\ MayAsk(op, at, arg) => CallsTyped'
<1> TAKE op, at, arg
<1> HAVE Good /\ Grown /\ Send(op, at, arg) /\ MayAsk(op, at, arg)
<1> DEFINE call == [op |-> op, at |-> at, arg |-> arg, session |-> cookie, mine |-> TRUE,
                    answer |-> "sent", value |-> 0, ver |-> 0]
<1>1. PICK c : calls' = [calls EXCEPT ![c] = call]
    BY DEF Send
<1>2. ASSUME NEW d \in Calls, calls'[d] # None
      PROVE  /\ MayAsk(calls'[d].op, calls'[d].at, calls'[d].arg)
             /\ calls'[d].session \in Sessions \cup {None}
             /\ Told(d)'
    <2>1. CASE d # c
        <3>1. calls'[d] = calls[d]
            BY <1>1, <2>1 DEF Good, Base, Shape, CallsShape
        <3>2. MayAsk(calls[d].op, calls[d].at, calls[d].arg) /\ Told(d)
                  /\ calls[d].session \in Sessions \cup {None}
            BY <1>2, <3>1 DEF Good, Types, CallsTyped
        <3>3. Continues(d)
            BY <1>2, <3>1 DEF Continues, Good, Base, Shape, CallsShape
        <3>4. Told(d)'
            BY <1>2, <3>1, <3>2, <3>3, StaysTold DEF Good, Types
        <3> QED BY <3>1, <3>2, <3>4
    <2>2. CASE d = c
        <3>1. calls'[d] = call
            BY <1>1, <2>2 DEF Good, Base, Shape, CallsShape
        <3>2. cookie \in Sessions \cup {None}
            BY DEF Good, Types, GateTyped
        <3>3. \A k \in Affects(op) : 0 <= ver'[k]
            BY AffectsOne DEF Grown
        <3> QED BY <3>1, <3>2, <3>3 DEF Told
    <2> QED BY <2>1, <2>2
<1> QED BY <1>2 DEF CallsTyped
----------------------------------------------------------------------------
\* What I was told of a version.
OwnMove ==
    /\ own' \in [Versioned -> Nat]
    /\ \A k \in Versioned : own[k] <= ver[k] => own'[k] <= ver[k]

\* An account left alone moves as it may.
LEMMA SameOwn == Good /\ UNCHANGED own => OwnMove
BY DEF Good, Types, Counted, OwnMove

\* The requests, versions and what was told, after a step.
Accounts == CallsTyped' /\ Grown /\ OwnMove

\* A step that tells the user nothing keeps the accounts.
LEMMA QuietAccounts ==
    Good /\ UNCHANGED <<ver, accepted, own>> /\ KeptWords => Accounts
BY KeptTyped, SameGrown, SameOwn DEF Accounts, Good, Types

\* Sending a request that may be asked keeps the accounts.
LEMMA SentAccounts ==
    \A op, at, arg : /\ Good /\ UNCHANGED <<ver, accepted, own>>
                     /\ Send(op, at, arg) /\ MayAsk(op, at, arg)
        => Accounts
BY SentTyped, SameGrown, SameOwn DEF Accounts, Good, Types

\* The larger of two numbers is one of them.
LEMMA MaxOfTwo == \A a, b \in Nat : Max({a, b}) \in Nat /\ Max({a, b}) \in {a, b}
<1> TAKE a, b \in Nat
<1>1. \E x \in {a, b} : \A y \in {a, b} : x >= y
    <2>1. CASE a >= b
        BY <2>1
    <2>2. CASE b >= a
        BY <2>2
    <2> QED BY <2>1, <2>2
<1> QED BY <1>1 DEF Max

\* What react-query does keeps the accounts, or drops them with the cache.
LEMMA CacheAccounts == Good /\ Cache => Accounts
<1> SUFFICES ASSUME Good, Cache PROVE Accounts
    OBVIOUS
<1>1. UNCHANGED <<ver, accepted, own>>
    BY DEF Cache, ServeQuery, FailQuery, LandQuery, Expire, serverVars, planeVars, mineVars
<1>2. KeptWords
    <2>1. ASSUME NEW k \in DOMAIN cache, LandQuery(k) PROVE KeptWords
        BY <2>1, UnmountWords DEF LandQuery
    <2>2. ASSUME NEW k \in DOMAIN cache, ServeQuery(k) \/ FailQuery(k) \/ Expire(k)
          PROVE  KeptWords
        BY <2>2, SameWords DEF ServeQuery, FailQuery, Expire, mineVars
    <2> QED BY <2>1, <2>2 DEF Cache
<1> QED BY <1>1, <1>2, QuietAccounts

\* Loading, signing in and signing out keep the accounts.
LEMMA GateAccounts == Good /\ Gate => Accounts
<1> SUFFICES ASSUME Good, Gate PROVE Accounts
    OBVIOUS
<1> USE DEF serverVars, planeVars, mineVars
<1>1. UNCHANGED <<ver, accepted, own>>
    BY DEF Gate, LoadMe, Reload, LandLogin, SignOut, ServeLogin, SignIn
<1>2. CASE SignOut
    <2>1. MayAsk("logout", 0, 0)
        BY DEF MayAsk, Ops
    <2> QED BY <1>1, <1>2, <2>1, SentAccounts DEF SignOut
<1>3. CASE ~SignOut
    <2>1. UNCHANGED calls
        BY <1>3 DEF Gate, LoadMe, Reload, LandLogin, ServeLogin, SignIn
    <2> QED BY <1>1, <2>1, SameWords, QuietAccounts
<1> QED BY <1>2, <1>3

\* Paging, filtering and opening keep them.
LEMMA BrowseAccounts == Good /\ Browse => Accounts
<1> SUFFICES ASSUME Good, Browse PROVE Accounts
    OBVIOUS
<1> USE DEF serverVars, planeVars, mineVars
<1>1. ASSUME NEW pg \in Pages, Go(pg) PROVE Accounts
    BY <1>1, UnmountWords, QuietAccounts DEF Go
<1>2. CASE ~\E pg \in Pages : Go(pg)
    <2>1. UNCHANGED <<ver, accepted, own, calls>>
        <3>1. \A x : Turn(x) => UNCHANGED <<ver, accepted, own, calls>>
            BY DEF Turn
        <3>2. (\E x : Turn(x)) \/ Reconnect
            BY <1>2 DEF Browse, ApplyFilter, ResetFilter, LoadMore, CloseTimeline, EditFilter,
                        OpenTimeline, LookUp
        <3> QED BY <3>1, <3>2 DEF Reconnect
    <2> QED BY <2>1, SameWords, QuietAccounts
<1> QED BY <1>1, <1>2

\* A click that may be made keeps them.
LEMMA ClickAccounts ==
    \A kind, op, at, arg : Good /\ Click(kind, op, at, arg) /\ MayAsk(op, at, arg) => Accounts
<1> TAKE kind, op, at, arg
<1> HAVE Good /\ Click(kind, op, at, arg) /\ MayAsk(op, at, arg)
<1>1. Send(op, at, arg) /\ UNCHANGED <<ver, accepted, own>>
    BY DEF Click, serverVars, planeVars
<1> QED BY <1>1, SentAccounts

\* The clicks of the plane pages may be made.
LEMMA PlaneAccounts == Good /\ Plane => Accounts
<1> SUFFICES ASSUME Good, Plane PROVE Accounts
    OBVIOUS
<1> USE DEF serverVars, planeVars, mineVars
<1>1. \A op \in {"env", "key", "revoke", "rotate", "complete", "replay", "replay-all", "compose"} :
          \A at, arg : MayAsk(op, at, arg)
    BY DEF MayAsk, PageOps, Ops, HmacOps
<1>2. ASSUME \/ CreateEnvironment \/ CreateKey \/ RotateSecret \/ ReplayAll \/ Compose
             \/ CompleteRotation
             \/ \E n \in 1..MaxKeys : RevokeKey(n)
             \/ \E l \in Letters : ReplayOne(l)
      PROVE  Accounts
    BY <1>1, <1>2, ClickAccounts
       DEF CreateEnvironment, CreateKey, RotateSecret, ReplayAll, Compose, CompleteRotation,
           RevokeKey, ReplayOne
<1>3. ASSUME NEW tab \in {"keys", "hmac"}, SwitchTab(tab) PROVE Accounts
    BY <1>3, UnmountWords, QuietAccounts DEF SwitchTab
<1>4. ASSUME CloseKey \/ Install \/ \E key \in {"", "k"} : TypeKey(key) PROVE Accounts
    BY <1>4, SameWords, QuietAccounts DEF CloseKey, Install, TypeKey
<1> QED BY <1>2, <1>3, <1>4 DEF Plane

\* A row of the users table is a person, with a role.
LEMMA RowRole == \A p : Good /\ UserRow(p) => p \in People /\ RoleShown(p) \in Roles
BY DEF Good, Types, TableTyped, Table, UserRow, Shown, RoleShown, Base, ActiveThere

\* So may those of the users table.
LEMMA UserAdminAccounts == Good /\ UserAdmin => Accounts
<1> SUFFICES ASSUME Good, UserAdmin PROVE Accounts
    OBVIOUS
<1>1. ASSUME NEW p \in People,
             (\E to \in Offered : ChangeRole(p, to)) \/ ToggleDisabled(p) \/ DeleteUser(p)
      PROVE  Accounts
    <2>1. \A op \in Ops : \A arg \in Roles : MayAsk(op, p, arg)
        BY DEF MayAsk, PageOps, Ops
    <2>2. PICK op \in Ops : \E to \in Roles : Click("users", op, p, to)
        <3>1. RoleShown(p) \in Roles
            BY <1>1, RowRole DEF ChangeRole, ToggleDisabled, DeleteUser
        <3>2. Offered \subseteq Roles /\ {"role", "enable", "disable", "delete"} = Ops
            BY ConsoleAssumption DEF Ops
        <3> QED BY <1>1, <3>1, <3>2 DEF ChangeRole, ToggleDisabled, DeleteUser
    <2> QED BY <2>1, <2>2, ClickAccounts
<1>2. ASSUME NEW d, OpenDialog(d) \/ CloseDialog(d) \/ EditEmail(d) PROVE Accounts
    BY <1>2, SameWords, QuietAccounts
       DEF OpenDialog, CloseDialog, EditEmail, serverVars, planeVars, mineVars
<1>3. ASSUME NEW d \in Dialogs, NEW role \in Offered, SubmitDialog(d, role) PROVE Accounts
    <2>1. UNCHANGED <<ver, accepted, own>> /\ role \in Roles
        BY <1>3, ConsoleAssumption DEF SubmitDialog, serverVars, planeVars
    <2>2. CASE d = "create"
        <3>1. ui.create.email # None /\ Send("create", ui.create.email, <<role, ui.create.password>>)
            BY <1>3, <2>2 DEF SubmitDialog
        <3>2. ui.create.password \in PasswordNumbers /\ ui.create.email \in Emails
            BY <3>1 DEF Good, Types, DialogsTyped, DialogType
        <3>3. MayAsk("create", ui.create.email, <<role, ui.create.password>>)
            BY <2>1, <3>2 DEF MayAsk, PageOps, Ops
        <3> QED BY <2>1, <3>1, <3>3, SentAccounts
    <2>3. CASE d # "create"
        <3>1. d \in People /\ Send("reset", d, <<role, ui.resets[d].password>>)
            BY <1>3, <2>3, RowRole DEF SubmitDialog, Dialogs, Good, Types, TableTyped, Table, Shown,
                                       Base, ActiveThere
        <3>2. ui.resets[d].password \in PasswordNumbers
            BY <3>1 DEF Good, Types, DialogsTyped, DialogType
        <3>3. MayAsk("reset", d, <<role, ui.resets[d].password>>)
            BY <2>1, <3>1, <3>2 DEF MayAsk, PageOps, Ops
        <3> QED BY <2>1, <3>1, <3>3, SentAccounts
    <2> QED BY <2>2, <2>3
<1> QED BY <1>1, <1>2, <1>3 DEF UserAdmin

\* What others do makes the counters grow.
LEMMA ElsewhereAccounts == Good /\ Elsewhere => Accounts
<1> SUFFICES ASSUME Good, Elsewhere PROVE Accounts
    OBVIOUS
<1>1. UNCHANGED <<calls, own>>
    BY DEF Elsewhere, OtherIsAnswered, OtherUpdates, OtherSetsPassword, SessionEnds, OtherSignsIn,
           OtherRevokes, JobIsParked, OtherRotates, NotificationArrives, OtherComposes,
           ElsewhereRest, mineVars
<1>2. Grown
    <2>1. \/ UNCHANGED ver /\ accepted \subseteq accepted'
          \/ (Bump(Detail) \/ Bump(Keys) \/ Bump(Dlq)) /\ UNCHANGED accepted
        BY DEF Elsewhere, OtherIsAnswered, OtherUpdates, OtherSetsPassword, SessionEnds,
               OtherSignsIn, OtherRevokes, JobIsParked, OtherRotates, NotificationArrives,
               OtherComposes, planeVars
    <2>2. Counted /\ {Detail, Keys, Dlq} \subseteq Versioned
        BY DEF Good, Types, Versioned
    <2> QED BY <2>1, <2>2, BumpGrown DEF Grown, Counted
<1> QED BY <1>1, <1>2, SameWords, KeptTyped, SameOwn DEF Accounts
\* What the server answers without a version, and without a password that is set.
LEMMA PlainAccounts ==
    \A c \in Calls : \A a, v :
        /\ Good /\ Answers(c, a) /\ Reply(c, a, v, 0) /\ UNCHANGED <<ver, accepted, own>>
        /\ a = "ok" => calls[c].op \notin {"create", "reset"}
        /\ a = "under way" => calls[c].op \in Ops
        => Accounts
<1> TAKE c \in Calls
<1> TAKE a, v
<1> HAVE /\ Good /\ Answers(c, a) /\ Reply(c, a, v, 0) /\ UNCHANGED <<ver, accepted, own>>
         /\ a = "ok" => calls[c].op \notin {"create", "reset"}
         /\ a = "under way" => calls[c].op \in Ops
<1>1. Grown /\ OwnMove
    BY SameGrown, SameOwn DEF Good, Types
<1>2. \A k \in Versioned : 0 <= ver'[k]
    <2>1. ver' \in [Versioned -> Nat]
        BY <1>1 DEF Grown
    <2> QED BY ONLY <2>1
<1>4. \A k \in Affects(calls[c].op) : 0 <= ver'[k]
    BY <1>2, AffectsOne
<1>3. CallsTyped'
    BY <1>1, <1>4, RepliedTyped
<1> QED BY <1>1, <1>3 DEF Accounts

\* An answer that lands tells the user of the version it carries.
LEMMA LandedAccounts == \A c \in Calls : Good /\ LandCall(c) => Accounts
<1> TAKE c \in Calls
<1> HAVE Good /\ LandCall(c)
<1>1. calls[c] # None /\ UNCHANGED <<ver, accepted>>
    BY DEF LandCall
<1>2. Told(c)
    BY <1>1 DEF Good, Types, CallsTyped
<1>3. own' = [k \in Versioned |->
                 IF k \in Affects(calls[c].op) /\ (calls[c].answer = "ok" \/ calls[c].op = "role")
                 THEN Max({own[k], calls[c].ver}) ELSE own[k]]
    BY DEF LandCall
<1>4. OwnMove
    <2>1. ASSUME NEW k \in Versioned
          PROVE  own'[k] \in Nat /\ (own[k] <= ver[k] => own'[k] <= ver[k])
        <3>1. own[k] \in Nat /\ calls[c].ver \in Nat
            BY <1>2 DEF Told, Good, Types, Counted
        <3>2. /\ Max({own[k], calls[c].ver}) \in Nat
              /\ Max({own[k], calls[c].ver}) \in {own[k], calls[c].ver}
            BY <3>1, MaxOfTwo
        <3>3. k \in Affects(calls[c].op) => calls[c].ver <= ver[k]
            BY <1>2 DEF Told
        <3>4. CASE own'[k] = own[k]
            BY <3>1, <3>4
        <3>5. CASE k \in Affects(calls[c].op) /\ own'[k] = Max({own[k], calls[c].ver})
            BY <3>2, <3>3, <3>5
        <3> QED BY <1>3, <3>4, <3>5
    <2> QED BY <1>3, <2>1 DEF OwnMove
<1>5. Grown
    BY <1>1, SameGrown DEF Good, Types
<1> QED BY <1>4, <1>5, LandedWords, KeptTyped DEF Accounts

\* Serving an operation of the plane counts it, and answers with its count.
LEMMA PlaneOpAccounts == \A c \in Calls : Good /\ ServePlane(c) => Accounts
<1> TAKE c \in Calls
<1> HAVE Good /\ ServePlane(c)
<1> DEFINE call == calls[c]
           k == CHOOSE q \in Affects(call.op) : TRUE
<1>1. /\ call # None /\ call.op \in PlaneOps /\ UNCHANGED <<accepted, own>>
    BY DEF ServePlane, Arrived, BrowserRest
<1>2. call.op \notin {"create", "reset"}
    BY <1>1 DEF PlaneOps
<1>3. CASE Reply(c, "failed", 0, 0) /\ UNCHANGED ver
    BY <1>1, <1>3, PlainAccounts DEF Answers
<1>4. CASE Bump(k) /\ \E v : Reply(c, "ok", v, ver[k] + 1)
    <2>1. k \in Affects(call.op)
        BY <1>1 DEF PlaneOps, Affects, HmacOps, Ops
    <2>2. k \in Versioned /\ \A q \in Affects(call.op) : q = k
        BY <2>1, AffectsOne
    <2> HIDE DEF k
    <2>3. Grown /\ ver'[k] = ver[k] + 1
        BY <1>1, <1>4, <2>2, BumpGrown DEF Good, Types
    <2>4. ver[k] + 1 \in Nat /\ \A q \in Affects(call.op) : ver[k] + 1 <= ver'[q]
        BY <2>2, <2>3 DEF Good, Types, Counted
    <2>5. PICK v : Reply(c, "ok", v, ver[k] + 1)
        BY <1>4
    <2>6. CallsTyped'
        BY <1>1, <1>2, <2>3, <2>4, <2>5, RepliedTyped DEF Answers
    <2>7. OwnMove
        BY <1>1, SameOwn
    <2> QED BY <2>3, <2>6, <2>7 DEF Accounts
<1> QED BY <1>3, <1>4 DEF ServePlane

\* So does serving one of the roster.
LEMMA ServerAccounts == Good /\ Server => Accounts
<1> SUFFICES ASSUME Good, Server PROVE Accounts
    OBVIOUS
<1> USE DEF BrowserRest, serverVars, planeVars
<1>1. ASSUME NEW c \in Calls, \E a \in {"failed", "expired"} : Reply(c, a, 0, 0), calls[c] # None,
             UNCHANGED <<ver, accepted, own>>
      PROVE  Accounts
    BY <1>1, PlainAccounts DEF Answers
<1>2. ASSUME NEW c \in Calls, TurnAway(c) PROVE Accounts
    BY <1>1, <1>2 DEF TurnAway
<1>3. ASSUME NEW c \in Calls, LoseCall(c) PROVE Accounts
    BY <1>3, LostWords, QuietAccounts DEF LoseCall
<1>4. ASSUME NEW c \in Calls, ServeUpdate(c) PROVE Accounts
    BY <1>4, PlainAccounts DEF ServeUpdate, Answers, Arrived
<1>5. ASSUME NEW c \in Calls, AnswerUpdate(c) PROVE Accounts
    <2>1. calls[c] # None /\ calls[c].op \in Ops /\ UNCHANGED <<ver, accepted, own>>
        BY <1>5 DEF AnswerUpdate, Good, Types, CallsTyped, Told
    <2>2. CASE Reply(c, "failed", 0, 0)
        BY <1>1, <2>1, <2>2
    <2>3. CASE Reply(c, "ok", 0, ver[Users])
        <3>1. Affects(calls[c].op) = {Users} /\ Users \in Versioned
            BY <2>1 DEF Affects, Versioned, Ops, HmacOps
        <3>2. ver[Users] \in Nat /\ \A k \in Affects(calls[c].op) : ver[Users] <= ver'[k]
            BY <2>1, <3>1 DEF Good, Types, Counted
        <3>3. calls[c].op \notin {"create", "reset"}
            BY <2>1 DEF Ops
        <3>4. Grown /\ OwnMove
            BY <2>1, SameGrown, SameOwn DEF Good, Types
        <3> QED BY <2>1, <2>3, <3>2, <3>3, <3>4, RepliedTyped DEF Answers, Accounts
    <2> QED BY <1>5, <2>2, <2>3 DEF AnswerUpdate
<1>6. ASSUME NEW c \in Calls, ServeCreateUser(c) PROVE Accounts
    <2>1. calls[c] # None /\ calls[c].op = "create" /\ UNCHANGED own
        BY <1>6 DEF ServeCreateUser, Arrived
    <2>2. CASE Reply(c, "failed", 0, 0) /\ UNCHANGED <<ver, accepted>>
        BY <1>1, <2>1, <2>2
    <2>3. CASE /\ Bump(Users) /\ Reply(c, "ok", 0, ver[Users] + 1)
               /\ accepted' = accepted \cup {<<calls[c].at, calls[c].arg[2]>>}
        <3>1. Affects(calls[c].op) = {Users} /\ Users \in Versioned
            BY <2>1 DEF Affects, Versioned, Ops, HmacOps
        <3>2. Grown /\ ver'[Users] = ver[Users] + 1
            BY <2>3, <3>1, BumpGrown DEF Good, Types
        <3>3. ver[Users] + 1 \in Nat /\ \A k \in Affects(calls[c].op) : ver[Users] + 1 <= ver'[k]
            BY <3>1, <3>2 DEF Good, Types, Counted
        <3>4. <<calls[c].at, calls[c].arg[2]>> \in accepted'
            BY <2>3
        <3> QED BY <2>1, <2>3, <3>2, <3>3, <3>4, RepliedTyped, SameOwn DEF Answers, Accounts
    <2> QED BY <1>6, <2>2, <2>3 DEF ServeCreateUser
<1>7. ASSUME NEW c \in Calls, ServeReset(c) PROVE Accounts
    <2>1. calls[c] # None /\ calls[c].op = "reset" /\ UNCHANGED <<own, ver>>
        BY <1>7 DEF ServeReset, Arrived
    <2>2. CASE Reply(c, "failed", 0, 0) /\ UNCHANGED accepted
        BY <1>1, <2>1, <2>2
    <2>3. CASE /\ Reply(c, "ok", 0, 0)
               /\ accepted' = accepted \cup {<<calls[c].at, calls[c].arg[2]>>}
        <3>1. Affects(calls[c].op) = {}
            BY <2>1 DEF Affects, Ops, HmacOps
        <3>2. Grown
            BY <2>1, <2>3 DEF Grown, Good, Types, Counted
        <3>3. <<calls[c].at, calls[c].arg[2]>> \in accepted'
            BY <2>3
        <3> QED BY <2>1, <2>3, <3>1, <3>2, <3>3, RepliedTyped, SameOwn DEF Answers, Accounts
    <2> QED BY <1>7, <2>2, <2>3 DEF ServeReset
<1>8. ASSUME NEW c \in Calls, TakeLock(c) \/ CheckGuard(c) \/ AbortUpdate(c) PROVE Accounts
    BY <1>8, SameWords, QuietAccounts DEF TakeLock, CheckGuard, AbortUpdate
<1>9. ASSUME NEW c \in Calls, CommitUpdate(c) PROVE Accounts
    <2>1. Bump(Users) /\ UNCHANGED <<calls, accepted, own>> /\ Users \in Versioned
        BY <1>9 DEF CommitUpdate, Versioned
    <2> QED BY <2>1, BumpGrown, SameWords, KeptTyped, SameOwn DEF Accounts, Good, Types
<1>10. ASSUME NEW c \in Calls, LookForSnapshot(c) PROVE Accounts
    <2>1. calls[c] # None /\ calls[c].op = "compose" /\ UNCHANGED <<ver, accepted, own>>
        BY <1>10 DEF LookForSnapshot, Arrived
    <2>2. \E a \in {"ok", "looked"} : \E v : Reply(c, a, v, 0)
        BY <1>10 DEF LookForSnapshot
    <2> QED BY <2>1, <2>2, PlainAccounts DEF Answers
<1>11. ASSUME NEW c \in Calls, InsertSnapshot(c) PROVE Accounts
    <2>1. calls[c] # None /\ calls[c].op = "compose" /\ UNCHANGED <<ver, accepted, own>>
        BY <1>11 DEF InsertSnapshot, Good, Base, Shape, CallsShape
    <2>2. \E v : Reply(c, "ok", v, 0)
        BY <1>11 DEF InsertSnapshot
    <2> QED BY <2>1, <2>2, PlainAccounts DEF Answers
<1>12. ASSUME NEW c \in Calls, ServeLogout(c) PROVE Accounts
    BY <1>12, PlainAccounts DEF ServeLogout, Arrived, Answers
<1> QED BY <1>2, <1>3, <1>4, <1>5, <1>6, <1>7, <1>8, <1>9, <1>10, <1>11, <1>12,
           LandedAccounts, PlaneOpAccounts DEF Server

\* Every step of the console keeps the accounts.
LEMMA NextAccounts == Good /\ [Next]_vars => Accounts
<1> SUFFICES ASSUME Good, [Next]_vars PROVE Accounts
    OBVIOUS
<1>1. CASE UNCHANGED vars
    BY <1>1, SameWords, QuietAccounts DEF vars, serverVars, planeVars, mineVars
<1> QED BY <1>1, CacheAccounts, ServerAccounts, GateAccounts, UserAdminAccounts, PlaneAccounts,
           BrowseAccounts, ElsewhereAccounts DEF Next

----------------------------------------------------------------------------
\* The dialogs, the gate and the count of the passwords, after a step.
Locals == DialogsTyped' /\ GateTyped' /\ drawn' \in PasswordNumbers

\* A dialog that has not been opened is closed and holds nothing.
LEMMA FreshDialogs == /\ Dialog \in DialogType /\ FreshRows \in [People -> DialogType]
                      /\ FreshUi.create \in DialogType /\ FreshUi.resets = FreshRows
BY ConsoleAssumption DEF Dialog, DialogType, FreshRows, FreshUi, PasswordNumbers

\* Dialogs left alone, or replaced by fresh ones, keep their types.
LEMMA SameLocals ==
    Good /\ UNCHANGED <<cookie, signing, drawn>> /\ ui' \in {ui, FreshUi} => Locals
BY FreshDialogs DEF Good, Types, Locals, DialogsTyped, GateTyped, Counted

\* So they do in a step outside the users table.
LEMMA PlainLocals ==
    /\ Good /\ UNCHANGED <<cookie, signing, drawn>>
    /\ ui'.create = ui.create /\ ui'.resets = ui.resets
    => Locals
BY DEF Good, Types, Locals, DialogsTyped, GateTyped, Counted

\* react-query leaves the dialogs and the gate alone, or clears them.
LEMMA CacheLocals == Good /\ Cache => Locals
<1> SUFFICES ASSUME Good, Cache PROVE Locals
    OBVIOUS
<1>1. UNCHANGED <<cookie, signing, drawn>>
    BY DEF Cache, ServeQuery, FailQuery, LandQuery, Expire, gateVars, mineVars
<1>2. ui' \in {FreshUi, ui, [ui EXCEPT !.resets = FreshRows]}
    <2>1. ASSUME NEW k \in DOMAIN cache, LandQuery(k)
          PROVE  ui' \in {FreshUi, ui, [ui EXCEPT !.resets = FreshRows]}
        BY <2>1 DEF LandQuery, ShowOver
    <2>2. ASSUME NEW k \in DOMAIN cache, ServeQuery(k) \/ FailQuery(k) \/ Expire(k)
          PROVE  ui' = ui
        BY <2>2 DEF ServeQuery, FailQuery, Expire
    <2> QED BY <2>1, <2>2 DEF Cache
<1>3. CASE ui' = [ui EXCEPT !.resets = FreshRows]
    <2>1. ui'.create = ui.create /\ ui'.resets = FreshRows
        BY <1>3 DEF Good, Base, Shape, UiShape, UiFields
    <2> QED BY <1>1, <2>1, FreshDialogs DEF Good, Types, Locals, DialogsTyped, GateTyped, Counted
<1> QED BY <1>1, <1>2, <1>3, SameLocals

\* Loading, signing in and signing out close them.
LEMMA GateLocals == Good /\ Gate => Locals
<1> SUFFICES ASSUME Good, Gate PROVE Locals
    OBVIOUS
<1> USE DEF gateVars, viewVars, mineVars
<1>1. CASE LoadMe \/ Reload \/ SignOut
    <2>1. UNCHANGED <<cookie, signing, drawn>> /\ ui' \in {ui, FreshUi}
        BY <1>1 DEF LoadMe, Reload, SignOut, Show, ShowOver
    <2> QED BY <2>1, SameLocals
<1>2. CASE LandLogin
    <2>1. ui' \in {ui, FreshUi} /\ drawn' = drawn /\ signing' = None
        BY <1>2 DEF LandLogin, Show, ShowOver
    <2>2. cookie' \in {cookie, signing.session} /\ signing # None
        BY <1>2 DEF LandLogin
    <2>3. GateTyped'
        BY <2>1, <2>2 DEF GateTyped, Good, Types
    <2>4. DialogsTyped'
        BY <2>1, FreshDialogs DEF DialogsTyped, Good, Types
    <2> QED BY <2>1, <2>3, <2>4 DEF Locals, Good, Types, Counted
<1>3. ASSUME NEW s \in Sessions, NEW p \in People, SignIn(s, p) PROVE Locals
    <2>1. UNCHANGED <<ui, cookie, drawn>>
        BY <1>3 DEF SignIn
    <2>2. signing' = [session |-> s, who |-> p, role |-> roster[p].role, answer |-> "sent"]
        BY <1>3 DEF SignIn
    <2>3. GateTyped'
        BY <2>1, <2>2 DEF GateTyped, Good, Types
    <2> QED BY <2>1, <2>3 DEF Locals, Good, Types, Counted, DialogsTyped
<1>4. ASSUME NEW s \in Sessions, ServeLogin(s) PROVE Locals
    <2>1. UNCHANGED <<ui, cookie, drawn>>
        BY <1>4 DEF ServeLogin
    <2>2. signing' = signing
              \/ (signing # None /\ \E a : signing' = [signing EXCEPT !.answer = a])
        BY <1>4 DEF ServeLogin
    <2>3. GateTyped'
        BY <2>1, <2>2 DEF GateTyped, Good, Types
    <2> QED BY <2>1, <2>3 DEF Locals, Good, Types, Counted, DialogsTyped
<1> QED BY <1>1, <1>2, <1>3, <1>4 DEF Gate

\* Off a route change the dialogs stay as they are.
LEMMA BrowseKeepsForms ==
    Base /\ Browse /\ ~(\E pg \in Pages : Go(pg)) =>
        ui'.create = ui.create /\ ui'.resets = ui.resets
<1> SUFFICES ASSUME Base, Browse, ~(\E pg \in Pages : Go(pg))
             PROVE  ui'.create = ui.create /\ ui'.resets = ui.resets
    OBVIOUS
<1>1. UiShape
    BY DEF Base, Shape
<1>2. \A x : Turn(x) => ui' = x
    BY DEF Turn, Show, ShowOver
<1>3. CASE ApplyFilter \/ ResetFilter \/ LoadMore
    <2>1. CASE ApplyFilter
        BY <1>1, <1>2, <2>1 DEF ApplyFilter, UiShape, UiFields
    <2>2. CASE ResetFilter
        BY <1>1, <1>2, <2>2 DEF ResetFilter, UiShape, UiFields
    <2>3. CASE LoadMore
        BY <1>1, <1>2, <2>3 DEF LoadMore, UiShape, UiFields
    <2> QED BY <1>3, <2>1, <2>2, <2>3
<1>4. CASE ~(ApplyFilter \/ ResetFilter \/ LoadMore)
    <2>1. \/ \E a : \/ ui' = [ui EXCEPT !.draft = a]
                    \/ ui' = [ui EXCEPT !.open = a]
                    \/ ui' = [ui EXCEPT !.query = a]
          \/ ui' = ui
        BY <1>2, <1>4 DEF Browse, CloseTimeline, EditFilter, OpenTimeline, LookUp, Reconnect
    <2> QED BY <1>1, <2>1 DEF UiShape, UiFields
<1> QED BY <1>3, <1>4

\* Paging, filtering and opening keep them.
LEMMA BrowseLocals == Good /\ Browse => Locals
<1> SUFFICES ASSUME Good, Browse PROVE Locals
    OBVIOUS
<1>1. UNCHANGED <<cookie, signing, drawn>>
    BY DEF Browse, ApplyFilter, ResetFilter, LoadMore, CloseTimeline, EditFilter,
           OpenTimeline, LookUp, Turn, Go, Reconnect, gateVars, mineVars
<1>2. CASE \E pg \in Pages : Go(pg)
    <2>1. ui' = FreshUi
        BY <1>2 DEF Go, Show, ShowOver
    <2> QED BY <1>1, <2>1, SameLocals
<1>3. CASE ~(\E pg \in Pages : Go(pg))
    BY <1>1, <1>3, BrowseKeepsForms, PlainLocals DEF Good
<1> QED BY <1>2, <1>3

\* A click on a plane page leaves the dialogs alone.
LEMMA PlaneKeepsForms ==
    Base /\ Plane => /\ ui'.create = ui.create /\ ui'.resets = ui.resets
                     /\ ui'.applied = ui.applied /\ ui'.passed = ui.passed
                     /\ ui'.there = ui.there
<1> SUFFICES ASSUME Base, Plane
             PROVE  /\ ui'.create = ui.create /\ ui'.resets = ui.resets
                    /\ ui'.applied = ui.applied /\ ui'.passed = ui.passed
                    /\ ui'.there = ui.there
    OBVIOUS
<1>1. \/ ui' = ui
      \/ ui' = [ui EXCEPT !.created = 0]
      \/ \E x : ui' = [ui EXCEPT !.key = x]
      \/ \E x : ui' = [ui EXCEPT !.tab = x, !.rotated = 0, !.created = 0]
    BY DEF Plane, CreateEnvironment, CreateKey, CloseKey, RotateSecret, CompleteRotation,
           Install, ReplayAll, Compose, RevokeKey, SwitchTab, ReplayOne, TypeKey, Click,
           viewVars, Show, ShowOver
<1> QED BY <1>1 DEF Base, Shape, UiShape, UiFields

\* A click on a plane page keeps the types of the dialogs.
LEMMA PlaneLocals == Good /\ Plane => Locals
<1> SUFFICES ASSUME Good, Plane PROVE Locals
    OBVIOUS
<1>1. UNCHANGED <<cookie, signing, drawn>>
    BY DEF Plane, CreateEnvironment, CreateKey, CloseKey, RotateSecret, CompleteRotation,
           Install, ReplayAll, Compose, RevokeKey, SwitchTab, ReplayOne, TypeKey, Click,
           gateVars, mineVars
<1> QED BY <1>1, PlaneKeepsForms, PlainLocals DEF Good

\* One dialog is opened or closed.
LEMMA WithDialogTyped ==
    \A d, x : /\ Good /\ ui' = WithDialog(d, x) /\ x \in DialogType
              /\ d = "create" \/ d \in People
        => DialogsTyped'
<1> TAKE d, x
<1> HAVE /\ Good /\ ui' = WithDialog(d, x) /\ x \in DialogType
         /\ d = "create" \/ d \in People
<1>1. DOMAIN ui = UiFields /\ ui.create \in DialogType /\ ui.resets \in [People -> DialogType]
    BY DEF Good, Base, Shape, UiShape, Types, DialogsTyped
<1>2. CASE d = "create"
    <2>1. ui' = [ui EXCEPT !.create = x]
        BY <1>2 DEF WithDialog
    <2> QED BY <1>1, <2>1 DEF UiFields, DialogsTyped
<1>3. CASE d # "create"
    <2> DEFINE rows == [ui.resets EXCEPT ![d] = x]
    <2>1. ui' = [ui EXCEPT !.resets = rows]
        BY <1>3 DEF WithDialog
    <2>2. rows \in [People -> DialogType]
        BY <1>1
    <2> HIDE DEF rows
    <2> QED BY <1>1, <2>1, <2>2 DEF UiFields, DialogsTyped
<1> QED BY <1>2, <1>3

\* The dialogs there are, and their state.
LEMMA DialogsThere ==
    \A d \in Dialogs : Good => (d = "create" \/ d \in People) /\ DialogAt(d) \in DialogType
<1> TAKE d \in Dialogs
<1> HAVE Good
<1>1. d = "create" \/ d \in People
    BY DEF Dialogs, Good, Types, TableTyped, Table, Shown, Base, ActiveThere
<1> QED BY <1>1 DEF DialogAt, Good, Types, DialogsTyped

\* A click in the users table changes one dialog, to a dialog.
LEMMA UserAdminLocals == Good /\ UserAdmin => Locals
<1> SUFFICES ASSUME Good, UserAdmin PROVE Locals
    OBVIOUS
<1> USE DEF gateVars, mineVars, viewVars
<1>1. ASSUME NEW p \in People,
             (\E to \in Offered : ChangeRole(p, to)) \/ ToggleDisabled(p) \/ DeleteUser(p)
      PROVE  Locals
    BY <1>1, SameLocals DEF ChangeRole, ToggleDisabled, DeleteUser, Click
<1>2. ASSUME NEW d \in Dialogs, OpenDialog(d) PROVE Locals
    <2> DEFINE x == DialogAt(d)
               fresh == x.password = 0
    <2>1. x \in DialogType /\ (d = "create" \/ d \in People)
        BY DialogsThere
    <2>2. PICK w \in PasswordNumbers : ui' = WithDialog(d, [x EXCEPT !.open = TRUE, !.password = w])
        <3>1. fresh => drawn + 1 \in PasswordNumbers
            BY <1>2, ConsoleAssumption DEF OpenDialog, PasswordNumbers, Good, Types, Counted
        <3>2. x.password \in PasswordNumbers
            BY <2>1 DEF DialogType
        <3> QED BY <1>2, <2>1, <3>1, <3>2 DEF OpenDialog
    <2>3. [x EXCEPT !.open = TRUE, !.password = w] \in DialogType
        BY <2>1 DEF DialogType
    <2>4. DialogsTyped'
        BY <2>1, <2>2, <2>3, WithDialogTyped
    <2>5. drawn' \in PasswordNumbers
        BY <1>2, ConsoleAssumption DEF OpenDialog, PasswordNumbers, Good, Types, Counted
    <2> QED BY <1>2, <2>4, <2>5 DEF OpenDialog, Locals, GateTyped, Good, Types
<1>3. ASSUME NEW d \in Dialogs, CloseDialog(d) PROVE Locals
    <2>1. ui' = WithDialog(d, [Dialog EXCEPT !.lapsed = PendingIn(d)])
        BY <1>3 DEF CloseDialog
    <2>2. [Dialog EXCEPT !.lapsed = PendingIn(d)] \in DialogType
        <3>1. PendingIn(d) \in BOOLEAN
            BY DEF PendingIn, Mine, MineOn
        <3> HIDE DEF PendingIn
        <3> QED BY <3>1, FreshDialogs DEF DialogType
    <2>3. DialogsTyped'
        BY <2>1, <2>2, DialogsThere, WithDialogTyped
    <2>4. UNCHANGED <<cookie, signing, drawn>>
        BY <1>3 DEF CloseDialog
    <2>5. GateTyped' /\ drawn' \in PasswordNumbers
        BY <2>4 DEF GateTyped, Good, Types, Counted
    <2> QED BY <2>3, <2>5 DEF Locals
<1>4. ASSUME NEW d \in Dialogs, NEW role \in Offered, SubmitDialog(d, role) PROVE Locals
    <2> DEFINE x == DialogAt(d)
    <2>1. x \in DialogType /\ (d = "create" \/ d \in People)
        BY DialogsThere
    <2>2. ui' = WithDialog(d, [x EXCEPT !.lapsed = FALSE]) /\ UNCHANGED <<cookie, signing, drawn>>
        BY <1>4 DEF SubmitDialog
    <2>3. [x EXCEPT !.lapsed = FALSE] \in DialogType
        BY <2>1 DEF DialogType
    <2>4. DialogsTyped'
        BY <2>1, <2>2, <2>3, WithDialogTyped
    <2> QED BY <2>2, <2>4 DEF Locals, GateTyped, Good, Types, Counted
<1>5. ASSUME NEW email \in Emails, EditEmail(email) PROVE Locals
    <2>1. PICK b \in BOOLEAN :
              ui' = WithDialog("create", [ui.create EXCEPT !.email = email, !.lapsed = b])
        <3> DEFINE b == ui.create.lapsed \/ PendingIn("create")
        <3>1. /\ ui.create \in DialogType /\ b \in BOOLEAN
              /\ ui' = WithDialog("create", [ui.create EXCEPT !.email = email, !.lapsed = b])
            BY <1>5 DEF EditEmail, Good, Types, DialogsTyped
        <3> HIDE DEF b
        <3> QED BY <3>1
    <2>2. [ui.create EXCEPT !.email = email, !.lapsed = b] \in DialogType
        BY DEF DialogType, Good, Types, DialogsTyped
    <2>3. DialogsTyped'
        BY <2>1, <2>2, WithDialogTyped
    <2>4. UNCHANGED <<cookie, signing, drawn>>
        BY <1>5 DEF EditEmail
    <2> QED BY <2>3, <2>4 DEF Locals, GateTyped, Good, Types, Counted
<1> QED BY <1>1, <1>2, <1>3, <1>4, <1>5 DEF UserAdmin

\* What others do leaves the interface alone; a password may be drawn.
LEMMA ElsewhereLocals == Good /\ Elsewhere => Locals
<1> SUFFICES ASSUME Good, Elsewhere PROVE Locals
    OBVIOUS
<1> USE DEF ElsewhereRest, gateVars, viewVars, mineVars
<1>1. ASSUME NEW p \in People, OtherSetsPassword(p) PROVE Locals
    <2>1. drawn' \in PasswordNumbers
        BY <1>1, ConsoleAssumption DEF OtherSetsPassword, PasswordNumbers, Good, Types, Counted
    <2> QED BY <1>1, <2>1 DEF OtherSetsPassword, Locals, GateTyped, DialogsTyped, Good, Types
<1>2. CASE ~\E p \in People : OtherSetsPassword(p)
    <2>1. UNCHANGED <<ui, cookie, signing, drawn>>
        BY <1>2 DEF Elsewhere, OtherIsAnswered, OtherUpdates, SessionEnds, OtherSignsIn,
                    OtherRevokes, JobIsParked, OtherRotates, NotificationArrives, OtherComposes
    <2> QED BY <2>1, SameLocals
<1> QED BY <1>1, <1>2

\* Announcements: done, on a dialog that is there.
LEMMA AnnouncedTyped ==
    \A c \in Calls : Good /\ calls[c] # None =>
        LET x == Announced(calls[c])
        IN  x.create \in DialogType /\ x.resets \in [People -> DialogType]
<1> TAKE c \in Calls
<1> HAVE Good /\ calls[c] # None
<1> DEFINE call == calls[c]
<1>1. DOMAIN ui = UiFields /\ ui.create \in DialogType /\ ui.resets \in [People -> DialogType]
    BY DEF Good, Base, Shape, UiShape, Types, DialogsTyped
<1>2. CASE call.op = "reset"
    <2>1. call.at \in People
        BY <1>2 DEF Good, Types, CallsTyped, MayAsk
    <2> DEFINE row == [ui.resets[call.at] EXCEPT !.done = TRUE]
               rows == [ui.resets EXCEPT ![call.at] = row]
    <2>2. row \in DialogType
        BY <1>1, <2>1 DEF DialogType
    <2>3. Announced(call) = [ui EXCEPT !.resets = rows]
        BY <1>2 DEF Announced
    <2> HIDE DEF row
    <2>4. rows \in [People -> DialogType]
        BY <1>1, <2>2
    <2> HIDE DEF rows
    <2> QED BY <1>1, <2>3, <2>4 DEF UiFields
<1>3. CASE call.op = "create"
    <2> DEFINE row == [ui.create EXCEPT !.done = TRUE]
    <2>1. row \in DialogType
        BY <1>1 DEF DialogType
    <2>2. Announced(call) = [ui EXCEPT !.create = row]
        BY <1>3 DEF Announced
    <2> HIDE DEF row
    <2> QED BY <1>1, <2>1, <2>2 DEF UiFields
<1>4. CASE call.op \notin {"reset", "create"}
    <2>1. \/ Announced(call) = ui
          \/ \E r : \/ Announced(call) = [ui EXCEPT !.rotated = r]
                    \/ Announced(call) = [ui EXCEPT !.created = r]
        BY <1>4 DEF Announced
    <2> QED BY <1>1, <2>1 DEF UiFields
<1> QED BY <1>2, <1>3, <1>4

\* Neither a request served nor an answer that lands breaks the types of a dialog.
LEMMA ServerLocals == Good /\ Server => Locals
<1> SUFFICES ASSUME Good, Server PROVE Locals
    OBVIOUS
<1> USE DEF BrowserRest, gateVars, viewVars
<1>1. ASSUME NEW c \in Calls, LandCall(c) PROVE Locals
    <2>1. ui' \in {FreshUi, ui, Announced(calls[c])} /\ calls[c] # None
        BY <1>1 DEF LandCall, ShowOver
    <2>2. DialogsTyped'
        BY <2>1, AnnouncedTyped, FreshDialogs DEF DialogsTyped, Good, Types
    <2>3. cookie' \in {None, cookie} /\ UNCHANGED <<signing, drawn>>
        BY <1>1 DEF LandCall
    <2>4. GateTyped'
        BY <2>3 DEF GateTyped, Good, Types
    <2> QED BY <2>2, <2>3, <2>4 DEF Locals, Good, Types, Counted
<1>2. CASE ~\E c \in Calls : LandCall(c)
    <2>1. UNCHANGED <<ui, cookie, signing, drawn>>
        BY <1>2 DEF Server, TurnAway, LoseCall, ServeUpdate, AnswerUpdate, ServeCreateUser,
                    ServeReset, TakeLock, CheckGuard, CommitUpdate, AbortUpdate, ServePlane,
                    LookForSnapshot, InsertSnapshot, ServeLogout
    <2> QED BY <2>1, SameLocals
<1> QED BY <1>1, <1>2

\* Every step keeps the dialogs, the gate and the count of the passwords.
LEMMA NextLocals == Good /\ [Next]_vars => Locals
<1> SUFFICES ASSUME Good, [Next]_vars PROVE Locals
    OBVIOUS
<1>1. CASE UNCHANGED vars
    BY <1>1, SameLocals DEF vars, gateVars, viewVars, mineVars
<1> QED BY <1>1, CacheLocals, ServerLocals, GateLocals, UserAdminLocals, PlaneLocals,
           BrowseLocals, ElsewhereLocals DEF Next

----------------------------------------------------------------------------
(* The console does to the roster what AdminRoster allows. *)

\* What react-query does is no step of the roster.
LEMMA CacheRoster == Cache => UNCHANGED rosterVars
BY DEF Cache, ServeQuery, FailQuery, LandQuery, Expire, serverVars

\* A login is a step of the roster, and the rest of the gate is none.
LEMMA GateRoster == Gate => [RosterNext]_rosterVars
<1> SUFFICES ASSUME Gate PROVE [RosterNext]_rosterVars
    OBVIOUS
<1>1. ASSUME NEW s \in Sessions, ServeLogin(s) PROVE RosterNext
    BY <1>1 DEF ServeLogin, RosterNext
<1>2. ASSUME NEW s \in Sessions, NEW p \in People, SignIn(s, p) PROVE RosterNext
    BY <1>2 DEF SignIn, RosterNext
<1>3. CASE LoadMe \/ Reload \/ LandLogin \/ SignOut
    BY <1>3 DEF LoadMe, Reload, LandLogin, SignOut, serverVars
<1> QED BY <1>1, <1>2, <1>3 DEF Gate

\* A click in the users table is no step of the roster.
LEMMA UserAdminRoster == UserAdmin => UNCHANGED rosterVars
BY DEF UserAdmin, ChangeRole, ToggleDisabled, DeleteUser, OpenDialog, CloseDialog,
       EditEmail, SubmitDialog, Click, serverVars

\* Nor is one on a plane page.
LEMMA PlaneRoster == Plane => UNCHANGED rosterVars
BY DEF Plane, CreateEnvironment, CreateKey, CloseKey, RotateSecret, CompleteRotation,
       Install, ReplayAll, Compose, RevokeKey, SwitchTab, ReplayOne, TypeKey, Click, serverVars

\* Nor is looking around.
LEMMA BrowseRoster == Browse => UNCHANGED rosterVars
BY DEF Browse, ApplyFilter, ResetFilter, LoadMore, CloseTimeline, EditFilter,
       OpenTimeline, LookUp, Turn, Go, Reconnect, serverVars

\* What another admin does is one step of the roster, or none.
LEMMA ElsewhereRoster == Good /\ Elsewhere => [RosterNext]_rosterVars
<1> SUFFICES ASSUME Good, Elsewhere PROVE [RosterNext]_rosterVars
    OBVIOUS
<1>1. ASSUME NEW c \in Calls, OtherIsAnswered(c) PROVE RosterNext
    BY <1>1 DEF OtherIsAnswered, RosterNext
<1>2. ASSUME NEW c \in Calls, NEW op \in Ops, NEW by \in People, NEW p \in People,
             NEW to \in Offered, OtherUpdates(c, op, by, p, to)
      PROVE  RosterNext
    BY <1>2, ConsoleAssumption DEF OtherUpdates, RosterNext
<1>3. ASSUME NEW p \in People, OtherSetsPassword(p) PROVE RosterNext
    <2>1. drawn + 1 \in Passwords
        BY <1>3, ConsoleAssumption DEF OtherSetsPassword, Good, Types, Counted, PasswordNumbers
    <2> QED BY <1>3, <2>1 DEF OtherSetsPassword, RosterNext
<1>4. ASSUME NEW s \in Sessions, SessionEnds(s) \/ \E p \in People : OtherSignsIn(s, p)
      PROVE  RosterNext
    BY <1>4 DEF SessionEnds, OtherSignsIn, RosterNext
<1>5. ASSUME \/ \E n \in 1..MaxKeys : OtherRevokes(n)
             \/ \E l \in Letters : JobIsParked(l)
             \/ \E n \in Rows : NotificationArrives(n)
             \/ OtherRotates \/ OtherComposes("k")
      PROVE  UNCHANGED rosterVars
    BY <1>5 DEF OtherRevokes, JobIsParked, OtherRotates, NotificationArrives, OtherComposes
<1> QED BY <1>1, <1>2, <1>3, <1>4, <1>5 DEF Elsewhere

\* Who may do something has a session, and is somebody.
LEMMA WhoMay ==
    \A c \in Calls : \A ops : Good /\ Arrived(c, ops) /\ calls[c].op \in PageOps \cup {"logout"} =>
        /\ calls[c].session \in Sessions /\ sessions[calls[c].session].who \in People
        /\ sessions[calls[c].session] # None
<1> TAKE c \in Calls
<1> TAKE ops
<1> HAVE Good /\ Arrived(c, ops) /\ calls[c].op \in PageOps \cup {"logout"}
<1>1. Live(calls[c].session)
    BY DEF Arrived, MayDo, Permitted
<1>2. calls[c].session \in Sessions
    BY <1>1 DEF Live, Arrived, Good, Types, CallsTyped
<1>3. sessions[calls[c].session] # None /\ sessions[calls[c].session] \in Login \cup {None}
    BY <1>1, <1>2 DEF Live, Good, Types, RosterTypeOK
<1> QED BY <1>2, <1>3 DEF Login

\* Serving an operation of the users table is what the roster allows.
LEMMA ServerRoster == Good /\ Server => [RosterNext]_rosterVars
<1> SUFFICES ASSUME Good, Server PROVE [RosterNext]_rosterVars
    OBVIOUS
<1>1. ASSUME NEW c \in Calls, TakeLock(c) \/ CheckGuard(c) \/ CommitUpdate(c) \/ AbortUpdate(c)
                              \/ AnswerUpdate(c)
      PROVE  RosterNext
    BY <1>1 DEF TakeLock, CheckGuard, CommitUpdate, AbortUpdate, AnswerUpdate, RosterNext
<1>2. ASSUME NEW c \in Calls, ServeUpdate(c) PROVE RosterNext
    <2>1. Arrived(c, Ops) /\ calls[c] # None /\ calls[c].op \in Ops
        BY <1>2 DEF ServeUpdate, Arrived
    <2>2. sessions[calls[c].session].who \in People
        BY <2>1, WhoMay DEF PageOps
    <2>3. calls[c].at \in People /\ calls[c].arg \in Roles
        BY <2>1 DEF Good, Types, CallsTyped, MayAsk
    <2> QED BY <1>2, <2>1, <2>2, <2>3 DEF ServeUpdate, RosterNext
<1>3. ASSUME NEW c \in Calls, ServeCreateUser(c) PROVE [RosterNext]_rosterVars
    <2>1. calls[c].at \in People /\ calls[c].arg[1] \in Roles /\ calls[c].arg[2] \in Passwords
        BY <1>3, ConsoleAssumption DEF ServeCreateUser, Arrived, Good, Types, CallsTyped, MayAsk,
                   PasswordNumbers
    <2>2. CreateUser(calls[c].at, calls[c].arg[1], calls[c].arg[2]) \/ UNCHANGED rosterVars
        BY <1>3 DEF ServeCreateUser
    <2> QED BY <2>1, <2>2 DEF RosterNext
<1>4. ASSUME NEW c \in Calls, ServeReset(c) PROVE [RosterNext]_rosterVars
    <2>1. calls[c].at \in People /\ calls[c].arg[2] \in Passwords
        BY <1>4, ConsoleAssumption DEF ServeReset, Arrived, Good, Types, CallsTyped, MayAsk,
                   PasswordNumbers
    <2>2. SetPassword(calls[c].at, calls[c].arg[2]) \/ UNCHANGED rosterVars
        BY <1>4 DEF ServeReset
    <2> QED BY <2>1, <2>2 DEF RosterNext
<1>5. ASSUME NEW c \in Calls, ServeLogout(c) PROVE RosterNext
    <2>1. calls[c].session \in Sessions
        BY <1>5, WhoMay DEF ServeLogout, Arrived
    <2>2. EndSession(calls[c].session)
        BY <1>5 DEF ServeLogout
    <2> QED BY <2>1, <2>2 DEF RosterNext
<1>6. ASSUME NEW c \in Calls,
             \/ TurnAway(c) \/ LoseCall(c) \/ LandCall(c) \/ ServePlane(c) \/ LookForSnapshot(c)
             \/ InsertSnapshot(c)
      PROVE  UNCHANGED rosterVars
    BY <1>6 DEF TurnAway, LoseCall, LandCall, ServePlane, LookForSnapshot, InsertSnapshot,
                serverVars
<1> QED BY <1>1, <1>2, <1>3, <1>4, <1>5, <1>6 DEF Server

\* Every step of the console is a step of the roster, or none.
LEMMA NextRoster == Good /\ [Next]_vars => [RosterNext]_rosterVars
<1> SUFFICES ASSUME Good, [Next]_vars PROVE [RosterNext]_rosterVars
    OBVIOUS
<1>1. CASE UNCHANGED vars
    BY <1>1 DEF vars, serverVars
<1>2. CASE Cache \/ UserAdmin \/ Plane \/ Browse
    BY <1>2, CacheRoster, UserAdminRoster, PlaneRoster, BrowseRoster
<1>3. CASE Server \/ Gate \/ Elsewhere
    BY <1>3, ServerRoster, GateRoster, ElsewhereRoster
<1> QED BY <1>1, <1>2, <1>3 DEF Next

----------------------------------------------------------------------------
\* What the server lists are people, each with a role.
LEMMA ListsPeople == \A s : RosterTypeOK => Table(Answered(Users, s))
<1> TAKE s
<1> HAVE RosterTypeOK
<1>1. Users \notin {Envs, Detail, Keys, Dlq} /\ Users[1] # "notifications"
    BY DEF Users, Envs, Detail, Keys, Dlq
<1>2. Answered(Users, s) = UserList
    <2> DEFINE list == UserList
    <2> HIDE DEF list
    <2> QED BY <1>1, SMTT(20) DEF Answered
<1>3. \A p \in People : Is(p) => roster[p].role \in Roles
    BY DEF Is, Row
<1>4. DOMAIN UserList = {p \in People : Is(p)}
    BY DEF UserList
<1>5. ASSUME NEW p \in DOMAIN UserList PROVE UserList[p][1] \in Roles
    <2>1. UserList[p] = <<roster[p].role, roster[p].disabled>>
        BY <1>5 DEF UserList
    <2> QED BY <1>3, <1>4, <1>5, <2>1
<1>6. Table(UserList)
    BY <1>4, <1>5 DEF Table
<1> QED BY <1>2, <1>6

\* What is cached of the users table keeps its types.
LEMMA ViewTable == Good /\ View => TableTyped'
<1> SUFFICES ASSUME Good, View, Users \in DOMAIN cache'
             PROVE  /\ cache'[Users].data # None => Table(cache'[Users].data)
                    /\ cache'[Users].fetch.answer = "ok" => Table(cache'[Users].fetch.data)
    BY DEF TableTyped
<1> DEFINE e == Before(Users)
           d == cache'[Users]
<1>1. /\ e.data # None => Table(e.data)
      /\ e.fetch.answer = "ok" => Table(e.fetch.data)
    BY EmptyShape DEF Good, Types, TableTyped, Before, AtRest
<1>2. EntryMove(Users, e, d)
    BY DEF View
<1>3. \A s : Table(Answered(Users, s))
    BY ListsPeople DEF Good, Types
<1>4. /\ d.data # None => Table(d.data)
      /\ d.fetch.answer = "ok" => Table(d.fetch.data)
    <2> HIDE DEF e, d
    <2> QED BY <1>1, <1>2, <1>3
            DEF EntryMove, KeptEntry, StaleEntry, AskedEntry, MarkedEntry, ServedEntry,
                FailedEntry, LandedEntry, DroppedEntry, SameData, AtRest
<1> QED BY <1>4

\* Every step keeps the shapes and the types.
LEMMA NextGood == Good /\ [Next]_vars => Good'
<1> SUFFICES ASSUME Good, [Next]_vars PROVE Good'
    OBVIOUS
<1>1. Base' /\ View
    BY NextMoves DEF Good
<1>2. Accounts /\ Locals
    BY NextAccounts, NextLocals
<1>3. RosterTypeOK'
    BY NextRoster, StepType DEF Good, Types
<1>4. TableTyped'
    BY <1>1, ViewTable
<1>5. Counted'
    BY <1>2 DEF Accounts, Locals, Grown, OwnMove, Counted
<1> QED BY <1>1, <1>2, <1>3, <1>4, <1>5 DEF Good, Types, Accounts, Locals

\* They hold in the beginning.
LEMMA InitGood == Init => Good
<1> SUFFICES ASSUME Init PROVE Good
    OBVIOUS
<1>1. RosterTypeOK
    BY InitRoster DEF Init, RosterInv
<1>2. DialogsTyped /\ GateTyped
    BY FreshDialogs DEF Init, DialogsTyped, GateTyped
<1>3. CallsTyped /\ TableTyped
    BY DEF Init, CallsTyped, TableTyped, NoCache
<1>4. Counted
    BY ConsoleAssumption DEF Init, Counted, PasswordNumbers
<1> QED BY <1>1, <1>2, <1>3, <1>4, InitBase DEF Good, Types

\* What the console, the other admins and the server do together is what AdminRoster
\* allows, so that what holds of the roster holds with the console (users.tsx, admin.rs).
THEOREM ConsoleIsRoster == Spec => RosterSpec
<1>1. Init => Good /\ RosterInit
    BY InitGood DEF Init
<1>2. Good /\ [Next]_vars => Good'
    BY NextGood
<1>3. Good /\ [Next]_vars => [RosterNext]_rosterVars
    BY NextRoster
<1> QED BY <1>1, <1>2, <1>3, PTL DEF Spec, RosterSpec

\* The pages cannot leave the roster without an enabled admin, however many tabs and
\* admins demote, disable and delete at once (users.tsx, admin.rs update_user).
THEOREM ConsoleLastAdmin == Spec => []LastAdmin
BY ConsoleIsRoster, LastAdminAlways

----------------------------------------------------------------------------
\* Nothing was told of more than there is.
OwnBelow == \A k \in Versioned : own[k] <= ver[k]

\* What an entry has, and what is on its way to it, is what the user was told of,
\* unless an invalidation crossed it.
EntryKeeps(k, e) ==
    /\ e.fetch.answer = "ok" /\ ~e.fetch.raced =>
           e.fetch.ver \in Int /\ own[k] <= e.fetch.ver
    /\ e.data # None /\ ~e.error /\ ~e.raced /\ AtRest(e) /\ (k \in Active \/ ~e.stale) =>
           e.ver \in Int /\ own[k] <= e.ver

\* Every entry keeps what the user was told.
CacheKeeps == \A k \in Versioned \cap DOMAIN cache : EntryKeeps(k, cache[k])

OwnInv == Good /\ OwnBelow /\ CacheKeeps

\* No step tells the user of more than there is.
LEMMA NextOwnBelow == OwnInv /\ Accounts => OwnBelow'
<1> SUFFICES ASSUME OwnInv, Accounts, NEW k \in Versioned PROVE own'[k] <= ver'[k]
    BY DEF OwnBelow
<1>1. ver[k] \in Nat /\ ver'[k] \in Nat /\ own[k] \in Nat /\ own'[k] \in Nat
    BY DEF OwnInv, Good, Types, Counted, Accounts, Grown, OwnMove
<1>2. ver[k] <= ver'[k] /\ own[k] <= ver[k] /\ (own'[k] = own[k] \/ own'[k] <= ver[k])
    BY DEF OwnInv, OwnBelow, Accounts, Grown, OwnMove
<1> QED BY <1>1, <1>2

\* No entry falls behind what the user was told, but by what crossed it.
LEMMA NextCacheKeeps == OwnInv /\ View /\ Accounts => CacheKeeps'
<1> SUFFICES ASSUME OwnInv, View, Accounts, NEW k \in Versioned, k \in DOMAIN cache'
             PROVE  EntryKeeps(k, cache[k])'
    BY DEF CacheKeeps
<1> DEFINE e == Before(k)
           d == cache'[k]
<1>1. EntryKeeps(k, e)
    BY EmptyShape DEF OwnInv, CacheKeeps, EntryKeeps, Before, AtRest
<1>2. EntryMove(k, e, d)
    BY DEF View
<1>3. ver[k] \in Nat /\ own[k] \in Nat /\ own[k] <= ver[k]
    BY DEF OwnInv, OwnBelow, Good, Types, Counted
<1>4. /\ d.fetch.answer = "ok" /\ ~d.fetch.raced =>
             d.fetch.ver \in Int /\ own'[k] <= d.fetch.ver
      /\ d.data # None /\ ~d.error /\ ~d.raced /\ AtRest(d) /\ (k \in Active' \/ ~d.stale) =>
             d.ver \in Int /\ own'[k] <= d.ver
    <2> HIDE DEF e, d
    <2>1. CASE KeptEntry(k, e, d)
        BY <1>1, <2>1 DEF KeptEntry, OwnSame, EntryKeeps
    <2>2. CASE StaleEntry(k, e, d)
        BY <1>1, <2>2 DEF StaleEntry, SameData, OwnSame, EntryKeeps, AtRest
    <2>3. CASE AskedEntry(k, e, d) \/ FailedEntry(k, e, d)
        BY <2>3 DEF AskedEntry, FailedEntry, AtRest
    <2>4. CASE MarkedEntry(k, e, d)
        BY <2>4 DEF MarkedEntry, AtRest
    <2>5. CASE ServedEntry(k, e, d)
        BY <1>3, <2>5 DEF ServedEntry, OwnSame, AtRest
    <2>6. CASE LandedEntry(k, e, d)
        BY <1>1, <2>6 DEF LandedEntry, OwnSame, EntryKeeps, AtRest
    <2>7. CASE DroppedEntry(k, e, d)
        BY <2>7 DEF DroppedEntry, AtRest
    <2> QED BY <1>2, <2>1, <2>2, <2>3, <2>4, <2>5, <2>6, <2>7 DEF EntryMove
<1> QED BY <1>4 DEF EntryKeeps, AtRest

\* At rest a page shows at least what its user was told is done, unless the invalidation
\* met a fetch it could not replace: a mutation asks again for what it changes (invalidateQueries
\* in environments.tsx, environment-detail.tsx and users.tsx).
THEOREM OwnWorkIsShown == Spec => []OwnWorkShown
<1>1. Init => OwnInv
    <2> SUFFICES ASSUME Init PROVE OwnInv
        OBVIOUS
    <2>1. Good /\ OwnBelow
        <3>1. own = [k \in Versioned |-> 0] /\ ver = [k \in Versioned |-> 0]
            BY DEF Init
        <3> QED BY <3>1, InitGood DEF OwnBelow
    <2>2. CacheKeeps
        BY DEF Init, CacheKeeps, NoCache
    <2> QED BY <2>1, <2>2 DEF OwnInv
<1>2. OwnInv /\ [Next]_vars => OwnInv'
    <2> SUFFICES ASSUME OwnInv, [Next]_vars PROVE OwnInv'
        OBVIOUS
    <2>1. View /\ Accounts /\ Good'
        BY NextMoves, NextAccounts, NextGood DEF OwnInv, Good
    <2> QED BY <2>1, NextOwnBelow, NextCacheKeeps DEF OwnInv
<1>3. OwnInv => OwnWorkShown
    <2> SUFFICES ASSUME OwnInv, NEW k \in Versioned \cap DOMAIN cache,
                        Shown(k), AtRest(cache[k]), ~cache[k].raced
                 PROVE  cache[k].ver >= own[k]
        BY DEF OwnWorkShown
    <2>1. cache[k].ver \in Int /\ own[k] <= cache[k].ver
        BY DEF OwnInv, CacheKeeps, EntryKeeps, Shown
    <2> QED BY <2>1 DEF OwnInv, Good, Types, Counted
<1> QED BY <1>1, <1>2, <1>3, PTL DEF Spec

----------------------------------------------------------------------------
(* The dialogs that hold a password, and the requests that carry it. *)

\* The two dialogs: a new user's, and each row's for a reset.
FormOps == {"create", "reset"}

FormIn(x, op, p) == IF op = "create" THEN x.create ELSE x.resets[p]

Form(op, p) == FormIn(ui, op, p)

\* Whose password the dialog is about.
Whose(x, op, p) == IF op = "create" THEN x.email ELSE p

\* A request of this tab is the dialog's.
For(call, op, p) == call.op = op /\ (op = "reset" => call.at = p)

Carries(c, op, p) == calls[c] # None /\ calls[c].mine /\ For(calls[c], op, p)

\* A request carries what its dialog shows, and what is shown as set was set,
\* unless the dialog was closed or its email edited meanwhile.
Secure(op, p) ==
    /\ \A c \in Calls : Carries(c, op, p) =>
           \/ Form(op, p).lapsed
           \/ /\ Form(op, p).open /\ Form(op, p).password = calls[c].arg[2]
              /\ Whose(Form(op, p), op, p) = calls[c].at
    /\ Form(op, p).done /\ ~Form(op, p).lapsed =>
           /\ Form(op, p).open
           /\ <<Whose(Form(op, p), op, p), Form(op, p).password>> \in accepted

AllSecure == \A op \in FormOps : \A p \in People : Secure(op, p)

\* No request of a page of this tab is under way.
NoPageCalls == \A c \in Calls : calls[c] # None /\ calls[c].mine => calls[c].op \notin PageOps

\* Nobody signs in twice at a time, and who is out has no request of the pages.
GateKeeps ==
    /\ user # None => ~loading /\ signing = None
    /\ loading => signing = None
    /\ user = None => NoPageCalls

FormInv == Good /\ AllSecure /\ GateKeeps

----------------------------------------------------------------------------
\* Requests go on, and their dialog asks for nothing new.
GoOn == \A c \in Calls : calls'[c] # None => Continues(c)

KeepsAsking(op, p) ==
    \A c \in Calls : Carries(c, op, p)' =>
        Carries(c, op, p) /\ calls'[c].arg = calls[c].arg /\ calls'[c].at = calls[c].at

(* What a step does to a dialog. *)

\* It stays.
StaysForm(op, p) == Form(op, p)' = Form(op, p) /\ KeepsAsking(op, p)

\* It is a fresh one, with no request.
FreshForm(op, p) == Form(op, p)' = Dialog /\ \A c \in Calls : ~Carries(c, op, p)'

\* It opens.
OpenedForm(op, p) ==
    /\ ~Form(op, p).open
    /\ Form(op, p)'.done = Form(op, p).done /\ Form(op, p)'.lapsed = Form(op, p).lapsed
    /\ KeepsAsking(op, p)

\* It closes, or its email is edited, and what a request under way has taken along
\* is no longer what it shows (mutation.reset, useState).
ClosedForm(op, p) ==
    /\ ~Form(op, p)'.done
    /\ (\E c \in Calls : Carries(c, op, p)) => Form(op, p)'.lapsed
    /\ KeepsAsking(op, p)

\* It is submitted: the one request it has carries its password and its email.
SentForm(op, p) ==
    /\ Form(op, p)'.open /\ ~Form(op, p)'.done
    /\ \A c \in Calls : Carries(c, op, p)' =>
           /\ calls'[c].arg[2] = Form(op, p)'.password
           /\ calls'[c].at = Whose(Form(op, p)', op, p)

\* Its request has succeeded.
DoneForm(op, p) ==
    /\ \E c \in Calls : Carries(c, op, p) /\ calls[c].answer = "ok"
    /\ Form(op, p)'.open = Form(op, p).open
    /\ Form(op, p)'.password = Form(op, p).password /\ Form(op, p)'.email = Form(op, p).email
    /\ Form(op, p)'.lapsed = Form(op, p).lapsed
    /\ KeepsAsking(op, p)

\* Every dialog does one of these at a time.
FormMove(op, p) ==
    \/ StaysForm(op, p) \/ FreshForm(op, p) \/ OpenedForm(op, p) \/ ClosedForm(op, p)
    \/ SentForm(op, p) \/ DoneForm(op, p)

FormMoves == \A op \in FormOps : \A p \in People : FormMove(op, p)

\* A move of a dialog keeps its password secure.
LEMMA FormStep ==
    \A op \in FormOps : \A p \in People :
        Good /\ Secure(op, p) /\ FormMove(op, p) /\ accepted \subseteq accepted' =>
            Secure(op, p)'
<1> TAKE op \in FormOps
<1> TAKE p \in People
<1> HAVE Good /\ Secure(op, p) /\ FormMove(op, p) /\ accepted \subseteq accepted'
<1> DEFINE x == Form(op, p)
           y == Form(op, p)'
<1>1. /\ \A c \in Calls : Carries(c, op, p) =>
             x.lapsed \/ (/\ x.open /\ x.password = calls[c].arg[2]
                         /\ Whose(x, op, p) = calls[c].at)
      /\ x.done /\ ~x.lapsed => x.open /\ <<Whose(x, op, p), x.password>> \in accepted
    BY DEF Secure
<1>2. /\ \A c \in Calls : Carries(c, op, p)' =>
             y.lapsed \/ (/\ y.open /\ y.password = calls'[c].arg[2]
                         /\ Whose(y, op, p) = calls'[c].at)
      /\ y.done /\ ~y.lapsed => y.open /\ <<Whose(y, op, p), y.password>> \in accepted'
    <2>1. CASE StaysForm(op, p)
        BY <1>1, <2>1 DEF StaysForm, KeepsAsking
    <2>2. CASE FreshForm(op, p)
        BY <2>2 DEF FreshForm, Dialog
    <2>3. CASE OpenedForm(op, p)
        BY <1>1, <2>3 DEF OpenedForm, KeepsAsking
    <2>4. CASE ClosedForm(op, p)
        BY <2>4 DEF ClosedForm, KeepsAsking
    <2>5. CASE SentForm(op, p)
        BY <2>5 DEF SentForm
    <2>6. CASE DoneForm(op, p)
        <3>1. PICK c \in Calls : Carries(c, op, p) /\ calls[c].answer = "ok"
            BY <2>6 DEF DoneForm
        <3>2. <<calls[c].at, calls[c].arg[2]>> \in accepted
            BY <3>1 DEF Carries, For, FormOps, Good, Types, CallsTyped, Told
        <3>3. y.open = x.open /\ y.password = x.password /\ y.lapsed = x.lapsed
                  /\ y.email = x.email /\ KeepsAsking(op, p)
            BY <2>6 DEF DoneForm
        <3> HIDE DEF x, y
        <3>4. Whose(y, op, p) = Whose(x, op, p)
            BY <3>3 DEF Whose
        <3>5. x.lapsed \/ (/\ x.open /\ x.password = calls[c].arg[2]
                          /\ Whose(x, op, p) = calls[c].at)
            BY <1>1, <3>1
        <3> QED BY <1>1, <3>2, <3>3, <3>4, <3>5 DEF KeepsAsking
    <2> QED BY <2>1, <2>2, <2>3, <2>4, <2>5, <2>6 DEF FormMove
<1> QED BY <1>2 DEF Secure, Whose

\* Requests that go on ask for no new password.
LEMMA GoOnKeepsAsking == GoOn => \A op, p : KeepsAsking(op, p)
BY DEF GoOn, KeepsAsking, Carries, For, Continues

\* Requests left alone go on.
LEMMA SameGoOn == Good /\ UNCHANGED calls => GoOn
BY DEF GoOn, Continues, Good, Base, Shape, CallsShape

\* Requests that keep their words go on.
LEMMA WordsGoOn == KeptWords => GoOn
BY DEF KeptWords, GoOn

\* A request of another kind is sent.
LEMMA OtherSends ==
    \A op, at, arg : Good /\ Send(op, at, arg) /\ op \notin FormOps =>
        \A f \in FormOps : \A p : KeepsAsking(f, p)
<1> TAKE op, at, arg
<1> HAVE Good /\ Send(op, at, arg) /\ op \notin FormOps
<1>1. \A c \in Calls : calls'[c] # None => Continues(c) \/ IsNew(c, op, at, arg)
    BY IsSent DEF Good, Base, Shape
<1> QED BY <1>1 DEF KeepsAsking, Carries, For, Continues, IsNew

\* A step that leaves the dialogs and the requests alone moves no dialog.
LEMMA PlainForms ==
    /\ \A op \in FormOps : \A p : KeepsAsking(op, p)
    /\ ui'.create = ui.create /\ ui'.resets = ui.resets
    => FormMoves
BY DEF FormMoves, FormMove, StaysForm, Form, FormIn

\* A page that opens has fresh dialogs, once no request of a page is left.
LEMMA FreshForms == ui' = FreshUi /\ NoPageCalls' => FormMoves
<1> SUFFICES ASSUME ui' = FreshUi, NoPageCalls', NEW op \in FormOps, NEW p \in People
             PROVE  FreshForm(op, p)
    BY DEF FormMoves, FormMove
<1>1. Form(op, p)' = Dialog
    BY DEF Form, FormIn, FreshUi, FreshRows
<1>2. op \in PageOps
    BY DEF FormOps, PageOps
<1> QED BY <1>1, <1>2 DEF FreshForm, NoPageCalls, Carries, For

\* Leaving a page forgets the requests of its mutations.
LEMMA UnmountedPage == Unmount(PageOps) /\ CallsShape => NoPageCalls'
<1> SUFFICES ASSUME Unmount(PageOps), CallsShape, NEW c \in Calls, calls'[c] # None,
                    calls'[c].mine
             PROVE  calls'[c].op \notin PageOps
    BY DEF NoPageCalls
<1>1. CASE calls[c] # None /\ calls[c].op \in PageOps
    <2>1. calls'[c] = [calls[c] EXCEPT !.mine = FALSE]
        BY <1>1 DEF Unmount
    <2> QED BY <1>1, <2>1 DEF CallsShape, CallFields
<1>2. CASE ~(calls[c] # None /\ calls[c].op \in PageOps)
    BY <1>2 DEF Unmount
<1> QED BY <1>1, <1>2

----------------------------------------------------------------------------
(* What a step does to the gate. *)

\* The same person is inside.
Inside == UNCHANGED <<loading, user, signing>> /\ (GoOn \/ user # None)

\* A 401 throws out.
ThrownOut == UNCHANGED <<loading, signing>> /\ user' = None /\ NoPageCalls'

\* The session was looked up.
Loaded == loading /\ ~loading' /\ UNCHANGED <<signing, calls>>

\* The browser is reloaded or signed out.
Reloaded == signing = None /\ signing' = None /\ user' = None /\ NoPageCalls'

\* A login is sent.
Entering == ~loading /\ ~loading' /\ user = None /\ user' = None /\ UNCHANGED calls

\* A login is answered.
Entered == signing # None /\ signing' = None /\ UNCHANGED <<loading, calls>>

\* Every step does one of these to the gate.
GateMove == Inside \/ ThrownOut \/ Loaded \/ Reloaded \/ Entering \/ Entered

\* What a step does to the dialogs and the gate.
Rooms == FormMoves /\ GateMove

\* Requests that go on add none of a page.
LEMMA GoOnPageCalls == GoOn /\ NoPageCalls => NoPageCalls'
BY DEF GoOn, NoPageCalls, Continues

\* A move of the gate keeps signed-out browsers without requests of a page.
LEMMA GateStep == Good /\ GateKeeps /\ GateMove => GateKeeps'
<1> SUFFICES ASSUME Good, GateKeeps, GateMove PROVE GateKeeps'
    OBVIOUS
<1>1. UNCHANGED calls => GoOn
    BY SameGoOn
<1>2. GoOn /\ user = None => NoPageCalls'
    BY GoOnPageCalls DEF GateKeeps
<1>3. CASE Inside
    BY <1>2, <1>3 DEF Inside, GateKeeps
<1>4. CASE ThrownOut \/ Reloaded
    BY <1>4 DEF ThrownOut, Reloaded, GateKeeps
<1>5. CASE Loaded
    BY <1>1, <1>2, <1>5 DEF Loaded, GateKeeps
<1>6. CASE Entering
    BY <1>1, <1>2, <1>6 DEF Entering, GateKeeps
<1>7. CASE Entered
    BY <1>1, <1>2, <1>7 DEF Entered, GateKeeps
<1> QED BY <1>3, <1>4, <1>5, <1>6, <1>7 DEF GateMove

\* Requests go on, and the dialogs and the gate stay.
LEMMA PlainRooms ==
    /\ Good /\ GoOn /\ UNCHANGED <<loading, user, signing>>
    /\ ui'.create = ui.create /\ ui'.resets = ui.resets
    => Rooms
BY GoOnKeepsAsking, PlainForms DEF Rooms, GateMove, Inside

\* Another request moves no dialog.
LEMMA SentRooms ==
    \A op, at, arg :
        /\ Good /\ Send(op, at, arg) /\ op \notin FormOps
        /\ UNCHANGED <<ui, loading, user, signing>>
        => Rooms
<1> TAKE op, at, arg
<1> HAVE /\ Good /\ Send(op, at, arg) /\ op \notin FormOps
         /\ UNCHANGED <<ui, loading, user, signing>>
<1>1. user # None
    BY DEF Send
<1>2. FormMoves
    BY OtherSends, PlainForms
<1> QED BY <1>1, <1>2 DEF Rooms, GateMove, Inside

\* react-query moves no dialog; a 401 throws out with all of them.
LEMMA CacheRooms == FormInv /\ Cache => Rooms
<1> SUFFICES ASSUME FormInv, Cache PROVE Rooms
    OBVIOUS
<1> USE DEF gateVars, mineVars
<1>1. Good /\ CallsShape /\ UiShape
    BY DEF FormInv, Good, Base, Shape
<1>2. ASSUME NEW k \in DOMAIN cache, ServeQuery(k) \/ FailQuery(k) \/ Expire(k) PROVE Rooms
    BY <1>1, <1>2, SameGoOn, PlainRooms DEF ServeQuery, FailQuery, Expire
<1>3. ASSUME NEW k \in DOMAIN cache, LandQuery(k) PROVE Rooms
    <2>1. UNCHANGED <<loading, signing>>
        BY <1>3 DEF LandQuery
    <2>2. \/ user' = None /\ ui' = FreshUi /\ Unmount(PageOps)
          \/ user' = user /\ ui' = [ui EXCEPT !.resets = FreshRows] /\ Unmount(RowOps)
          \/ user' = user /\ ui' = ui /\ Unmount({})
        BY <1>3 DEF LandQuery, ShowOver
    <2>3. \A ops : Unmount(ops) => GoOn
        BY <1>1, Unmounted DEF CallsKeep, GoOn
    <2>4. CASE user' = None /\ ui' = FreshUi /\ Unmount(PageOps)
        <3>1. NoPageCalls'
            BY <1>1, <2>4, UnmountedPage
        <3> QED BY <2>1, <2>4, <3>1, FreshForms DEF Rooms, GateMove, ThrownOut
    <2>5. CASE user' = user /\ ui' = [ui EXCEPT !.resets = FreshRows] /\ Unmount(RowOps)
        <3>1. ui'.create = ui.create /\ ui'.resets = FreshRows
            BY <1>1, <2>5 DEF UiShape, UiFields
        <3>2. ASSUME NEW c \in Calls, calls'[c] # None, calls'[c].mine PROVE calls'[c].op # "reset"
            <4>1. CASE calls[c] # None /\ calls[c].op \in RowOps
                <5>1. calls'[c] = [calls[c] EXCEPT !.mine = FALSE]
                    BY <2>5, <4>1 DEF Unmount
                <5> QED BY <1>1, <3>2, <5>1 DEF CallsShape, CallFields
            <4>2. CASE ~(calls[c] # None /\ calls[c].op \in RowOps)
                BY <2>5, <3>2, <4>2 DEF Unmount, RowOps
            <4> QED BY <4>1, <4>2
        <3>3. ASSUME NEW p \in People PROVE FormMove("create", p) /\ FormMove("reset", p)
            <4>1. StaysForm("create", p)
                BY <2>3, <2>5, <3>1, GoOnKeepsAsking DEF StaysForm, Form, FormIn
            <4>2. FreshForm("reset", p)
                BY <3>1, <3>2 DEF FreshForm, Form, FormIn, FreshRows, Carries, For
            <4> QED BY <4>1, <4>2 DEF FormMove
        <3> QED BY <2>1, <2>3, <2>5, <3>3 DEF Rooms, FormMoves, FormOps, GateMove, Inside
    <2>6. CASE user' = user /\ ui' = ui /\ Unmount({})
        BY <1>1, <2>1, <2>3, <2>6, PlainRooms
    <2> QED BY <2>2, <2>4, <2>5, <2>6
<1> QED BY <1>2, <1>3 DEF Cache

\* Loading, signing in and signing out start with fresh dialogs.
LEMMA GateRooms == FormInv /\ Gate => Rooms
<1> SUFFICES ASSUME FormInv, Gate PROVE Rooms
    OBVIOUS
<1> USE DEF gateVars, viewVars, mineVars
<1>1. Good /\ GateKeeps /\ (UNCHANGED calls => GoOn)
    BY SameGoOn DEF FormInv
<1>2. UNCHANGED calls /\ user = None => NoPageCalls'
    BY <1>1, GoOnPageCalls DEF GateKeeps
<1>3. UNCHANGED calls /\ ui' = ui => FormMoves
    BY <1>1, GoOnKeepsAsking, PlainForms
<1>4. CASE LoadMe
    <2>1. loading /\ ~loading' /\ UNCHANGED <<signing, calls>> /\ ui' \in {ui, FreshUi}
        BY <1>4 DEF LoadMe, Show, ShowOver
    <2>2. user = None
        BY <1>1, <2>1 DEF GateKeeps
    <2> QED BY <1>2, <1>3, <2>1, <2>2, FreshForms DEF Rooms, GateMove, Loaded
<1>5. CASE Reload
    <2>1. /\ UNCHANGED <<signing, calls>> /\ ui' = FreshUi /\ user' = None /\ signing = None
          /\ \A c \in Calls : calls[c] = None
        BY <1>5 DEF Reload
    <2>2. NoPageCalls'
        BY <2>1 DEF NoPageCalls
    <2> QED BY <2>1, <2>2, FreshForms DEF Rooms, GateMove, Reloaded
<1>6. CASE LandLogin
    <2>1. signing # None /\ signing' = None /\ UNCHANGED <<loading, calls>> /\ ui' \in {ui, FreshUi}
        BY <1>6 DEF LandLogin, Show, ShowOver
    <2>2. user = None
        BY <1>1, <2>1 DEF GateKeeps
    <2> QED BY <1>2, <1>3, <2>1, <2>2, FreshForms DEF Rooms, GateMove, Entered
<1>7. CASE SignOut
    <2>1. Send("logout", 0, 0) /\ UNCHANGED <<ui, loading, user, signing>>
        BY <1>7 DEF SignOut
    <2> QED BY <1>1, <2>1, SentRooms DEF FormOps
<1>8. ASSUME NEW s \in Sessions, NEW p \in People, SignIn(s, p) PROVE Rooms
    <2>1. ~loading /\ user = None /\ UNCHANGED <<calls, ui, user, loading>>
        BY <1>8 DEF SignIn
    <2> QED BY <1>3, <2>1 DEF Rooms, GateMove, Entering
<1>9. ASSUME NEW s \in Sessions, ServeLogin(s) PROVE Rooms
    <2>1. UNCHANGED <<calls, ui, user, loading>> /\ (signing = None => signing' = None)
        BY <1>9 DEF ServeLogin
    <2>2. signing # None => ~loading /\ user = None
        BY <1>1 DEF GateKeeps
    <2> QED BY <1>1, <1>3, <2>1, <2>2 DEF Rooms, GateMove, Entering, Inside
<1> QED BY <1>4, <1>5, <1>6, <1>7, <1>8, <1>9 DEF Gate

\* Looking around leaves the dialogs alone, or leaves the page.
LEMMA BrowseRooms == FormInv /\ Browse => Rooms
<1> SUFFICES ASSUME FormInv, Browse PROVE Rooms
    OBVIOUS
<1>1. Good /\ CallsShape
    BY DEF FormInv, Good, Base, Shape
<1>2. UNCHANGED <<loading, signing>>
    BY DEF Browse, ApplyFilter, ResetFilter, LoadMore, CloseTimeline, EditFilter,
           OpenTimeline, LookUp, Turn, Go, Reconnect, gateVars
<1>3. user' = user
    BY DEF Browse, ApplyFilter, ResetFilter, LoadMore, CloseTimeline, EditFilter,
           OpenTimeline, LookUp, Turn, Go, Reconnect, gateVars, Show, ShowOver
<1>4. CASE \E pg \in Pages : Go(pg)
    <2>1. ui' = FreshUi /\ Unmount(PageOps)
        BY <1>4 DEF Go, Show, ShowOver
    <2>2. NoPageCalls' /\ GoOn
        BY <1>1, <2>1, UnmountedPage, Unmounted DEF CallsKeep, GoOn
    <2> QED BY <1>2, <1>3, <2>1, <2>2, FreshForms DEF Rooms, GateMove, Inside
<1>5. CASE ~(\E pg \in Pages : Go(pg))
    <2>1. UNCHANGED calls
        BY <1>5 DEF Browse, ApplyFilter, ResetFilter, LoadMore, CloseTimeline, EditFilter,
               OpenTimeline, LookUp, Turn, Reconnect, mineVars
    <2> QED BY <1>1, <1>2, <1>3, <1>5, <2>1, SameGoOn, BrowseKeepsForms, PlainRooms DEF Good
<1> QED BY <1>4, <1>5

\* A click on a plane page leaves them alone.
LEMMA PlaneRooms == FormInv /\ Plane => Rooms
<1> SUFFICES ASSUME FormInv, Plane PROVE Rooms
    OBVIOUS
<1> USE DEF gateVars, viewVars, mineVars
<1>1. Good /\ CallsShape /\ ui'.create = ui.create /\ ui'.resets = ui.resets
    BY PlaneKeepsForms DEF FormInv, Good, Base, Shape
<1>2. ASSUME \/ CreateEnvironment \/ CreateKey \/ RotateSecret \/ ReplayAll \/ Compose
             \/ CompleteRotation
             \/ \E n \in 1..MaxKeys : RevokeKey(n)
             \/ \E l \in Letters : ReplayOne(l)
      PROVE  Rooms
    <2>1. UNCHANGED <<ui, loading, user, signing>>
        BY <1>2 DEF CreateEnvironment, CreateKey, RotateSecret, ReplayAll, Compose,
                    CompleteRotation, RevokeKey, ReplayOne, Click
    <2>2. \E op \in {"env", "key", "rotate", "replay-all", "compose", "complete",
              "revoke", "replay"} :
              \E at, arg : Send(op, at, arg)
        BY <1>2 DEF CreateEnvironment, CreateKey, RotateSecret, ReplayAll, Compose,
                    CompleteRotation, RevokeKey, ReplayOne, Click
    <2> QED BY <1>1, <2>1, <2>2, SentRooms DEF FormOps
<1>3. ASSUME NEW tab \in {"keys", "hmac"}, SwitchTab(tab) PROVE Rooms
    <2>1. GoOn
        BY <1>1, <1>3, Unmounted DEF SwitchTab, CallsKeep, GoOn
    <2> QED BY <1>1, <1>3, <2>1, PlainRooms DEF SwitchTab, Show, ShowOver
<1>4. ASSUME CloseKey \/ Install \/ \E key \in {"", "k"} : TypeKey(key) PROVE Rooms
    BY <1>1, <1>4, SameGoOn, PlainRooms DEF CloseKey, Install, TypeKey
<1> QED BY <1>2, <1>3, <1>4 DEF Plane

\* Others leave the browser alone.
LEMMA ElsewhereRooms == FormInv /\ Elsewhere => Rooms
<1> SUFFICES ASSUME FormInv, Elsewhere PROVE Rooms
    OBVIOUS
<1>1. UNCHANGED <<ui, calls, loading, user, signing>>
    BY DEF Elsewhere, OtherIsAnswered, OtherUpdates, OtherSetsPassword, SessionEnds, OtherSignsIn,
           OtherRevokes, JobIsParked, OtherRotates, NotificationArrives, OtherComposes,
           ElsewhereRest, gateVars, viewVars, mineVars
<1> QED BY <1>1, SameGoOn, PlainRooms DEF FormInv

----------------------------------------------------------------------------
\* The users table opens, submits and closes dialogs.
LEMMA UserAdminRooms == FormInv /\ UserAdmin => Rooms
<1> SUFFICES ASSUME FormInv, UserAdmin PROVE Rooms
    OBVIOUS
<1> USE DEF gateVars, mineVars, viewVars
<1>1. Good /\ (UNCHANGED calls => GoOn)
    BY SameGoOn DEF FormInv
<1>2. DOMAIN ui = UiFields /\ ui.create \in DialogType /\ ui.resets \in [People -> DialogType]
    BY <1>1 DEF Good, Base, Shape, UiShape, Types, DialogsTyped
<1>3. \A c \in Calls : calls[c] # None => DOMAIN calls[c] = CallFields
    BY <1>1 DEF Good, Base, Shape, CallsShape
<1>4. ASSUME NEW p \in People,
             (\E to \in Offered : ChangeRole(p, to)) \/ ToggleDisabled(p) \/ DeleteUser(p)
      PROVE  Rooms
    <2>1. UNCHANGED <<ui, loading, user, signing>>
        BY <1>4 DEF ChangeRole, ToggleDisabled, DeleteUser, Click
    <2>2. \E op \in {"role", "enable", "disable", "delete"} : \E at, arg : Send(op, at, arg)
        BY <1>4 DEF ChangeRole, ToggleDisabled, DeleteUser, Click
    <2> QED BY <1>1, <2>1, <2>2, SentRooms DEF FormOps
\* The dialog that changes, and the others.
<1>5. ASSUME NEW d, d = "create" \/ d \in People, NEW x, ui' = WithDialog(d, x),
             NEW op \in FormOps, NEW p \in People
      PROVE  Form(op, p)' = IF (op = "create" /\ d = "create")
                               \/ (op = "reset" /\ d # "create" /\ d = p)
                            THEN x ELSE Form(op, p)
    <2>1. CASE d = "create"
        <3>1. ui' = [ui EXCEPT !.create = x]
            BY <1>5, <2>1 DEF WithDialog
        <3>2. ui'.create = x /\ ui'.resets = ui.resets
            BY <1>2, <3>1 DEF UiFields
        <3> QED BY <2>1, <3>2 DEF Form, FormIn, FormOps
    <2>2. CASE d # "create"
        <3> DEFINE rows == [ui.resets EXCEPT ![d] = x]
        <3>1. ui' = [ui EXCEPT !.resets = rows]
            BY <1>5, <2>2 DEF WithDialog
        <3>2. rows[p] = IF p = d THEN x ELSE ui.resets[p]
            BY <1>2
        <3> HIDE DEF rows
        <3>3. ui'.create = ui.create /\ ui'.resets = rows
            BY <1>2, <3>1 DEF UiFields
        <3> QED BY <2>2, <3>2, <3>3 DEF Form, FormIn, FormOps
    <2> QED BY <2>1, <2>2
<1>6. ASSUME NEW d \in Dialogs, OpenDialog(d) PROVE Rooms
    <2> DEFINE x == DialogAt(d)
    <2>1. x \in DialogType /\ (d = "create" \/ d \in People)
          /\ UNCHANGED <<calls, loading, user, signing>>
        BY <1>1, <1>6, DialogsThere DEF OpenDialog
    <2>2. PICK w : ui' = WithDialog(d, [x EXCEPT !.open = TRUE, !.password = w])
        BY <1>6 DEF OpenDialog
    <2> DEFINE y == [x EXCEPT !.open = TRUE, !.password = w]
    <2>3. y.done = x.done /\ y.lapsed = x.lapsed
        BY <2>1 DEF DialogType
    <2>4. ~x.open
        BY <1>6, <2>1 DEF OpenDialog, AnyOpen, DialogAt
    <2>5. ASSUME NEW op \in FormOps, NEW p \in People PROVE FormMove(op, p)
        <3>1. KeepsAsking(op, p)
            BY <1>1, <2>1, GoOnKeepsAsking
        <3>2. x = Form(op, p) \/ ~((op = "create" /\ d = "create")
                               \/ (op = "reset" /\ d # "create" /\ d = p))
            BY DEF DialogAt, Form, FormIn
        <3> HIDE DEF x, y
        <3>3. Form(op, p)' \in {Form(op, p), y} /\ (Form(op, p)' = Form(op, p) \/ x = Form(op, p))
            BY <1>5, <2>1, <2>2, <3>2 DEF y
        <3>4. CASE Form(op, p)' = Form(op, p)
            BY <3>1, <3>4 DEF FormMove, StaysForm
        <3>5. CASE Form(op, p)' = y /\ x = Form(op, p)
            BY <2>3, <2>4, <3>1, <3>5 DEF FormMove, OpenedForm
        <3> QED BY <3>3, <3>4, <3>5
    <2> QED BY <1>1, <2>1, <2>5 DEF Rooms, FormMoves, GateMove, Inside
<1>7. ASSUME NEW d \in Dialogs, CloseDialog(d) PROVE Rooms
    <2> DEFINE b == PendingIn(d)
               y == [Dialog EXCEPT !.lapsed = b]
    <2>1. (d = "create" \/ d \in People) /\ UNCHANGED <<calls, loading, user, signing>>
        BY <1>1, <1>7, DialogsThere DEF CloseDialog
    <2>2. ui' = WithDialog(d, y)
        BY <1>7 DEF CloseDialog
    <2>3. ~y.done /\ y.lapsed = b
        BY DEF Dialog
    <2>4. ASSUME NEW op \in FormOps, NEW p \in People PROVE FormMove(op, p)
        <3>1. KeepsAsking(op, p)
            BY <1>1, <2>1, GoOnKeepsAsking
        <3>2. CASE (op = "create" /\ d = "create") \/ (op = "reset" /\ d # "create" /\ d = p)
            <4>1. (\E c \in Calls : Carries(c, op, p)) => b
                BY <3>2 DEF Carries, For, PendingIn, Mine, MineOn, Pending
            <4> HIDE DEF y, b
            <4>2. Form(op, p)' = y
                BY <1>5, <2>1, <2>2, <3>2
            <4> QED BY <2>3, <3>1, <4>1, <4>2 DEF FormMove, ClosedForm
        <3>3. CASE ~((op = "create" /\ d = "create") \/ (op = "reset" /\ d # "create" /\ d = p))
            <4> HIDE DEF y, b
            <4>1. Form(op, p)' = Form(op, p)
                BY <1>5, <2>1, <2>2, <3>3
            <4> QED BY <3>1, <4>1 DEF FormMove, StaysForm
        <3> QED BY <3>2, <3>3
    <2> QED BY <1>1, <2>1, <2>4 DEF Rooms, FormMoves, GateMove, Inside
<1>8. ASSUME NEW d \in Dialogs, NEW role \in Offered, SubmitDialog(d, role) PROVE Rooms
    <2> DEFINE x == DialogAt(d)
               y == [x EXCEPT !.lapsed = FALSE]
               arg == <<role, x.password>>
    <2>1. UNCHANGED <<loading, user, signing>> /\ (d = "create" \/ d \in People)
              /\ x \in DialogType /\ x.open /\ ~x.done /\ ~PendingIn(d)
        BY <1>1, <1>8, DialogsThere DEF SubmitDialog
    <2>2. ui' = WithDialog(d, y)
        BY <1>8 DEF SubmitDialog
    <2>3. y.open /\ ~y.done /\ y.password = x.password /\ y.email = x.email
        BY <2>1 DEF DialogType
    <2>4. PICK o, at :
              /\ o \in FormOps /\ Send(o, at, arg)
              /\ \/ o = "create" /\ d = "create" /\ at = x.email
                 \/ o = "reset" /\ d # "create" /\ at = d
        BY <1>8 DEF SubmitDialog, FormOps, DialogAt
    <2>5. /\ user # None
          /\ \A c \in Calls : calls'[c] # None => Continues(c) \/ IsNew(c, o, at, arg)
        BY <1>1, <2>4, IsSent DEF Good, Base, Shape, Send
    <2>6. ASSUME NEW op \in FormOps, NEW p \in People PROVE FormMove(op, p)
        <3>1. ASSUME NEW c \in Calls, Carries(c, op, p)', Continues(c)
              PROVE  /\ Carries(c, op, p) /\ calls'[c].arg = calls[c].arg
                     /\ calls'[c].at = calls[c].at
            BY <3>1 DEF Carries, For, Continues
        <3>2. CASE (op = "create" /\ d = "create") \/ (op = "reset" /\ d # "create" /\ d = p)
            <4>1. \A c \in Calls : ~Carries(c, op, p)
                BY <2>1, <3>2 DEF Carries, For, PendingIn, Mine, MineOn, Pending
            <4>2. at = Whose(x, op, p)
                BY <2>4, <3>2 DEF Whose
            <4> HIDE DEF x, y
            <4>3. Form(op, p)' = y /\ Whose(y, op, p) = Whose(x, op, p)
                BY <1>5, <2>1, <2>2, <2>3, <3>2 DEF Whose
            <4>4. ASSUME NEW c \in Calls, Carries(c, op, p)'
                  PROVE  calls'[c].arg[2] = y.password /\ calls'[c].at = Whose(y, op, p)
                <5>1. IsNew(c, o, at, arg)
                    BY <2>5, <3>1, <4>1, <4>4 DEF Carries
                <5> QED BY <2>3, <4>2, <4>3, <5>1 DEF IsNew
            <4> QED BY <2>3, <4>3, <4>4 DEF FormMove, SentForm
        <3>3. CASE ~((op = "create" /\ d = "create") \/ (op = "reset" /\ d # "create" /\ d = p))
            <4>1. KeepsAsking(op, p)
                BY <2>4, <2>5, <3>1, <3>3 DEF KeepsAsking, Carries, For, IsNew, FormOps
            <4> HIDE DEF x, y
            <4>2. Form(op, p)' = Form(op, p)
                BY <1>5, <2>1, <2>2, <3>3
            <4> QED BY <4>1, <4>2 DEF FormMove, StaysForm
        <3> QED BY <3>2, <3>3
    <2> QED BY <1>1, <2>1, <2>5, <2>6 DEF Rooms, FormMoves, GateMove, Inside
<1>9. ASSUME NEW email \in Emails, EditEmail(email) PROVE Rooms
    <2> DEFINE b == ui.create.lapsed \/ PendingIn("create")
               y == [ui.create EXCEPT !.email = email, !.lapsed = b]
    <2>1. UNCHANGED <<calls, loading, user, signing>> /\ ui' = WithDialog("create", y)
              /\ ~ui.create.done
        BY <1>9 DEF EditEmail
    <2>2. ~y.done /\ y.lapsed = b
        BY <1>2, <2>1 DEF DialogType
    <2>3. PendingIn("create") => b
        OBVIOUS
    <2>4. ASSUME NEW op \in FormOps, NEW p \in People PROVE FormMove(op, p)
        <3>1. KeepsAsking(op, p)
            BY <1>1, <2>1, GoOnKeepsAsking
        <3>2. CASE op = "create"
            <4>1. (\E c \in Calls : Carries(c, op, p)) => PendingIn("create")
                BY <3>2 DEF Carries, For, PendingIn, Mine, Pending
            <4> HIDE DEF y, b
            <4>2. Form(op, p)' = y
                BY <1>5, <2>1, <3>2
            <4> QED BY <2>2, <2>3, <3>1, <4>1, <4>2 DEF FormMove, ClosedForm
        <3>3. CASE op # "create"
            <4> HIDE DEF y, b
            <4>1. Form(op, p)' = Form(op, p)
                BY <1>5, <2>1, <3>3
            <4> QED BY <3>1, <4>1 DEF FormMove, StaysForm
        <3> QED BY <3>2, <3>3
    <2> QED BY <1>1, <2>1, <2>4 DEF Rooms, FormMoves, GateMove, Inside
<1> QED BY <1>4, <1>6, <1>7, <1>8, <1>9 DEF UserAdmin

\* What an announcement does to a dialog: its own is done.
LEMMA AnnouncedForm ==
    \A c \in Calls : \A op \in FormOps : \A p \in People :
        Good /\ calls[c] # None =>
            LET y == FormIn(Announced(calls[c]), op, p)
            IN  IF For(calls[c], op, p)
                THEN /\ y.open = Form(op, p).open /\ y.password = Form(op, p).password
                     /\ y.email = Form(op, p).email /\ y.lapsed = Form(op, p).lapsed
                ELSE y = Form(op, p)
<1> TAKE c \in Calls
<1> TAKE op \in FormOps
<1> TAKE p \in People
<1> HAVE Good /\ calls[c] # None
<1> DEFINE call == calls[c]
           y == FormIn(Announced(call), op, p)
<1>1. DOMAIN ui = UiFields /\ ui.create \in DialogType /\ ui.resets \in [People -> DialogType]
    BY DEF Good, Base, Shape, UiShape, Types, DialogsTyped
<1>2. CASE call.op = "reset"
    <2> DEFINE row == [ui.resets[call.at] EXCEPT !.done = TRUE]
               rows == [ui.resets EXCEPT ![call.at] = row]
    <2>1. call.at \in People
        BY <1>2 DEF Good, Types, CallsTyped, MayAsk
    <2>2. /\ row.open = ui.resets[call.at].open /\ row.password = ui.resets[call.at].password
          /\ row.email = ui.resets[call.at].email /\ row.lapsed = ui.resets[call.at].lapsed
        BY <1>1, <2>1 DEF DialogType
    <2>3. Announced(call) = [ui EXCEPT !.resets = rows]
        BY <1>2 DEF Announced
    <2> HIDE DEF row
    <2>4. rows[p] = IF p = call.at THEN row ELSE ui.resets[p]
        BY <1>1, <2>1
    <2> HIDE DEF rows
    <2>5. Announced(call).create = ui.create /\ Announced(call).resets = rows
        BY <1>1, <2>3 DEF UiFields
    <2> QED BY <1>2, <2>2, <2>4, <2>5 DEF For, Form, FormIn, FormOps
<1>3. CASE call.op = "create"
    <2> DEFINE row == [ui.create EXCEPT !.done = TRUE]
    <2>1. /\ row.open = ui.create.open /\ row.password = ui.create.password
          /\ row.email = ui.create.email /\ row.lapsed = ui.create.lapsed
        BY <1>1 DEF DialogType
    <2>2. Announced(call) = [ui EXCEPT !.create = row]
        BY <1>3 DEF Announced
    <2> HIDE DEF row
    <2>3. Announced(call).create = row /\ Announced(call).resets = ui.resets
        BY <1>1, <2>2 DEF UiFields
    <2> QED BY <1>3, <2>1, <2>3 DEF For, Form, FormIn, FormOps
<1>4. CASE call.op \notin {"reset", "create"}
    <2>1. \/ Announced(call) = ui
          \/ \E r : \/ Announced(call) = [ui EXCEPT !.rotated = r]
                    \/ Announced(call) = [ui EXCEPT !.created = r]
        BY <1>4 DEF Announced
    <2>2. Announced(call).create = ui.create /\ Announced(call).resets = ui.resets
        BY <1>1, <2>1 DEF UiFields
    <2> QED BY <1>4, <2>2 DEF For, Form, FormIn, FormOps
<1> QED BY <1>2, <1>3, <1>4

\* An answer that lands finishes its own dialog, or throws out.
LEMMA LandedRooms == \A c \in Calls : FormInv /\ LandCall(c) => Rooms
<1> TAKE c \in Calls
<1> HAVE FormInv /\ LandCall(c)
<1> DEFINE call == calls[c]
<1>1. Good /\ call # None /\ GoOn /\ UNCHANGED <<loading, signing>>
    BY LandedWords, WordsGoOn DEF FormInv, LandCall
<1>2. CASE Leaves(call)
    <2>1. ui' = FreshUi /\ user' = None
        BY <1>2 DEF LandCall, ShowOver
    <2>2. NoPageCalls'
        <3> DEFINE stays == ~Leaves(call)
        <3>1. calls' = [d \in Calls |-> IF d = c \/ calls[d] = None THEN None
                                      ELSE [calls[d] EXCEPT !.mine = @ /\ stays]]
            BY DEF LandCall
        <3>2. ASSUME NEW d \in Calls, calls'[d] # None PROVE ~calls'[d].mine
            <4> DEFINE b == calls[d].mine /\ stays
            <4>1. calls[d] # None /\ calls'[d] = [calls[d] EXCEPT !.mine = b]
                BY <3>1, <3>2
            <4>2. ~b
                BY <1>2
            <4> HIDE DEF b
            <4> QED BY <1>1, <4>1, <4>2 DEF Good, Base, Shape, CallsShape, CallFields
        <3> QED BY <3>2 DEF NoPageCalls
    <2> QED BY <1>1, <2>1, <2>2, FreshForms DEF Rooms, GateMove, ThrownOut
<1>3. CASE ~Leaves(call)
    <2>1. user' = user /\ ui' = IF Announces(call) THEN Announced(call) ELSE ui
        BY <1>3 DEF LandCall, ShowOver
    <2>2. ASSUME NEW op \in FormOps, NEW p \in People PROVE FormMove(op, p)
        <3>1. KeepsAsking(op, p)
            BY <1>1, GoOnKeepsAsking
        <3>2. CASE Announces(call) /\ For(call, op, p)
            <4>1. Carries(c, op, p) /\ calls[c].answer = "ok"
                BY <1>1, <3>2 DEF Carries, Announces
            <4>2. Form(op, p)' = FormIn(Announced(call), op, p)
                BY <2>1, <3>2 DEF Form, FormIn
            <4>3. /\ Form(op, p)'.open = Form(op, p).open
                  /\ Form(op, p)'.password = Form(op, p).password
                  /\ Form(op, p)'.email = Form(op, p).email
                  /\ Form(op, p)'.lapsed = Form(op, p).lapsed
                BY <1>1, <3>2, <4>2, AnnouncedForm
            <4> QED BY <3>1, <4>1, <4>3 DEF FormMove, DoneForm
        <3>3. CASE ~(Announces(call) /\ For(call, op, p))
            <4>1. Form(op, p)' = Form(op, p)
                <5>1. CASE Announces(call)
                    <6>1. Form(op, p)' = FormIn(Announced(call), op, p)
                        BY <2>1, <5>1 DEF Form, FormIn
                    <6> QED BY <1>1, <3>3, <5>1, <6>1, AnnouncedForm
                <5>2. CASE ~Announces(call)
                    BY <2>1, <5>2 DEF Form, FormIn
                <5> QED BY <5>1, <5>2
            <4> QED BY <3>1, <4>1 DEF FormMove, StaysForm
        <3> QED BY <3>2, <3>3
    <2> QED BY <1>1, <2>1, <2>2 DEF Rooms, FormMoves, GateMove, Inside
<1> QED BY <1>2, <1>3

\* An answer goes on with the request it answers.
LEMMA RepliedGoOn ==
    \A c \in Calls : \A a, v, w : Good /\ Answers(c, a) /\ Reply(c, a, v, w) => GoOn
BY Replied DEF Good, Base, Shape, CallsKeep, GoOn

\* The server and the network move a dialog by the answer that lands.
LEMMA ServerRooms == FormInv /\ Server => Rooms
<1> SUFFICES ASSUME FormInv, Server PROVE Rooms
    OBVIOUS
<1> USE DEF BrowserRest, gateVars, viewVars
<1>1. Good
    BY DEF FormInv
<1>2. CASE \E c \in Calls : LandCall(c)
    BY <1>2, LandedRooms
<1>3. CASE ~\E c \in Calls : LandCall(c)
    <2>1. UNCHANGED <<ui, loading, user, signing>>
        BY <1>3 DEF Server, TurnAway, LoseCall, ServeUpdate, AnswerUpdate, ServeCreateUser,
                    ServeReset, TakeLock, CheckGuard, CommitUpdate, AbortUpdate, ServePlane,
                    LookForSnapshot, InsertSnapshot, ServeLogout
    <2>2. PICK c \in Calls :
              \/ TurnAway(c) \/ LoseCall(c) \/ ServeUpdate(c) \/ AnswerUpdate(c)
              \/ ServeCreateUser(c) \/ ServeReset(c) \/ TakeLock(c) \/ CheckGuard(c)
              \/ CommitUpdate(c) \/ AbortUpdate(c) \/ ServePlane(c) \/ LookForSnapshot(c)
              \/ InsertSnapshot(c) \/ ServeLogout(c)
        BY <1>3 DEF Server
    <2>3. GoOn
        <3>1. CASE LoseCall(c)
            BY <1>1, <3>1, LostWords, WordsGoOn
        <3>2. CASE TakeLock(c) \/ CheckGuard(c) \/ CommitUpdate(c) \/ AbortUpdate(c)
            BY <1>1, <3>2, SameGoOn DEF TakeLock, CheckGuard, CommitUpdate, AbortUpdate
        <3>3. CASE \/ TurnAway(c) \/ ServeUpdate(c) \/ AnswerUpdate(c) \/ ServeCreateUser(c)
                   \/ ServeReset(c) \/ ServePlane(c) \/ ServeLogout(c)
            <4>1. calls[c] # None
                BY <3>3 DEF TurnAway, ServeUpdate, AnswerUpdate, ServeCreateUser, ServeReset,
                            ServePlane, ServeLogout, Arrived
            <4>2. \E a \in {"failed", "expired", "under way", "ok"} : \E v, w : Reply(c, a, v, w)
                <5>1. CASE TurnAway(c) \/ ServeUpdate(c) \/ AnswerUpdate(c) \/ ServeLogout(c)
                    BY <5>1 DEF TurnAway, ServeUpdate, AnswerUpdate, ServeLogout
                <5>2. CASE ServeCreateUser(c) \/ ServeReset(c)
                    BY <5>2 DEF ServeCreateUser, ServeReset
                <5>3. CASE ServePlane(c)
                    BY <5>3 DEF ServePlane
                <5> QED BY <3>3, <5>1, <5>2, <5>3
            <4> QED BY <1>1, <4>1, <4>2, RepliedGoOn DEF Answers
        <3>4. CASE LookForSnapshot(c) \/ InsertSnapshot(c)
            <4>1. calls[c] # None /\ calls[c].op = "compose"
                BY <1>1, <3>4 DEF LookForSnapshot, InsertSnapshot, Arrived,
                         Good, Base, Shape, CallsShape
            <4>2. \E a \in {"ok", "looked"} : \E v, w : Reply(c, a, v, w)
                BY <3>4 DEF LookForSnapshot, InsertSnapshot
            <4> QED BY <1>1, <4>1, <4>2, RepliedGoOn DEF Answers
        <3> QED BY <2>2, <3>1, <3>2, <3>3, <3>4
    <2> QED BY <1>1, <2>1, <2>3, PlainRooms
<1> QED BY <1>2, <1>3

\* Every step moves each dialog, and the gate, in one of these ways.
LEMMA NextRooms == FormInv /\ [Next]_vars => Rooms
<1> SUFFICES ASSUME FormInv, [Next]_vars PROVE Rooms
    OBVIOUS
<1>1. CASE UNCHANGED vars
    BY <1>1, SameGoOn, PlainRooms DEF vars, gateVars, viewVars, mineVars, FormInv
<1> QED BY <1>1, CacheRooms, ServerRooms, GateRooms, UserAdminRooms, PlaneRooms, BrowseRooms,
           ElsewhereRooms DEF Next

\* A password that a dialog shows as set was set, for the person it names, unless
\* the dialog was closed or its email edited while the request was under way, whatever
\* other admins, losses and refusals come between (users.tsx, create_user and
\* set_user_password).
THEOREM PasswordsShownWork == Spec => []PasswordShownWorks
<1>1. Init => FormInv
    <2> SUFFICES ASSUME Init PROVE FormInv
        OBVIOUS
    <2>1. AllSecure
        BY DEF Init, AllSecure, Secure, Carries, Form, FormIn, FormOps, FreshUi, FreshRows, Dialog
    <2>2. GateKeeps
        BY DEF Init, GateKeeps, NoPageCalls
    <2> QED BY <2>1, <2>2, InitGood DEF FormInv
<1>2. FormInv /\ [Next]_vars => FormInv'
    <2> SUFFICES ASSUME FormInv, [Next]_vars PROVE FormInv'
        OBVIOUS
    <2>1. Good /\ Rooms /\ accepted \subseteq accepted'
        BY NextRooms, NextAccounts DEF FormInv, Accounts, Grown
    <2>2. AllSecure'
        BY <2>1, FormStep DEF FormInv, AllSecure, Rooms, FormMoves
    <2>3. GateKeeps'
        BY <2>1, GateStep DEF FormInv, Rooms
    <2> QED BY <2>1, <2>2, <2>3, NextGood DEF FormInv
<1>3. FormInv => PasswordShownWorks
    <2> SUFFICES ASSUME FormInv PROVE PasswordShownWorks
        OBVIOUS
    <2>1. \A p \in People : Secure("reset", p) /\ Secure("create", p)
        BY DEF FormInv, AllSecure, FormOps
    <2>2. People # {}
        BY RosterAssumption
    <2> QED BY <2>1, <2>2 DEF PasswordShownWorks, Secure, Form, FormIn, Whose
<1> QED BY <1>1, <1>2, <1>3, PTL DEF Spec

----------------------------------------------------------------------------
\* A set of natural numbers has a least element, and one below a bound a greatest.
LEMMA HasLeast ==
    ASSUME NEW S \in SUBSET Nat, S # {}
    PROVE  \E x \in S : \A y \in S : x <= y
<1>1. PICK x \in S : \A y \in S : <<y, x>> \notin OpToRel(<, Nat)
  BY NatLessThanWellFounded, WFMin
<1>2. \A y \in S : ~(y < x)
  BY <1>1 DEF OpToRel
<1> QED
  BY <1>2

\* A bounded set of natural numbers has a greatest element.
LEMMA HasGreatest ==
    ASSUME NEW n \in Nat, NEW S \in SUBSET Nat, S # {}, \A x \in S : x <= n
    PROVE  \E x \in S : \A y \in S : y <= x
<1> DEFINE T == {n - x : x \in S}
<1>1. \A x \in S : n - x \in Nat
  OBVIOUS
<1>2. T \in SUBSET Nat /\ T # {}
  BY <1>1
<1>3. PICK t \in T : \A u \in T : t <= u
  <2> HIDE DEF T
  <2> QED
    BY <1>2, HasLeast
<1>4. PICK x \in S : t = n - x
  OBVIOUS
<1>5. \A y \in S : n - y \in T
  OBVIOUS
<1>6. \A y \in S : y <= x
  <2> HIDE DEF T
  <2> QED
    BY <1>3, <1>4, <1>5
<1> QED
  BY <1>6

\* What has fewer than k above it comes before the rest, and is k if anything is left.
LEMMA TopPart ==
    ASSUME NEW n \in Nat, NEW R \in SUBSET Nat, \A x \in R : x <= n, NEW k \in Nat \ {0}
    PROVE  LET top == {i \in R : Cardinality({j \in R : j > i}) < k}
           IN  /\ \A i \in R \ top, j \in top : i < j
               /\ R # top => Cardinality(top) = k
<1> DEFINE Above(i) == {j \in R : j > i}
           top == {i \in R : Cardinality(Above(i)) < k}
<1>1. IsFiniteSet(R)
  BY FS_BoundedSetOfNaturals
<1>2. ASSUME NEW i \in R
      PROVE  /\ Above(i) \in SUBSET R /\ IsFiniteSet(Above(i))
             /\ Cardinality(Above(i)) \in Nat
             /\ i \in top <=> Cardinality(Above(i)) < k
  <2>1. Above(i) \in SUBSET R
    OBVIOUS
  <2>2. IsFiniteSet(Above(i))
    BY <1>1, <2>1, FS_Subset
  <2> HIDE DEF Above
  <2> QED
    BY <2>1, <2>2, FS_CardinalityType
<1>3. \A i \in R : \A j \in R : j \in Above(i) <=> j > i
  OBVIOUS
<1>4. top \in SUBSET R
  OBVIOUS
<1>5. IsFiniteSet(top) /\ Cardinality(top) \in Nat
  <2>1. IsFiniteSet(top)
    <3> HIDE DEF top
    <3> QED
      BY <1>1, <1>4, FS_Subset
  <2> HIDE DEF top
  <2> QED
    BY <2>1, FS_CardinalityType
<1> HIDE DEF Above, top
<1>6. ASSUME NEW i \in R, NEW j \in R, i \notin top, j \in top
      PROVE  i < j
  <2> SUFFICES ASSUME j <= i
               PROVE  FALSE
    OBVIOUS
  <2>1. ASSUME NEW x \in R, x \in Above(i)
        PROVE  x \in Above(j)
    BY <1>3, <2>1
  <2>2. Above(i) \in SUBSET Above(j)
    BY <1>2, <2>1
  <2>3. Cardinality(Above(i)) <= Cardinality(Above(j))
    BY <1>2, <2>2, FS_Subset
  <2> QED
    BY <1>2, <1>6, <2>3
<1>7. ASSUME R # top
      PROVE  Cardinality(top) = k
  <2>1. R \ top # {} /\ R \ top \in SUBSET Nat /\ \A x \in R \ top : x <= n
    BY <1>4, <1>7
  <2>2. PICK i \in R \ top : \A y \in R \ top : y <= i
    BY <2>1, HasGreatest
  <2>3. Above(i) = top
    <3>1. ASSUME NEW x \in R
          PROVE  x \in Above(i) <=> x \in top
      BY <1>3, <1>6, <2>2, <3>1
    <3> QED
      BY <1>2, <1>4, <3>1
  <2>4. Cardinality(top) >= k
    BY <1>2, <2>3
  <2>5. top # {} /\ top \in SUBSET Nat
    BY <1>4, <2>4, FS_EmptySet
  <2>6. PICK j \in top : \A y \in top : j <= y
    BY <2>5, HasLeast
  <2>7. j \in R
    BY <1>4
  <2>8. Above(j) = top \ {j}
    <3>1. ASSUME NEW x \in R
          PROVE  x \in Above(j) <=> x \in top /\ x # j
      <4>1. CASE x \in top
        BY <1>3, <2>6, <2>7, <4>1
      <4>2. CASE x \notin top
        BY <1>3, <1>6, <2>7, <4>2
      <4> QED
        BY <4>1, <4>2
    <3> QED
      BY <1>2, <1>4, <2>7, <3>1
  <2>9. Cardinality(Above(j)) = Cardinality(top) - 1
    BY <1>5, <2>8, FS_RemoveElement
  <2> QED
    BY <1>2, <1>5, <2>4, <2>7, <2>9
<1> QED
  BY <1>4, <1>6, <1>7 DEF top, Above

----------------------------------------------------------------------------
(* The pages of the notification browser, among the rows there were. *)

\* A page has every row below its cursor that was there when it was read, down to
\* the next page if there is one.
PageFits(c, d) ==
    /\ d.there \subseteq Rows /\ d.next \in Nat
    /\ \A n \in d.there : d.next <= n /\ (c = 0 \/ n < c) => n \in d.items

\* The pages passed have every row from the cursor up that was there for each of them.
PassedFits(c, passed, there) ==
    /\ c \in Nat /\ there \subseteq Rows
    /\ c # 0 => \A n \in there : c <= n => n \in passed

\* The page a query gets from the server fits the rows there are.
LEMMA PageBelowFits ==
    \A f : \A c \in Nat : srv \in PlaneType => PageFits(c, PageBelow(f, c))
<1> TAKE f
<1> TAKE c \in Nat
<1> HAVE srv \in PlaneType
<1> DEFINE rest == {n \in RowsOf(f) : c = 0 \/ n < c}
           items == {n \in rest : Cardinality({m \in rest : m > n}) < PageSize}
           next == IF Cardinality(items) = PageSize THEN Min(items) ELSE 0
<1>1. RowsOf(f) \subseteq Rows
    BY DEF RowsOf, PlaneType
<1>2. /\ PageBelow(f, c).items = items /\ PageBelow(f, c).next = next
      /\ PageBelow(f, c).there = RowsOf(f)
    BY DEF PageBelow
<1>3. /\ rest \in SUBSET Nat /\ (\A n \in rest : n <= MaxRows)
      /\ MaxRows \in Nat /\ PageSize \in Nat \ {0}
    BY <1>1, ConsoleAssumption DEF Rows
<1>4. /\ \A i \in rest \ items, j \in items : i < j
      /\ rest # items => Cardinality(items) = PageSize
    <2> HIDE DEF rest
    <2> QED BY <1>3, TopPart
<1>5. items \subseteq rest
    OBVIOUS
<1>6. \A n : n \in rest <=> n \in RowsOf(f) /\ (c = 0 \/ n < c)
    OBVIOUS
<1> HIDE DEF rest, items
<1>7. ASSUME Cardinality(items) = PageSize
      PROVE  next \in items /\ \A m \in items : next <= m
    <2>1. items # {} /\ items \in SUBSET Nat
        BY <1>3, <1>5, <1>7, FS_EmptySet
    <2>2. \E x \in items : \A y \in items : x <= y
        BY <2>1, HasLeast
    <2> QED BY <1>7, <2>2 DEF Min
<1>8. next \in Nat
    BY <1>3, <1>5, <1>7
<1>9. ASSUME NEW n \in RowsOf(f), next <= n, c = 0 \/ n < c PROVE n \in items
    <2>1. n \in rest
        BY <1>6, <1>9
    <2>2. CASE Cardinality(items) = PageSize
        <3>1. next \in items /\ n \in Nat /\ next \in Nat
            BY <1>3, <1>7, <1>8, <2>1, <2>2
        <3> HIDE DEF next
        <3> QED BY <1>4, <1>9, <2>1, <3>1
    <2>3. CASE Cardinality(items) # PageSize
        BY <1>4, <2>1, <2>3
    <2> QED BY <2>2, <2>3
<1> HIDE DEF next
<1> QED BY <1>1, <1>2, <1>8, <1>9 DEF PageFits

\* The next page is asked for, and this one is passed.
LEMMA PassesPage ==
    \A c, passed, there, d :
        PassedFits(c, passed, there) /\ PageFits(c, d) =>
            PassedFits(d.next, passed \cup d.items, there \cap d.there)
<1> TAKE c, passed, there, d
<1> HAVE PassedFits(c, passed, there) /\ PageFits(c, d)
<1>1. ASSUME NEW n \in there \cap d.there, d.next <= n PROVE n \in passed \cup d.items
    <2>1. n \in Nat /\ c \in Nat
        BY ConsoleAssumption DEF PassedFits, Rows
    <2>2. CASE c = 0 \/ n < c
        BY <1>1, <2>2 DEF PageFits
    <2>3. CASE c # 0 /\ c <= n
        BY <2>3 DEF PassedFits
    <2> QED BY <2>1, <2>2, <2>3
<1> QED BY <1>1 DEF PassedFits, PageFits

----------------------------------------------------------------------------
\* The queries of the notification browser, by filter and cursor.
IsListing(k) == k[1] = "notifications"

\* What is listed, or about to be, is a page below its cursor.
EntryFits(k, e) ==
    /\ k[3] \in Nat
    /\ e.data # None => PageFits(k[3], e.data)
    /\ e.fetch.answer = "ok" => PageFits(k[3], e.fetch.data)

PagesFit == \A k \in DOMAIN cache : IsListing(k) => EntryFits(k, cache[k])

\* What has been passed fits the cursor of the list on the page.
UiFits ==
    /\ DOMAIN ui.applied = {"filter", "cursor"}
    /\ PassedFits(ui.applied.cursor, ui.passed, ui.there)

\* The inductive invariant.
ListInv == Good /\ page \in Pages /\ PagesFit /\ UiFits

(* What a step does to the filter, the cursor and what has been passed. *)

\* Nothing.
StaysListed == ui'.applied = ui.applied /\ ui'.passed = ui.passed /\ ui'.there = ui.there

\* The list starts at its top.
ListsAnew ==
    /\ DOMAIN ui'.applied = {"filter", "cursor"}
    /\ ui'.applied.cursor = 0 /\ ui'.there = Rows

\* The next page is asked for, below what is listed.
PassesOn ==
    /\ Shown(Listed)
    /\ ui'.applied = Following(cache[Listed].data.next)
    /\ ui'.passed = ui.passed \cup cache[Listed].data.items
    /\ ui'.there = ui.there \cap cache[Listed].data.there

\* Every step does one of these to the list.
ListMove == StaysListed \/ ListsAnew \/ PassesOn

\* A page that opens starts its list anew.
LEMMA FreshLists == ui' \in {ui, FreshUi} => ListMove
<1>1. FreshUi.applied = [filter |-> "all", cursor |-> 0] /\ FreshUi.there = Rows
    BY DEF FreshUi
<1> QED BY <1>1 DEF ListMove, StaysListed, ListsAnew

\* react-query leaves the list alone.
LEMMA CacheLists == Base /\ Cache => ListMove
<1> SUFFICES ASSUME Base, Cache PROVE ListMove
    OBVIOUS
<1>1. ui' \in {FreshUi, ui, [ui EXCEPT !.resets = FreshRows]}
    <2>1. ASSUME NEW k \in DOMAIN cache, LandQuery(k)
          PROVE  ui' \in {FreshUi, ui, [ui EXCEPT !.resets = FreshRows]}
        BY <2>1 DEF LandQuery, ShowOver
    <2>2. ASSUME NEW k \in DOMAIN cache, ServeQuery(k) \/ FailQuery(k) \/ Expire(k)
          PROVE  ui' = ui
        BY <2>2 DEF ServeQuery, FailQuery, Expire
    <2> QED BY <2>1, <2>2 DEF Cache
<1>2. CASE ui' = [ui EXCEPT !.resets = FreshRows]
    BY <1>2 DEF Base, Shape, UiShape, UiFields, ListMove, StaysListed
<1> QED BY <1>1, <1>2, FreshLists

\* Browsing the list passes a page, or starts anew.
LEMMA BrowseLists == Base /\ Browse => ListMove
<1> SUFFICES ASSUME Base, Browse PROVE ListMove
    OBVIOUS
<1>1. DOMAIN ui = UiFields
    BY DEF Base, Shape, UiShape
<1>2. \A x : Turn(x) => ui' = x
    BY DEF Turn, Show, ShowOver
<1>3. CASE Reconnect \/ \E pg \in Pages : Go(pg)
    <2>1. ui' \in {ui, FreshUi}
        BY <1>3 DEF Reconnect, Go, Show, ShowOver
    <2> QED BY <2>1, FreshLists
<1>4. CASE ApplyFilter \/ ResetFilter
    <2>1. \E f : \/ ui' = [ui EXCEPT !.applied = [filter |-> f, cursor |-> 0], !.passed = {},
                                     !.there = Rows]
                 \/ ui' = [ui EXCEPT !.draft = "all",
                                     !.applied = [filter |-> f, cursor |-> 0], !.passed = {},
                                     !.there = Rows]
        BY <1>2, <1>4 DEF ApplyFilter, ResetFilter
    <2>2. PICK f : ui'.applied = [filter |-> f, cursor |-> 0] /\ ui'.there = Rows
        BY <1>1, <2>1 DEF UiFields
    <2> QED BY <2>2 DEF ListMove, ListsAnew
<1>5. CASE LoadMore
    <2>1. /\ Shown(Listed)
          /\ Turn([ui EXCEPT !.applied = Following(cache[Listed].data.next),
                             !.passed = @ \cup cache[Listed].data.items,
                             !.there = @ \cap cache[Listed].data.there])
        BY <1>5 DEF LoadMore
    <2> DEFINE next == Following(cache[Listed].data.next)
               all == ui.passed \cup cache[Listed].data.items
               were == ui.there \cap cache[Listed].data.there
    <2>2. ui' = [ui EXCEPT !.applied = next, !.passed = all, !.there = were]
        BY <1>2, <2>1
    <2> HIDE DEF next, all, were
    <2>3. ui'.applied = next /\ ui'.passed = all /\ ui'.there = were
        BY <1>1, <2>2 DEF UiFields
    <2> QED BY <2>1, <2>3 DEF ListMove, PassesOn, next, all, were
<1>6. CASE \/ CloseTimeline \/ \E f \in Filters : EditFilter(f)
           \/ \E n \in Rows : OpenTimeline(n)
           \/ \E id \in Lookups : LookUp(id)
    <2>1. \E a : \/ ui' = [ui EXCEPT !.draft = a]
                 \/ ui' = [ui EXCEPT !.open = a]
                 \/ ui' = [ui EXCEPT !.query = a]
        BY <1>2, <1>6 DEF CloseTimeline, EditFilter, OpenTimeline, LookUp
    <2>2. StaysListed
        BY <1>1, <2>1 DEF UiFields, StaysListed
    <2> QED BY <2>2 DEF ListMove
<1> QED BY <1>3, <1>4, <1>5, <1>6 DEF Browse

\* The users table leaves the list alone.
LEMMA UserAdminLists == Base /\ UserAdmin => ListMove
<1> SUFFICES ASSUME Base, UserAdmin PROVE ListMove
    OBVIOUS
<1>1. \/ ui' = ui
      \/ \E x : ui' = [ui EXCEPT !.create = x]
      \/ \E d, x : ui' = [ui EXCEPT !.resets[d] = x]
    BY DEF UserAdmin, ChangeRole, ToggleDisabled, DeleteUser, OpenDialog, CloseDialog,
           EditEmail, SubmitDialog, Click, WithDialog, viewVars
<1>2. StaysListed
    BY <1>1 DEF Base, Shape, UiShape, UiFields, StaysListed
<1> QED BY <1>2 DEF ListMove

\* The server and the network leave the list alone, but for a 401.
LEMMA ServerLists == Base /\ Server => ListMove
<1> SUFFICES ASSUME Base, Server PROVE ListMove
    OBVIOUS
<1>1. ASSUME NEW c \in Calls, LandCall(c) PROVE ListMove
    <2>1. ui' \in {FreshUi, ui, Announced(calls[c])}
        BY <1>1 DEF LandCall, ShowOver
    <2>2. \/ Announced(calls[c]) = ui
          \/ \E r : \/ Announced(calls[c]) = [ui EXCEPT !.resets = r]
                   \/ Announced(calls[c]) = [ui EXCEPT !.create = r]
                   \/ Announced(calls[c]) = [ui EXCEPT !.rotated = r]
                   \/ Announced(calls[c]) = [ui EXCEPT !.created = r]
        BY DEF Announced
    <2>3. ui' = Announced(calls[c]) => StaysListed
        BY <2>2 DEF Base, Shape, UiShape, UiFields, StaysListed
    <2> QED BY <2>1, <2>3, FreshLists DEF ListMove
<1>2. CASE ~\E c \in Calls : LandCall(c)
    <2>1. ui' = ui
        BY <1>2 DEF Server, TurnAway, LoseCall, ServeUpdate, AnswerUpdate, ServeCreateUser,
                    ServeReset, TakeLock, CheckGuard, CommitUpdate, AbortUpdate, ServePlane,
                    LookForSnapshot, InsertSnapshot, ServeLogout, BrowserRest, viewVars
    <2> QED BY <2>1, FreshLists
<1> QED BY <1>1, <1>2

\* Every step leaves the list alone, starts it anew or passes a page.
LEMMA NextLists == Base /\ [Next]_vars => ListMove
<1> SUFFICES ASSUME Base, [Next]_vars PROVE ListMove
    OBVIOUS
<1>1. CASE UNCHANGED vars
    BY <1>1, FreshLists DEF vars, viewVars
<1>2. CASE Gate
    <2>1. ui' \in {ui, FreshUi}
        BY <1>2 DEF Gate, LoadMe, Reload, SignOut, SignIn, ServeLogin, LandLogin, Show, ShowOver,
                    viewVars
    <2> QED BY <2>1, FreshLists
<1>3. CASE Elsewhere
    <2>1. ui' = ui
        BY <1>3 DEF Elsewhere, OtherIsAnswered, OtherUpdates, OtherSetsPassword, SessionEnds,
               OtherSignsIn, OtherRevokes, JobIsParked, OtherRotates, NotificationArrives,
               OtherComposes, ElsewhereRest, viewVars
    <2> QED BY <2>1, FreshLists
<1>4. CASE Plane
    BY <1>4, PlaneKeepsForms DEF ListMove, StaysListed
<1> QED BY <1>1, <1>2, <1>3, <1>4, CacheLists, BrowseLists, UserAdminLists, ServerLists DEF Next

----------------------------------------------------------------------------
\* The listing on the page is that of the filter and the cursor.
LEMMA ActiveListing ==
    \A u, x : \A pg \in Pages : \A k \in ActiveOf(u, pg, x) :
        IsListing(k) => k = Listing(x.applied)
<1> TAKE u, x
<1> TAKE pg \in Pages
<1> TAKE k \in ActiveOf(u, pg, x)
<1> HAVE IsListing(k)
<1>1. k \notin {Envs, Detail, Keys, Dlq, Users}
    BY DEF IsListing, Envs, Detail, Keys, Dlq, Users
<1>2. \A n : k # Timeline(n) /\ k # Lookup(n)
    BY DEF IsListing, Timeline, Lookup
<1>3. k \in {Envs, Dlq, Users} \cup DetailPage(u, x) \cup ListPage(x) \cup LookupPage(x)
    <2> HIDE DEF DetailPage, ListPage, LookupPage
    <2> QED BY DEF ActiveOf, Pages, Dashboard
<1> QED BY <1>1, <1>2, <1>3 DEF DetailPage, ListPage, LookupPage

\* The browser shows a page of the console.
LEMMA NextPage == page \in Pages /\ [Next]_vars => page' \in Pages
<1> SUFFICES ASSUME page \in Pages, [Next]_vars PROVE page' \in Pages
    OBVIOUS
<1> USE DEF viewVars
<1>1. CASE UNCHANGED vars
    BY <1>1 DEF vars
<1>2. CASE Cache
    BY <1>2 DEF Cache, ServeQuery, FailQuery, LandQuery, Expire, ShowOver
<1>3. CASE Gate
    BY <1>3 DEF Gate, LoadMe, Reload, SignOut, SignIn, ServeLogin, LandLogin, Show, ShowOver
<1>4. CASE UserAdmin
    BY <1>4 DEF UserAdmin, ChangeRole, ToggleDisabled, DeleteUser, OpenDialog, CloseDialog,
                EditEmail, SubmitDialog, Click
<1>5. CASE Plane
    BY <1>5 DEF Plane, CreateEnvironment, CreateKey, CloseKey, RotateSecret, CompleteRotation,
                Install, ReplayAll, Compose, RevokeKey, SwitchTab, ReplayOne, TypeKey, Click,
                Show, ShowOver
<1>6. CASE Browse
    BY <1>6 DEF Browse, ApplyFilter, ResetFilter, LoadMore, CloseTimeline, EditFilter,
                OpenTimeline, LookUp, Turn, Go, Reconnect, Show, ShowOver
<1>7. CASE Elsewhere
    BY <1>7 DEF Elsewhere, OtherIsAnswered, OtherUpdates, OtherSetsPassword, SessionEnds,
                OtherSignsIn, OtherRevokes, JobIsParked, OtherRotates, NotificationArrives,
                OtherComposes, ElsewhereRest
<1>8. CASE Server
    BY <1>8 DEF Server, TurnAway, LoseCall, LandCall, ServeUpdate, AnswerUpdate,
                ServeCreateUser, ServeReset, TakeLock, CheckGuard, CommitUpdate, AbortUpdate,
                ServePlane, LookForSnapshot, InsertSnapshot, ServeLogout, BrowserRest, ShowOver
<1> QED BY <1>1, <1>2, <1>3, <1>4, <1>5, <1>6, <1>7, <1>8 DEF Next

\* The parts of the key of the list that is shown.
LEMMA ListingParts == \A a : /\ IsListing(Listing(a))
                             /\ Listing(a)[2] = a.filter /\ Listing(a)[3] = a.cursor
BY DEF IsListing, Listing

\* The page that is shown fits the cursor.
LEMMA ShownFits ==
    PagesFit /\ ActiveThere /\ Shown(Listed) => PageFits(ui.applied.cursor, cache[Listed].data)
BY ListingParts DEF PagesFit, ActiveThere, Shown, Listed, EntryFits

\* Every step keeps what has been passed complete.
LEMMA NextUiFits == ListInv /\ ListMove => UiFits'
<1> SUFFICES ASSUME ListInv, ListMove PROVE UiFits'
    OBVIOUS
<1>1. CASE StaysListed
    BY <1>1 DEF StaysListed, ListInv, UiFits, PassedFits
<1>2. CASE ListsAnew
    BY <1>2 DEF ListsAnew, UiFits, PassedFits
<1>3. CASE PassesOn
    <2> DEFINE d == cache[Listed].data
    <2>1. /\ ui'.applied.cursor = d.next /\ DOMAIN ui'.applied = {"filter", "cursor"}
          /\ ui'.passed = ui.passed \cup d.items /\ ui'.there = ui.there \cap d.there
        BY <1>3 DEF PassesOn, Following, ListInv, UiFits
    <2>2. PageFits(ui.applied.cursor, d)
        BY <1>3, ShownFits DEF PassesOn, ListInv, Good, Base
    <2>3. PassedFits(d.next, ui.passed \cup d.items, ui.there \cap d.there)
        BY <2>2, PassesPage DEF ListInv, UiFits
    <2> QED BY <2>1, <2>3 DEF UiFits
<1> QED BY <1>1, <1>2, <1>3 DEF ListMove

\* Every step keeps the cached pages what the rows made of them.
LEMMA NextPagesFit ==
    ListInv /\ View /\ UiFits' /\ page' \in Pages => PagesFit'
<1> SUFFICES ASSUME ListInv, View, UiFits', page' \in Pages,
                    NEW k \in DOMAIN cache', IsListing(k)
             PROVE  EntryFits(k, cache'[k])
    BY DEF PagesFit, IsListing, EntryFits
<1> DEFINE e == Before(k)
           d == cache'[k]
<1>1. ASSUME k[3] \in Nat PROVE \A s : PageFits(k[3], Answered(k, s))
    <2> TAKE s
    <2>1. k \notin {Envs, Detail, Keys, Dlq, Users} /\ k[1] = "notifications"
        BY DEF IsListing, Envs, Detail, Keys, Dlq, Users
    <2> DEFINE list == PageBelow(k[2], k[3])
    <2>2. PageFits(k[3], list)
        BY <1>1, PageBelowFits DEF ListInv, Good, Base, Shape
    <2> HIDE DEF list
    <2>3. Answered(k, s) = list
        BY <2>1, SMTT(20) DEF Answered, list
    <2> QED BY <2>2, <2>3
<1>2. CASE k \in DOMAIN cache
    <2>1. EntryFits(k, e)
        BY <1>2 DEF ListInv, PagesFit, Before
    <2>2. EntryMove(k, e, d)
        BY DEF View
    <2>3. \A s : PageFits(k[3], Answered(k, s))
        BY <1>1, <2>1 DEF EntryFits
    <2> HIDE DEF e, d
    <2>4. /\ d.data # None => PageFits(k[3], d.data)
          /\ d.fetch.answer = "ok" => PageFits(k[3], d.fetch.data)
        BY <2>1, <2>2, <2>3
           DEF EntryFits, EntryMove, KeptEntry, StaleEntry, AskedEntry, MarkedEntry, ServedEntry,
               FailedEntry, LandedEntry, DroppedEntry, SameData, AtRest
    <2> QED BY <2>1, <2>4 DEF EntryFits, d
<1>3. CASE k \notin DOMAIN cache
    <2>1. k \in Active' /\ Active' = ActiveOf(user', page', ui')
        BY <1>3 DEF View, Active
    <2>2. k = Listing(ui'.applied)
        BY <2>1, ActiveListing
    <2>3. k[3] \in Nat
        BY <2>2, ListingParts DEF UiFits, PassedFits
    <2>4. e.data = None /\ AtRest(e) /\ EntryMove(k, e, d)
        BY <1>3, EmptyShape DEF View, Before
    <2>5. \A s : PageFits(k[3], Answered(k, s))
        BY <1>1, <2>3
    <2> HIDE DEF e, d
    <2>6. d.data = None /\ (d.fetch.answer = "ok" => PageFits(k[3], d.fetch.data))
        BY <2>4, <2>5
           DEF EntryMove, KeptEntry, StaleEntry, AskedEntry, MarkedEntry, ServedEntry,
               FailedEntry, LandedEntry, DroppedEntry, SameData, AtRest
    <2> QED BY <2>3, <2>6 DEF EntryFits, d
<1> QED BY <1>2, <1>3

\* Who has loaded every page has passed every notification of the filter that was
\* there when each page was read, whatever comes between two pages, above or below,
\* and however old a page from the cache is (notifications.tsx, the keyset of
\* list_notifications).
THEOREM PagesCover == Spec => []PagesCoverList
<1>1. Init => ListInv
    <2> SUFFICES ASSUME Init PROVE ListInv
        OBVIOUS
    <2>1. page \in Pages
        BY DEF Init
    <2>2. PagesFit
        BY DEF Init, PagesFit, NoCache
    <2>3. UiFits
        <3>1. ui.applied = [filter |-> "all", cursor |-> 0] /\ ui.there = Rows
            BY DEF Init, FreshUi
        <3> QED BY <3>1 DEF UiFits, PassedFits
    <2> QED BY <2>1, <2>2, <2>3, InitGood DEF ListInv
<1>2. ListInv /\ [Next]_vars => ListInv'
    <2> SUFFICES ASSUME ListInv, [Next]_vars PROVE ListInv'
        OBVIOUS
    <2>1. Good' /\ View /\ page' \in Pages /\ ListMove
        BY NextGood, NextMoves, NextPage, NextLists DEF ListInv, Good
    <2>2. UiFits'
        BY <2>1, NextUiFits
    <2> QED BY <2>1, <2>2, NextPagesFit DEF ListInv
<1>3. ListInv => PagesCoverList
    <2> SUFFICES ASSUME ListInv, Shown(Listed), cache[Listed].data.next = 0,
                        NEW n \in ui.there \cap cache[Listed].data.there
                 PROVE  n \in ui.passed \cup cache[Listed].data.items
        BY DEF PagesCoverList
    <2> DEFINE d == cache[Listed].data
    <2>1. PageFits(ui.applied.cursor, d)
        BY ShownFits DEF ListInv, Good, Base
    <2>2. PassedFits(ui.applied.cursor, ui.passed, ui.there)
        BY DEF ListInv, UiFits
    <2>3. n \in Nat /\ ui.applied.cursor \in Nat
        BY <2>2, ConsoleAssumption DEF PassedFits, Rows
    <2>4. CASE ui.applied.cursor = 0 \/ n < ui.applied.cursor
        BY <2>1, <2>3, <2>4 DEF PageFits
    <2>5. CASE ui.applied.cursor # 0 /\ ui.applied.cursor <= n
        BY <2>2, <2>5 DEF PassedFits
    <2> QED BY <2>3, <2>4, <2>5
<1> QED BY <1>1, <1>2, <1>3, PTL DEF Spec

\* What a page says is done, set or listed is so (the console's pages; admin.rs).
THEOREM ConsoleTruth == Spec => []ConsoleTellsTruth
<1>1. OwnWorkShown /\ PasswordShownWorks /\ PagesCoverList => ConsoleTellsTruth
    BY DEF ConsoleTellsTruth
<1> QED BY <1>1, OwnWorkIsShown, PasswordsShownWork, PagesCover, PTL
=============================================================================
