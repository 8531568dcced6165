---------------------------- MODULE AdminConsole ----------------------------
(***************************************************************************)
(* The admin single-page application (server/admin/src) over the admin     *)
(* plane of the server: the session gate, the pages, their dialogs, and    *)
(* the query cache (react-query, configured in main.tsx).                  *)
(*                                                                         *)
(* A query and a call are answered in two steps, what the server does and  *)
(* the landing in the browser; between them the user goes on, another      *)
(* admin acts, a session ends, or the answer is lost.  One environment is  *)
(* looked into.  Expanding, copying, masking, the theme and the dialogs    *)
(* that ask for a confirmation keep no state that anything here reads.     *)
(* A member of `Budgets' bounds, kind by kind, what happens in a behaviour. *)
(***************************************************************************)
EXTENDS AdminRoster, Naturals, FiniteSets, FiniteSetsExt, Sequences

CONSTANTS
    AtConsole,      \* who signs in at this browser
    Emails,         \* whose addresses are typed into the new-user dialog
    MaxPassword, MaxKeys, MaxRows, PageSize,
    Category,       \* the category of a notification, by its place
    Letters,        \* the jobs that may be parked
    Offered,        \* the roles that are given
    Known,          \* the subscribers that exist
    Lookups,        \* the ids that are looked up
    Budgets

Kinds == {"session", "nav", "users", "dialogs", "keys", "plane", "list", \* mine
          "admins", "rotates", "revokes", "parks", "arrives", "composes",  \* others'
          "lost", "failed", "broken", "ended", "time",                     \* nobody's
          "boots"}                                   \* of AdminBoot, beside the console

Pages == {"dashboard", "environments", "environment", "notifications", "broadcasts",
          "subscribers", "dlq", "users"}

\* The places of notifications in the order of (visible_at, id), the newest last.
Rows == 1..MaxRows

Filters == {"all"} \cup {Category[n] : n \in Rows}

ASSUME ConsoleAssumption ==
    /\ AtConsole \subseteq People /\ Emails \subseteq People
    /\ MaxPassword \in Nat /\ Passwords = 0..MaxPassword /\ FirstPassword = 0
    /\ MaxKeys \in Nat /\ MaxRows \in Nat \ {0} /\ PageSize \in Nat \ {0}
    /\ Category \in [Rows -> STRING]
    /\ Offered \subseteq Roles /\ Known \subseteq Lookups
    /\ Budgets \subseteq [Kinds -> Nat]

VARIABLES
    srv,            \* the environments, the one's HMAC slots and API keys, the dead
                    \* letters, the notifications there are, the broadcasts
    ver,            \* how often what a query reads has changed
    loading, user,  \* AuthGate: the first /me is under way; who is signed in, as what
    signing,        \* the login under way
    cookie,         \* the session cookie
    page, ui,       \* the route, and the local state of its components
    cache,          \* the query cache
    calls,          \* the mutations under way
    drawn,          \* how many passwords have been generated
    backend,        \* the secret with which the customer's backend signs
    own,            \* history: the version of the last change of mine I was told of
    accepted,       \* history: the passwords that were set, and whose
    doubled,        \* history: a rotation was begun during the overlap of another
    crossed,        \* history: a rotation was completed that the page did not show, or
                    \* announced when another had replaced its secret
    left            \* what is left of the budget

planeVars == <<srv, ver, accepted, doubled, crossed>>
serverVars == <<rosterVars, planeVars>>
gateVars == <<loading, user, signing, cookie>>
viewVars == <<page, ui, cache>>
mineVars == <<calls, drawn, backend, own>>
vars == <<serverVars, gateVars, viewVars, mineVars, left>>

Spend(kind) == left[kind] > 0 /\ left' = [left EXCEPT ![kind] = @ - 1]

----------------------------------------------------------------------------
(* Roles *)

CanRead == {"read"}
CanOperate == CanRead \cup {"dlq:replay", "broadcast:compose"}
CanDevelop == CanRead \cup {"apikey:read", "apikey:manage", "env:read_secret"}

Capabilities == [viewer |-> CanRead, operator |-> CanOperate, developer |-> CanDevelop,
                 admin |-> CanOperate \cup CanDevelop \cup
                               {"env:create", "hmac:rotate", "user:manage"}]

\* What the UI gates on: the role as it was at sign-in.
CanDo(u, cap) == u # None /\ cap \in Capabilities[u.role]

Has(cap) == CanDo(user, cap)

\* AdminAuth::require.
Permitted(s, cap) == Live(s) /\ cap \in Capabilities[roster[sessions[s].who].role]

----------------------------------------------------------------------------
(* Queries *)

Envs == <<"environments">>
Detail == <<"environment">>
Keys == <<"api-keys">>
Dlq == <<"dlq">>
Users == <<"admin-users">>
Listing(applied) == <<"notifications", applied.filter, applied.cursor>>
Timeline(n) == <<"timeline", n>>
Lookup(id) == <<"subscriber", id>>

Versioned == {Envs, Detail, Keys, Dlq, Users}

Queries == Versioned \cup {Listing([filter |-> f, cursor |-> n]) :
                              f \in Filters, n \in 0..MaxRows}
                     \cup {Timeline(n) : n \in Rows} \cup {Lookup(id) : id \in Lookups}

\* The queries of the pages' components.
Dashboard == {Envs, Dlq}

DetailPage(u, x) ==
    {Detail} \cup {k \in {Keys} : x.tab = "keys" /\ CanDo(u, "apikey:read")}

ListPage(x) == {Listing(x.applied)} \cup {Timeline(n) : n \in {x.open} \ {0}}

LookupPage(x) == IF x.query = None THEN {} ELSE {Lookup(x.query)}

ActiveOf(u, pg, x) ==
    IF u = None THEN {}
    ELSE CASE pg = "dashboard"     -> Dashboard
           [] pg = "environments"  -> {Envs}
           [] pg = "environment"   -> DetailPage(u, x)
           [] pg = "notifications" -> ListPage(x)
           [] pg = "broadcasts"    -> {}
           [] pg = "subscribers"   -> LookupPage(x)
           [] pg = "dlq"           -> {Dlq}
           [] pg = "users"         -> IF CanDo(u, "user:manage") THEN {Users} ELSE {}

Active == ActiveOf(user, page, ui)

\* No request, and a query without data.
Idle == [cookie |-> None, again |-> FALSE, raced |-> FALSE, answer |-> "none", data |-> None,
         ver |-> 0]

Empty == [data |-> None, ver |-> 0, stale |-> FALSE, error |-> FALSE, raced |-> FALSE,
          fetch |-> Idle]

AtRest(entry) == entry.fetch.answer = "none"

NoCache == [k \in {} |-> Empty]

\* A request, with the cookie of its time; the first failure is retried, except
\* in the subscriber lookup.
Asked(k) ==
    [Idle EXCEPT !.cookie = cookie', !.again = (k[1] # "subscriber"), !.answer = "sent"]

Fetching(entry, k) == [entry EXCEPT !.fetch = Asked(k), !.error = @ /\ entry.data # None]

\* Components that appear fetch what is not there or not fresh.
Mounted(c, appearing) ==
    [k \in DOMAIN c \cup appearing |->
        LET entry == IF k \in DOMAIN c THEN c[k] ELSE Empty
        IN  IF k \in appearing /\ AtRest(entry) /\ (entry.data = None \/ entry.stale)
            THEN Fetching(entry, k) ELSE entry]

\* invalidateQueries: what is shown is fetched anew, in place of a fetch under
\* way unless that is the first; what is not shown is marked, and a fetch under
\* way will take the mark away.
Invalidated(keys) ==
    [k \in DOMAIN cache |->
        LET entry == cache[k]
        IN  IF k \notin keys THEN entry
            ELSE IF k \in Active /\ (AtRest(entry) \/ entry.data # None)
            THEN Fetching([entry EXCEPT !.stale = TRUE], k)
            ELSE [entry EXCEPT !.stale = TRUE,
                     !.fetch.raced = ~AtRest(entry)]]

\* What a query shows: data without an error (states.tsx Async).
Shown(k) == k \in Active /\ cache[k].data # None /\ ~cache[k].error

Needs(k) ==
    CASE k = Users -> "user:manage" [] k = Keys -> "apikey:read" [] OTHER -> "read"

\* list_notifications: a page below the cursor, newest first, scheduled rows among
\* them; and, as history, what was there of the filter when it was read.
RowsOf(filter) == {n \in srv.rows : filter = "all" \/ Category[n] = filter}

PageBelow(filter, cursor) ==
    LET rest  == {n \in RowsOf(filter) : cursor = 0 \/ n < cursor}
        items == {n \in rest : Cardinality({m \in rest : m > n}) < PageSize}
    IN  [items |-> items,
         next  |-> IF Cardinality(items) = PageSize THEN Min(items) ELSE 0,
         there |-> RowsOf(filter)]

\* get_environment leaves the secret out for some roles: 0.
DetailFor(s) ==
    [current  |-> IF Permitted(s, "env:read_secret") THEN srv.hmac.current ELSE 0,
     previous |-> srv.hmac.previous # 0]

UserList == [p \in {q \in People : Is(q)} |-> <<roster[p].role, roster[p].disabled>>]

Answered(k, s) ==
    CASE k = Envs   -> srv.envs
      [] k = Detail -> DetailFor(s)
      [] k = Keys   -> srv.keys
      [] k = Dlq    -> srv.letters
      [] k = Users  -> UserList
      [] k[1] = "notifications" -> PageBelow(k[2], k[3])
      [] OTHER      -> k[2]

Exists(k) == k[1] = "subscriber" => k[2] \in Known

\* The server answers the query.
ServeQuery(k) ==
    /\ cache[k].fetch.answer = "sent"
    /\ LET f == cache[k].fetch
       IN  cache' = [cache EXCEPT ![k].fetch =
               IF ~Live(f.cookie) THEN [f EXCEPT !.answer = "expired"]
               ELSE IF ~Permitted(f.cookie, Needs(k)) \/ ~Exists(k)
               THEN [f EXCEPT !.answer = "failed"]
               ELSE [f EXCEPT !.answer = "ok", !.data = Answered(k, f.cookie),
                              !.ver = IF k \in Versioned THEN ver[k] ELSE 0]]
    /\ UNCHANGED <<serverVars, gateVars, page, ui, mineVars, left>>

FailQuery(k) ==
    /\ cache[k].fetch.answer \in {"sent", "ok"}
    /\ Spend("failed")
    /\ cache' = [cache EXCEPT ![k].fetch.answer = "failed"]
    /\ UNCHANGED <<serverVars, gateVars, page, ui, mineVars>>

----------------------------------------------------------------------------
(* The local state of the pages *)

\* A dialog with a password, and the email of a new user; as history, that what
\* it shows is no longer what its request has taken along.
Dialog == [open |-> FALSE, email |-> None, password |-> 0, done |-> FALSE, lapsed |-> FALSE]

FreshRows == [p \in People |-> Dialog]

FreshUi ==
    [tab |-> "keys", rotated |-> 0, created |-> 0, key |-> "", draft |-> "all",
     applied |-> [filter |-> "all", cursor |-> 0], passed |-> {}, there |-> Rows,
     open |-> 0, query |-> None, create |-> Dialog, resets |-> FreshRows]

Unmount(ops) ==
    calls' = [c \in Calls |->
        IF calls[c] # None /\ calls[c].op \in ops THEN [calls[c] EXCEPT !.mine = FALSE]
        ELSE calls[c]]

PageOps == Ops \cup {"create", "reset", "env", "rotate", "complete", "key", "revoke",
                     "replay", "replay-all", "compose"}
RowOps == Ops \cup {"reset"}
HmacOps == {"rotate", "complete"}

\* What is signed in, the route and the components' state change; queries that
\* appear are mounted.
ShowOver(c, u, pg, x) ==
    /\ user' = u /\ page' = pg /\ ui' = x
    /\ cache' = Mounted(c, ActiveOf(u, pg, x) \ Active)

Show(u, pg, x) == ShowOver(cache, u, pg, x)

\* The event of a 401 drops the user, and the pages with it.
DroppedBy(answer) == answer = "expired" /\ user # None

\* The rows of the users table are gone while their query shows an error.
LandQuery(k) ==
    /\ cache[k].fetch.answer \in {"ok", "failed", "expired"}
    /\ UNCHANGED cookie
    /\ LET f == cache[k].fetch
           entry == cache[k]
           dropped == DroppedBy(f.answer)
           u == IF dropped THEN None ELSE user
           retried == f.again /\ k \in Active /\ ~dropped
           landed ==
               IF f.answer = "ok"
               THEN [Empty EXCEPT !.data = f.data, !.ver = f.ver, !.raced = f.raced]
               ELSE IF retried
               THEN [entry EXCEPT !.fetch = [Asked(k) EXCEPT !.again = FALSE,
                                                             !.raced = f.raced]]
               ELSE [entry EXCEPT !.fetch = Idle, !.error = TRUE]
           rowsGone == k = Users /\ Users \in Active /\ landed.error
       IN  /\ ShowOver([cache EXCEPT ![k] = landed], u, page,
                       IF dropped THEN FreshUi
                       ELSE IF rowsGone THEN [ui EXCEPT !.resets = FreshRows] ELSE ui)
           /\ Unmount(IF dropped THEN PageOps ELSE IF rowsGone THEN RowOps ELSE {})
    /\ UNCHANGED <<serverVars, loading, signing, drawn, backend, own, left>>

\* staleTime is over.
Expire(k) ==
    /\ cache[k].data # None /\ ~cache[k].stale
    /\ Spend("time")
    /\ cache' = [cache EXCEPT ![k].stale = TRUE]
    /\ UNCHANGED <<serverVars, gateVars, page, ui, mineVars>>

\* The browser is online again: what is shown and not fresh is fetched.
Reconnect ==
    /\ Spend("time")
    /\ UNCHANGED gateVars
    /\ cache' = Mounted(cache, Active) /\ cache' # cache
    /\ UNCHANGED <<serverVars, page, ui, mineVars>>

----------------------------------------------------------------------------
(* AuthGate and login *)

\* The first /me: any failure shows the login screen.
LoadMe ==
    /\ loading /\ loading' = FALSE
    /\ UNCHANGED <<serverVars, signing, cookie, mineVars>>
    /\ \/ /\ Live(cookie) /\ UNCHANGED left
          /\ LET who == sessions[cookie].who
             IN  Show([who |-> who, role |-> roster[who].role], page, FreshUi)
       \/ /\ ~Live(cookie) /\ UNCHANGED <<user, viewVars, left>>
       \/ /\ Spend("failed") /\ UNCHANGED <<user, viewVars>>

\* The page is loaded again; nothing it has begun is under way.
Reload ==
    /\ Spend("session") /\ ~loading /\ signing = None /\ \A c \in Calls : calls[c] = None
    /\ loading' = TRUE /\ user' = None /\ ui' = FreshUi
    /\ cache' = NoCache
    /\ UNCHANGED <<serverVars, signing, cookie, page, mineVars>>

\* Any row will do.
FreeSession ==
    LET free == {s \in Sessions : sessions[s] = None /\ logins[s] = None}
    IN  IF free = {} THEN None ELSE CHOOSE s \in free : TRUE

SignIn(s, p) ==
    /\ Spend("session") /\ ~loading /\ user = None /\ signing = None
    /\ p \in AtConsole /\ s = FreeSession /\ LoginRead(s, p)
    /\ signing' = [session |-> s, who |-> p, role |-> roster[p].role, answer |-> "sent"]
    /\ UNCHANGED <<planeVars, loading, user, cookie, viewVars, mineVars>>

\* create_session, for my login or another's.
ServeLogin(s) ==
    /\ LoginInsert(s)
    /\ signing' = IF signing # None /\ signing.session = s
                  THEN [signing EXCEPT !.answer =
                            IF sessions'[s] = None THEN "failed" ELSE "ok"]
                  ELSE signing
    /\ UNCHANGED <<planeVars, loading, user, cookie, viewVars, mineVars, left>>

\* onAuthenticated(me), or the error under the form.
LandLogin ==
    /\ signing # None /\ signing.answer # "sent"
    /\ signing' = None
    /\ IF signing.answer = "ok"
       THEN /\ cookie' = signing.session
            /\ Show([who |-> signing.who, role |-> signing.role], page, FreshUi)
       ELSE UNCHANGED <<cookie, user, viewVars>>
    /\ UNCHANGED <<serverVars, loading, mineVars, left>>

----------------------------------------------------------------------------
(* Mutations: sent, served, landed *)

Pending(ops) == {c \in Calls : calls[c] # None /\ calls[c].mine /\ calls[c].op \in ops}

Mine(op) == Pending({op}) # {}

MineOn(ops, at) == \E c \in Pending(ops) : calls[c].at = at

FreeCalls == {c \in Calls : calls[c] = None /\ tx[c] = None}

Send(op, at, arg) ==
    /\ user # None /\ FreeCalls # {}
    /\ calls' = [calls EXCEPT ![CHOOSE c \in FreeCalls : TRUE] =
           [op |-> op, at |-> at, arg |-> arg, session |-> cookie, mine |-> TRUE,
            answer |-> "sent", value |-> 0, ver |-> 0]]

Click(kind, op, at, arg) ==
    /\ Spend(kind) /\ Send(op, at, arg)
    /\ UNCHANGED <<serverVars, gateVars, viewVars, drawn, backend, own>>

NeedsToDo == [op \in PageOps \cup {"logout"} |->
    CASE op \in RowOps \cup {"create"}   -> "user:manage"
      [] op = "env"                      -> "env:create"
      [] op \in HmacOps                  -> "hmac:rotate"
      [] op \in {"key", "revoke"}        -> "apikey:manage"
      [] op \in {"replay", "replay-all"} -> "dlq:replay"
      [] op = "compose"                  -> "broadcast:compose"
      [] OTHER                           -> "read"]

\* One's own password is anyone's to set.
MayDo(call) ==
    \/ Permitted(call.session, NeedsToDo[call.op])
    \/ call.op = "reset" /\ Live(call.session) /\ sessions[call.session].who = call.at

Arrived(c, ops) ==
    calls[c] # None /\ calls[c].answer = "sent" /\ calls[c].op \in ops /\ MayDo(calls[c])

Reply(c, answer, value, version) ==
    calls' = [calls EXCEPT ![c].answer = answer, ![c].value = value, ![c].ver = version]

\* The rest of what the server's answer leaves alone.
BrowserRest == <<gateVars, viewVars, drawn, backend, own>>

Bump(k) == ver' = [ver EXCEPT ![k] = @ + 1]

\* 401 without a live session, 403 without the capability.
TurnAway(c) ==
    /\ calls[c] # None /\ calls[c].answer = "sent" /\ ~MayDo(calls[c])
    /\ Reply(c, IF Live(calls[c].session) THEN "failed" ELSE "expired", 0, 0)
    /\ UNCHANGED <<serverVars, BrowserRest, left>>

\* The request, or its answer, is lost.
LoseCall(c) ==
    /\ calls[c] # None /\ calls[c].answer \in {"sent", "ok"}
    /\ Spend("lost")
    /\ calls' = [calls EXCEPT ![c].answer = "failed"]
    /\ UNCHANGED <<serverVars, BrowserRest>>

\* What a success makes a mutation invalidate.
Affects(op) ==
    CASE op \in Ops \cup {"create"}      -> {Users}
      [] op = "env"                      -> {Envs}
      [] op \in HmacOps                  -> {Detail}
      [] op \in {"key", "revoke"}        -> {Keys}
      [] op \in {"replay", "replay-all"} -> {Dlq}
      [] OTHER                           -> {}

\* Mutant: the role select trusts a failure.
InvalidatesOnSuccess(call) == call.answer = "ok"

\* A failed role change fetches the list as well: the select must not show what
\* was chosen.
Invalidates(call) == call.answer = "ok" \/ call.op = "role"

Announces(call) == call.mine /\ call.answer = "ok"

\* onSuccess on the local state; it runs with the closure of the last render.
Announced(call) ==
    CASE call.op = "reset"    -> [ui EXCEPT !.resets[call.at].done = TRUE]
      [] call.op = "create"   -> [ui EXCEPT !.create.done = TRUE]
      [] call.op = "rotate"   -> [ui EXCEPT !.rotated = call.value]
      [] call.op = "complete" -> [ui EXCEPT !.rotated = 0]
      [] call.op = "key"      -> [ui EXCEPT !.created = call.value]
      [] OTHER                -> ui

\* logout drops the session view whatever the answer.
Leaves(call) == user # None /\ (call.op = "logout" \/ call.answer = "expired")

LandCall(c) ==
    /\ calls[c] # None /\ calls[c].answer \in {"ok", "failed", "expired"}
    /\ LET call == calls[c]
           told == Affects(call.op)
           after == IF Leaves(call) THEN FreshUi
                    ELSE IF Announces(call) THEN Announced(call) ELSE ui
       IN  /\ cookie' = IF call.op = "logout" /\ call.answer = "ok" THEN None ELSE cookie
           /\ ShowOver(IF Invalidates(call) THEN Invalidated(told) ELSE cache,
                       IF Leaves(call) THEN None ELSE user, page, after)
           /\ own' = [k \in Versioned |->
                  IF k \in told /\ (call.answer = "ok" \/ call.op = "role")
                  THEN Max({own[k], call.ver}) ELSE own[k]]
           /\ calls' = [d \in Calls |->
                  IF d = c \/ calls[d] = None THEN None
                  ELSE [calls[d] EXCEPT !.mine = @ /\ ~Leaves(call)]]
           /\ crossed' = (crossed \/ (/\ Announces(call) /\ call.op = "rotate"
                                      /\ call.value # srv.hmac.current))
    /\ UNCHANGED <<rosterVars, srv, ver, accepted, doubled, loading, signing, drawn, backend,
                   left>>

----------------------------------------------------------------------------
(* users.tsx *)

UserRow(p) == page = "users" /\ Shown(Users) /\ p \in DOMAIN cache[Users].data

RoleShown(p) == cache[Users].data[p][1]
DisabledShown(p) == cache[Users].data[p][2]

\* The select of a row, the button that disables or enables, and the delete
\* dialog; one's own row offers neither of the last two.
ChangeRole(p, to) ==
    /\ UserRow(p) /\ to # RoleShown(p) /\ ~MineOn({"role"}, p)
    /\ Click("users", "role", p, to)

ToggleDisabled(p) ==
    /\ UserRow(p) /\ p # user.who /\ ~MineOn({"enable", "disable"}, p)
    /\ Click("users", IF DisabledShown(p) THEN "enable" ELSE "disable", p, RoleShown(p))

DeleteUser(p) ==
    /\ UserRow(p) /\ p # user.who /\ ~MineOn({"delete"}, p)
    /\ Click("users", "delete", p, RoleShown(p))

\* The dialogs of a new user and of a row's password reset.
Dialogs ==
    IF page # "users" \/ ~Has("user:manage") THEN {}
    ELSE {"create"} \cup (IF Shown(Users) THEN DOMAIN cache[Users].data ELSE {})

DialogAt(d) == IF d = "create" THEN ui.create ELSE ui.resets[d]

WithDialog(d, x) ==
    IF d = "create" THEN [ui EXCEPT !.create = x] ELSE [ui EXCEPT !.resets[d] = x]

AnyOpen == ui.create.open \/ \E p \in People : ui.resets[p].open

PendingIn(d) == IF d = "create" THEN Mine("create") ELSE MineOn({"reset"}, d)

\* A generated password is seen when the dialog opens.
OpenDialog(d) ==
    /\ d \in Dialogs /\ ~AnyOpen
    /\ Spend("dialogs")
    /\ LET x == DialogAt(d)
           fresh == x.password = 0
       IN  /\ fresh => drawn < MaxPassword
           /\ drawn' = IF fresh THEN drawn + 1 ELSE drawn
           /\ ui' = WithDialog(d, [x EXCEPT !.open = TRUE,
                                            !.password = IF fresh THEN drawn + 1 ELSE @])
    /\ UNCHANGED <<serverVars, gateVars, page, cache, calls, backend, own>>

\* Closing generates another password.
CloseDialog(d) ==
    /\ d \in Dialogs /\ DialogAt(d).open
    /\ ui' = WithDialog(d, [Dialog EXCEPT !.lapsed = PendingIn(d)])
    /\ UNCHANGED <<serverVars, gateVars, page, cache, mineVars, left>>

\* The email field stays enabled while the request is under way.
EditEmail(email) ==
    /\ "create" \in Dialogs /\ ui.create.open /\ ~ui.create.done /\ email # ui.create.email
    /\ ui' = WithDialog("create", [ui.create EXCEPT !.email = email,
                                                   !.lapsed = @ \/ PendingIn("create")])
    /\ UNCHANGED <<serverVars, gateVars, page, cache, mineVars, left>>

SubmitDialog(d, role) ==
    /\ d \in Dialogs /\ DialogAt(d).open /\ ~DialogAt(d).done /\ ~PendingIn(d)
    /\ Spend("dialogs")
    /\ IF d = "create"
       THEN ui.create.email # None
            /\ Send("create", ui.create.email, <<role, ui.create.password>>)
       ELSE role = "viewer" /\ Send("reset", d, <<role, ui.resets[d].password>>)
    /\ ui' = WithDialog(d, [DialogAt(d) EXCEPT !.lapsed = FALSE])
    /\ UNCHANGED <<serverVars, gateVars, page, cache, drawn, backend, own>>

\* update_user, delete_user: the transaction begins.
ServeUpdate(c) ==
    /\ Arrived(c, Ops)
    /\ Begin(c, calls[c].op, sessions[calls[c].session].who, calls[c].at, calls[c].arg)
    /\ Reply(c, "under way", 0, 0)
    /\ UNCHANGED <<planeVars, BrowserRest, left>>

AnswerUpdate(c) ==
    /\ calls[c] # None /\ calls[c].answer = "under way"
    /\ Answer(c)
    /\ IF tx[c].phase = "done" THEN Reply(c, "ok", 0, ver[Users])
       ELSE Reply(c, "failed", 0, 0)
    /\ UNCHANGED <<planeVars, BrowserRest, left>>

TakeLock(c) == Lock(c) /\ UNCHANGED <<planeVars, BrowserRest, calls, left>>

CheckGuard(c) ==
    Guard(c) /\ UNCHANGED <<planeVars, BrowserRest, calls, left>>

CommitUpdate(c) ==
    /\ Commit(c) /\ Bump(Users)
    /\ UNCHANGED <<srv, accepted, doubled, crossed, BrowserRest, calls, left>>

AbortUpdate(c) ==
    /\ Abort(c) /\ Spend("broken")
    /\ UNCHANGED <<planeVars, BrowserRest, calls>>

\* 409 for an email in use; an account that is gone does not come back.
ServeCreateUser(c) ==
    /\ Arrived(c, {"create"})
    /\ LET role == calls[c].arg[1]
           password == calls[c].arg[2]
       IN  IF roster[calls[c].at] = None
           THEN /\ CreateUser(calls[c].at, role, password) /\ Bump(Users)
                /\ accepted' = accepted \cup {<<calls[c].at, password>>}
                /\ Reply(c, "ok", 0, ver[Users] + 1)
           ELSE /\ Reply(c, "failed", 0, 0)
                /\ UNCHANGED <<rosterVars, ver, accepted>>
    /\ UNCHANGED <<srv, doubled, crossed, BrowserRest, left>>

ServeReset(c) ==
    /\ Arrived(c, {"reset"})
    /\ IF Is(calls[c].at)
       THEN /\ SetPassword(calls[c].at, calls[c].arg[2])
            /\ accepted' = accepted \cup {<<calls[c].at, calls[c].arg[2]>>}
            /\ Reply(c, "ok", 0, 0)
       ELSE /\ Reply(c, "failed", 0, 0)
            /\ UNCHANGED <<rosterVars, accepted>>
    /\ UNCHANGED <<srv, ver, doubled, crossed, BrowserRest, left>>

----------------------------------------------------------------------------
(* The plane of environments, and the dead letters *)

\* Mutant: one slot.
RotateInPlace(hmac) == [hmac EXCEPT !.made = @ + 1, !.current = hmac.made + 1]

\* rotate_hmac.
Rotate(hmac) ==
    [current |-> hmac.made + 1, previous |-> hmac.current, made |-> hmac.made + 1]

KeysMade == {n \in 1..MaxKeys : srv.keys[n] # "none"}

Parked(call) == IF call.op = "replay" THEN {call.at} ELSE srv.letters

Applied(call) ==
    CASE call.op = "env"      -> [srv EXCEPT !.envs = @ + 1]
      [] call.op = "rotate"   -> [srv EXCEPT !.hmac = Rotate(@)]
      [] call.op = "complete" -> [srv EXCEPT !.hmac.previous = 0]
      [] call.op = "key"      -> [srv EXCEPT !.keys[Cardinality(KeysMade) + 1] = "active"]
      [] call.op = "revoke"   -> [srv EXCEPT !.keys[call.at] = "revoked"]
      [] OTHER                -> [srv EXCEPT !.letters = @ \ Parked(call)]

PlaneOps == {"env", "rotate", "complete", "key", "revoke", "replay", "replay-all"}

\* One statement each; a job that is parked no longer is not found.
ServePlane(c) ==
    /\ Arrived(c, PlaneOps)
    /\ LET call == calls[c]
           k == CHOOSE q \in Affects(call.op) : TRUE
       IN  IF call.op = "replay" /\ call.at \notin srv.letters
           THEN /\ Reply(c, "failed", 0, 0)
                /\ UNCHANGED <<srv, ver, doubled, crossed>>
           ELSE /\ srv' = Applied(call) /\ Bump(k)
                /\ Reply(c, "ok", CASE call.op = "rotate" -> srv'.hmac.current
                                    [] call.op = "key"    -> Cardinality(KeysMade) + 1
                                    [] OTHER              -> 0,
                         ver[k] + 1)
                /\ doubled' = (doubled \/ (call.op = "rotate" /\ srv.hmac.previous # 0))
                /\ crossed' = (crossed \/
                               (call.op = "complete" /\ srv.hmac.current # call.arg))
    /\ UNCHANGED <<rosterVars, accepted, BrowserRest, left>>

CreateEnvironment ==
    /\ page = "environments" /\ Has("env:create") /\ ~Mine("env")
    /\ Click("plane", "env", 0, 0)

OnTab(tab) == page = "environment" /\ Has("apikey:read") /\ ui.tab = tab

CreateKey ==
    /\ OnTab("keys") /\ ui.created = 0 /\ ~Mine("key")
    /\ Cardinality(KeysMade) + Cardinality({c \in Calls : calls[c] # None}) < MaxKeys
    /\ Click("keys", "key", 0, 0)

\* Done: the key is shown no more.
CloseKey ==
    /\ OnTab("keys") /\ ui.created # 0
    /\ ui' = [ui EXCEPT !.created = 0]
    /\ UNCHANGED <<serverVars, gateVars, page, cache, mineVars, left>>

KeyShown(n) == OnTab("keys") /\ Shown(Keys) /\ cache[Keys].data[n] = "active"

RevokeKey(n) ==
    /\ KeyShown(n) /\ ~MineOn({"revoke"}, n)
    /\ Click("keys", "revoke", n, 0)

HmacShown == OnTab("hmac") /\ Shown(Detail)

RotateSecret == HmacShown /\ ~Mine("rotate") /\ Click("plane", "rotate", 0, 0)

\* The rotation is completed once the backend signs with what is shown.
CompleteRotation ==
    /\ HmacShown /\ ~Mine("complete")
    /\ cache[Detail].data.previous
    /\ backend = cache[Detail].data.current
    /\ Click("plane", "complete", 0, cache[Detail].data.current)

\* The new secret, or the current one, is copied into the backend (auth.mdx).
Install ==
    /\ HmacShown
    /\ LET secret == IF ui.rotated # 0 THEN ui.rotated ELSE cache[Detail].data.current
       IN  secret \notin {0, backend} /\ backend' = secret
    /\ UNCHANGED <<serverVars, gateVars, viewVars, calls, drawn, own, left>>

\* The other tab's components unmount.
SwitchTab(tab) ==
    /\ page = "environment" /\ Has("apikey:read") /\ tab # ui.tab
    /\ Spend("nav")
    /\ UNCHANGED cookie
    /\ Show(user, page, [ui EXCEPT !.tab = tab, !.rotated = 0, !.created = 0])
    /\ Unmount(HmacOps \cup {"key", "revoke"})
    /\ UNCHANGED <<serverVars, loading, signing, drawn, backend, own>>

ReplayOne(l) ==
    /\ page = "dlq" /\ Has("dlq:replay") /\ Shown(Dlq) /\ l \in cache[Dlq].data
    /\ ~Mine("replay")
    /\ Click("plane", "replay", l, 0)

ReplayAll ==
    /\ page = "dlq" /\ Has("dlq:replay") /\ cache[Dlq].data \notin {None, {}}
    /\ ~Mine("replay-all")
    /\ Click("plane", "replay-all", 0, 0)

----------------------------------------------------------------------------
(* Broadcasts *)

TypeKey(key) ==
    /\ page = "broadcasts" /\ Has("broadcast:compose") /\ key # ui.key
    /\ Spend("nav")
    /\ ui' = [ui EXCEPT !.key = key]
    /\ UNCHANGED <<serverVars, gateVars, page, cache, mineVars>>

\* The form keeps its fields after a success.
Compose ==
    /\ page = "broadcasts" /\ Has("broadcast:compose") /\ ~Mine("compose")
    /\ Click("plane", "compose", ui.key, 0)

\* A blank key is generated, and nobody else has it.
Composed(key) == {n \in DOMAIN srv.broadcasts : key # "" /\ srv.broadcasts[n] = key}

\* create_broadcast_idempotent looks for the snapshot first.
LookForSnapshot(c) ==
    /\ Arrived(c, {"compose"})
    /\ IF Composed(calls[c].at) # {} THEN Reply(c, "ok", Min(Composed(calls[c].at)), 0)
       ELSE Reply(c, "looked", 0, 0)
    /\ UNCHANGED <<serverVars, BrowserRest, left>>

\* The row, its hint and the snapshot in a transaction; on a conflict of keys
\* it rolls back.
InsertBroadcast(key) ==
    srv' = IF Composed(key) # {} THEN srv ELSE [srv EXCEPT !.broadcasts = Append(@, key)]

InsertSnapshot(c) ==
    /\ calls[c] # None /\ calls[c].answer = "looked"
    /\ InsertBroadcast(calls[c].at)
    /\ Reply(c, "ok", IF Composed(calls[c].at) # {} THEN Min(Composed(calls[c].at))
                      ELSE Len(srv'.broadcasts), 0)
    /\ UNCHANGED <<rosterVars, ver, accepted, doubled, crossed, BrowserRest, left>>

----------------------------------------------------------------------------
(* The notification browser, the subscriber lookup, the routes *)

\* Local state changes, and queries with it.
Turn(x) ==
    /\ UNCHANGED cookie
    /\ Show(user, page, x)
    /\ UNCHANGED <<serverVars, loading, signing, mineVars>>

EditFilter(f) ==
    /\ page = "notifications" /\ user # None /\ f # ui.draft
    /\ Spend("list")
    /\ Turn([ui EXCEPT !.draft = f])

ApplyFilter ==
    /\ page = "notifications" /\ user # None
    /\ ui.applied # [filter |-> ui.draft, cursor |-> 0]
    /\ Spend("list")
    /\ Turn([ui EXCEPT !.applied = [filter |-> ui.draft, cursor |-> 0], !.passed = {},
                       !.there = Rows])

ResetFilter ==
    /\ page = "notifications" /\ user # None
    /\ Spend("list")
    /\ Turn([ui EXCEPT !.draft = "all", !.applied = [filter |-> "all", cursor |-> 0],
                       !.passed = {}, !.there = Rows])

Listed == Listing(ui.applied)

Following(next) == [ui.applied EXCEPT !.cursor = next]

LoadMore ==
    /\ page = "notifications" /\ Shown(Listed) /\ cache[Listed].data.next # 0
    /\ Spend("list")
    /\ Turn([ui EXCEPT !.applied = Following(cache[Listed].data.next),
                       !.passed = @ \cup cache[Listed].data.items,
                       !.there = @ \cap cache[Listed].data.there])

OpenTimeline(n) ==
    /\ page = "notifications" /\ Shown(Listed) /\ n \in cache[Listed].data.items
    /\ ui.open = 0
    /\ Spend("list")
    /\ Turn([ui EXCEPT !.open = n])

CloseTimeline ==
    /\ ui.open # 0
    /\ UNCHANGED left
    /\ Turn([ui EXCEPT !.open = 0])

LookUp(id) ==
    /\ page = "subscribers" /\ user # None /\ id # ui.query
    /\ Spend("list")
    /\ Turn([ui EXCEPT !.query = id])

\* The links of the layout, of the environments table and of an environment's
\* strip, each behind its capability.
NavLinks ==
    {"dashboard", "environments", "dlq"}
        \cup (IF Has("user:manage") THEN {"users"} ELSE {})

TableLinks == IF page = "environments" /\ Shown(Envs) THEN {"environment"} ELSE {}

EnvLinks ==
    IF page \in {"environment", "notifications", "broadcasts", "subscribers"}
    THEN {"environment", "notifications", "subscribers"}
             \cup (IF Has("broadcast:compose") THEN {"broadcasts"} ELSE {})
    ELSE {}

\* The old page unmounts.
Go(pg) ==
    /\ user # None /\ pg # page /\ pg \in NavLinks \cup TableLinks \cup EnvLinks /\ ~AnyOpen
    /\ Spend("nav")
    /\ UNCHANGED cookie
    /\ Show(user, pg, FreshUi)
    /\ Unmount(PageOps)
    /\ UNCHANGED <<serverVars, loading, signing, drawn, backend, own>>

ServeLogout(c) ==
    /\ Arrived(c, {"logout"})
    /\ EndSession(calls[c].session)
    /\ Reply(c, "ok", 0, 0)
    /\ UNCHANGED <<planeVars, BrowserRest, left>>

SignOut ==
    /\ Spend("session")
    /\ Send("logout", 0, 0)
    /\ UNCHANGED <<serverVars, gateVars, viewVars, drawn, backend, own>>

----------------------------------------------------------------------------
(* The others: admins at other browsers, the producers, the workers, time *)

ElsewhereRest == <<gateVars, viewVars, mineVars>>

OtherUpdates(c, op, by, p, to) ==
    /\ Spend("admins") /\ c \in FreeCalls
    /\ op # "role" => to = "viewer"
    /\ Begin(c, op, by, p, to)
    /\ UNCHANGED <<planeVars, ElsewhereRest>>

OtherIsAnswered(c) ==
    /\ calls[c] = None /\ Answer(c)
    /\ UNCHANGED <<planeVars, ElsewhereRest, left>>

OtherSetsPassword(p) ==
    /\ Spend("admins") /\ drawn < MaxPassword
    /\ SetPassword(p, drawn + 1)
    /\ drawn' = drawn + 1 /\ accepted' = accepted \cup {<<p, drawn + 1>>}
    /\ UNCHANGED <<srv, ver, doubled, crossed, gateVars, viewVars, calls, backend, own>>

OtherSignsIn(s, p) ==
    /\ Spend("admins") /\ s = FreeSession /\ LoginRead(s, p)
    /\ UNCHANGED <<planeVars, ElsewhereRest>>

SessionEnds(s) ==
    /\ Spend("ended") /\ EndSession(s)
    /\ UNCHANGED <<planeVars, ElsewhereRest>>

OtherRotates ==
    /\ Spend("rotates")
    /\ srv' = [srv EXCEPT !.hmac = Rotate(@)] /\ Bump(Detail)
    /\ doubled' = (doubled \/ srv.hmac.previous # 0)
    /\ UNCHANGED <<rosterVars, accepted, crossed, ElsewhereRest>>

OtherRevokes(n) ==
    /\ Spend("revokes") /\ srv.keys[n] = "active"
    /\ srv' = [srv EXCEPT !.keys[n] = "revoked"] /\ Bump(Keys)
    /\ UNCHANGED <<rosterVars, accepted, doubled, crossed, ElsewhereRest>>

JobIsParked(l) ==
    /\ Spend("parks") /\ l \notin srv.letters
    /\ srv' = [srv EXCEPT !.letters = @ \cup {l}] /\ Bump(Dlq)
    /\ UNCHANGED <<rosterVars, accepted, doubled, crossed, ElsewhereRest>>

\* One that is due at once comes below those that are scheduled, and a create
\* that is slow to commit below those that have overtaken it.
NotificationArrives(n) ==
    /\ Spend("arrives") /\ n \notin srv.rows
    /\ srv' = [srv EXCEPT !.rows = @ \cup {n}]
    /\ UNCHANGED <<rosterVars, ver, accepted, doubled, crossed, ElsewhereRest>>

OtherComposes(key) ==
    /\ Spend("composes")
    /\ InsertBroadcast(key)
    /\ UNCHANGED <<rosterVars, ver, accepted, doubled, crossed, ElsewhereRest>>

----------------------------------------------------------------------------
Init ==
    /\ RosterInit
    /\ \E rows \in SUBSET Rows :
           srv = [envs |-> 1, hmac |-> [current |-> 1, previous |-> 0, made |-> 1],
                  keys |-> [n \in 1..MaxKeys |-> IF n = 1 THEN "active" ELSE "none"],
                  letters |-> Letters, rows |-> rows, broadcasts |-> <<>>]
    /\ ver = [k \in Versioned |-> 0]
    /\ loading = TRUE /\ user = None /\ signing = None /\ cookie = None
    /\ page \in Pages /\ ui = FreshUi
    /\ cache = NoCache
    /\ calls = [c \in Calls |-> None]
    /\ drawn = 0 /\ backend = 1
    /\ own = [k \in Versioned |-> 0]
    /\ accepted = {<<p, 0>> : p \in Admins}
    /\ doubled = FALSE /\ crossed = FALSE
    /\ left \in Budgets

Cache ==
    \E k \in DOMAIN cache : ServeQuery(k) \/ FailQuery(k) \/ LandQuery(k) \/ Expire(k)

Server ==
    \E c \in Calls :
        \/ TurnAway(c) \/ LoseCall(c) \/ LandCall(c)
        \/ ServeUpdate(c) \/ AnswerUpdate(c) \/ ServeCreateUser(c) \/ ServeReset(c)
        \/ TakeLock(c) \/ CheckGuard(c) \/ CommitUpdate(c) \/ AbortUpdate(c)
        \/ ServePlane(c) \/ LookForSnapshot(c) \/ InsertSnapshot(c) \/ ServeLogout(c)

Gate ==
    \/ LoadMe \/ Reload \/ LandLogin \/ SignOut
    \/ \E s \in Sessions : ServeLogin(s) \/ \E p \in People : SignIn(s, p)

UserAdmin ==
    \/ \E p \in People : \/ \E to \in Offered : ChangeRole(p, to)
                         \/ ToggleDisabled(p) \/ DeleteUser(p)
    \/ \E d \in Dialogs :
           OpenDialog(d) \/ CloseDialog(d) \/ \E role \in Offered : SubmitDialog(d, role)
    \/ \E email \in Emails : EditEmail(email)

Plane ==
    \/ CreateEnvironment \/ CreateKey \/ CloseKey \/ RotateSecret \/ CompleteRotation
    \/ Install \/ ReplayAll \/ Compose
    \/ \E n \in 1..MaxKeys : RevokeKey(n)
    \/ \E tab \in {"keys", "hmac"} : SwitchTab(tab)
    \/ \E l \in Letters : ReplayOne(l)
    \/ \E key \in {"", "k"} : TypeKey(key)

Browse ==
    \/ ApplyFilter \/ ResetFilter \/ LoadMore \/ CloseTimeline \/ Reconnect
    \/ \E f \in Filters : EditFilter(f)
    \/ \E n \in Rows : OpenTimeline(n)
    \/ \E id \in Lookups : LookUp(id)
    \/ \E pg \in Pages : Go(pg)

Elsewhere ==
    \/ \E c \in Calls : \/ OtherIsAnswered(c)
                        \/ \E op \in Ops, by, p \in People, to \in Offered :
                               OtherUpdates(c, op, by, p, to)
    \/ \E p \in People : OtherSetsPassword(p)
    \/ \E s \in Sessions : SessionEnds(s) \/ \E p \in People : OtherSignsIn(s, p)
    \/ \E n \in 1..MaxKeys : OtherRevokes(n)
    \/ \E l \in Letters : JobIsParked(l)
    \/ \E n \in Rows : NotificationArrives(n)
    \/ OtherRotates \/ OtherComposes("k")

Next == Cache \/ Server \/ Gate \/ UserAdmin \/ Plane \/ Browse \/ Elsewhere

Spec == Init /\ [][Next]_vars

----------------------------------------------------------------------------
(* Properties *)

\* The shape of the state.  Nobody who is not signed in has a query on the page,
\* a dialog or a pending mutation of the page; a call of mine waits for the
\* transaction that carries it out (auth.tsx, users.tsx).
ConsoleTypeOK ==
    /\ RosterTypeOK
    /\ srv.letters \subseteq Letters /\ srv.rows \subseteq Rows
    /\ srv.hmac.previous < srv.hmac.current /\ srv.hmac.current <= srv.hmac.made
    /\ user = None => /\ ui = FreshUi
                      /\ Pending(PageOps) = {}
    /\ user # None => ~loading /\ signing = None
    /\ Active \subseteq DOMAIN cache /\ DOMAIN cache \subseteq Queries
    /\ \A k \in Active : cache[k].data # None \/ cache[k].error \/ ~AtRest(cache[k])
    /\ \A c \in Calls : calls[c] # None /\ calls[c].answer = "under way" => tx[c] # None

\* At rest a page shows what the user has been told is done: a role, a key, a
\* rotation, a replay, a new environment (and a role change that failed: what
\* the server has now).  Excepted is a change whose invalidation met a fetch it
\* could not replace, a first load or that of a page left (invalidateQueries in
\* users.tsx, environment-detail.tsx, environments.tsx, dlq.tsx).
OwnWorkShown ==
    \A k \in Versioned \cap DOMAIN cache :
        Shown(k) /\ AtRest(cache[k]) /\ ~cache[k].raced => cache[k].ver >= own[k]

\* The password a dialog announces as set was set for the person it names, so
\* that it may be passed on.  Excepted is a dialog that is closed while its
\* request is under way, since closing generates another password, and one whose
\* email is edited meanwhile: a success announces the email and the password of
\* the last render (users.tsx, NewUserDialog and ResetPasswordDialog).
PasswordShownWorks ==
    /\ \A p \in People :
           LET x == ui.resets[p]
           IN  x.open /\ x.done /\ ~x.lapsed => <<p, x.password>> \in accepted
    /\ ui.create.open /\ ui.create.done /\ ~ui.create.lapsed =>
           <<ui.create.email, ui.create.password>> \in accepted

\* A backend that takes its secret from the page, and a rotation completed when
\* the page shows that secret, never sign with one that is refused.  What can
\* break it: a rotation begun during the overlap of another, a completion that
\* reaches the server when another rotation has replaced the one shown, and the
\* late answer of a rotation, whose secret the page announces as new after
\* another one (rotate_hmac and complete_hmac_rotation in admin.rs, HmacTab).
BackendKeepsWorking ==
    doubled \/ crossed \/ backend \in {srv.hmac.current, srv.hmac.previous}

\* However a composition is retried or sent twice, an idempotency key makes one
\* broadcast (management.rs create_broadcast_idempotent, broadcasts.tsx).
OneBroadcastPerKey ==
    \A m, n \in DOMAIN srv.broadcasts :
        srv.broadcasts[m] = srv.broadcasts[n] /\ srv.broadcasts[m] # "" => m = n

\* Who has loaded more until there is no more has passed every notification of
\* the filter that was there when each of the pages was read, whatever arrived
\* between two pages, above or below, was edited in the form or was shown from
\* the cache, older than the page before it (list_notifications in admin.rs,
\* notifications.tsx).  What has come below a page already passed is not missed:
\* that it is not shown is the price of the keyset over visible_at.
PagesCoverList ==
    Shown(Listed) /\ page = "notifications" /\ cache[Listed].data.next = 0 =>
        ui.there \cap cache[Listed].data.there
            \subseteq ui.passed \cup cache[Listed].data.items

\* What a page says is done, set or listed is so (the routes of server/admin).
ConsoleTellsTruth == OwnWorkShown /\ PasswordShownWorks /\ PagesCoverList

\* What an admin does twice, in the wrong order or against another admin breaks
\* no backend and sends nothing twice (rotate_hmac, complete_hmac_rotation and
\* create_broadcast behind environment-detail.tsx and broadcasts.tsx).
RetriesAreSafe == BackendKeepsWorking /\ OneBroadcastPerKey
=============================================================================
