----------------------------- MODULE ClientSync -----------------------------
(***************************************************************************)
(* The headless client (packages/client/src/client.ts) against a server    *)
(* whose inbox changes: the stream and its reconnect loop, coalesced       *)
(* conditional refreshes, paging, filter views and optimistic mutations    *)
(* with rollback.                                                          *)
(*                                                                         *)
(* An item is its place in the list, 1 the oldest.  A validator (ETag) is  *)
(* the name of the view it was computed for while the server has not       *)
(* changed since, and Old afterwards.  `MaxChanges', `MaxActs' and         *)
(* `MaxFaults' bound how often the server changes by itself, the user acts *)
(* and a request or a stream fails.                                        *)
(***************************************************************************)
EXTENDS Integers, FiniteSets, FiniteSetsExt

CONSTANTS
    FirstItems,     \* how many items there are to begin with
    MaxItems,       \* the inbox never grows beyond this
    PageSize,
    Views,          \* those the user switches between
    Ops,            \* the mutations of this client
    DeviceOps,      \* those of the subscriber's other devices
    Slots,          \* one per mutation in flight
    MaxAttempts,    \* backoff.maxAttempts
    MaxChanges, MaxActs, MaxFaults,
    None, Old, NotModified

Items == 1..MaxItems

CountsForm == [unread : Nat, unseen : Nat]

PageForm == [items : SUBSET Items, read : SUBSET Items, next : 0..MaxItems]

SnapForm == [items : SUBSET Items, read : SUBSET Items, unread : Nat, unseen : Nat,
             hasMore : BOOLEAN, filter : Views]

RequestForm == [view : Views, sent : Views \cup {None, Old},
                tag : Views \cup {None, Old}, page : PageForm \cup {None, NotModified},
                counts : CountsForm \cup {None}, stale : BOOLEAN]

MoreForm == [view : Views, after : 0..MaxItems, page : PageForm \cup {None},
             stale : BOOLEAN, late : BOOLEAN]

MutationForm == [op : Ops, item : Items, prev : SnapForm, changed : BOOLEAN,
                 counts : CountsForm \cup {None}, late : BOOLEAN]

ASSUME ClientAssumption ==
    /\ MaxItems \in Nat /\ FirstItems \in 0..MaxItems /\ PageSize \in Nat \ {0}
    /\ Views \subseteq {"default", "unread", "archived"} /\ "default" \in Views
    /\ Ops \cup DeviceOps \subseteq {"read", "unread", "archive", "unarchive",
                                     "readAll", "archiveAll", "seenAll"}
    /\ MaxAttempts \in Nat \ {0}
    /\ MaxChanges \in Nat /\ MaxActs \in Nat /\ MaxFaults \in Nat
    /\ {None, Old, NotModified} \cap Views = {}
    /\ None # Old /\ None # NotModified /\ Old # NotModified
    /\ {None, NotModified} \cap PageForm = {}
    /\ None \notin CountsForm /\ None \notin RequestForm
    /\ None \notin MoreForm /\ None \notin MutationForm

VARIABLES
    srv,            \* the server's rows: how many items, read, archived, seen
    unannounced,    \* a change whose hint is not published yet
    source,         \* the EventSource: none, opening, open
    hint,           \* an event on its way down the stream
    timer,          \* the reconnect timer is armed
    status, attempts,
    snap,           \* the store's snapshot: items, read, counts, hasMore, filter
    etag, cursor,   \* cursor: the oldest item fetched, 0 for null
    refreshing, refreshAgain,
    more,           \* the fetchMore in flight
    pending,        \* mutations in flight, with the snapshot to roll back to
    failed,         \* history: the last refresh of this view failed
    adrift,         \* history: the parts of the snapshot that were moved by an
                    \* answer older than the last refresh, or for nothing
    changes, acts, faults   \* how many there have been

streamVars == <<source, hint, timer, status, attempts>>
listVars == <<snap, etag, cursor, failed, adrift>>
vars == <<srv, unannounced, streamVars, listVars, refreshing, refreshAgain, more,
          pending, changes, acts, faults>>


WholeInbox == {"readAll", "archiveAll", "seenAll"}

----------------------------------------------------------------------------
(* The server *)

InView(s, view) ==
    {i \in 1..s.n : /\ i \in s.archived <=> view = "archived"
                    /\ view = "unread" => i \notin s.read}

\* The page below a cursor: at most PageSize items, newest first; a full page
\* carries the cursor of its last item, whether or not anything follows.
Page(s, view, below) ==
    LET rest  == {i \in InView(s, view) : below = 0 \/ i < below}
        items == {i \in rest : Cardinality({j \in rest : j > i}) < PageSize}
    IN  [items |-> items,
         read  |-> items \cap s.read,
         next  |-> IF Cardinality(items) = PageSize THEN Min(items) ELSE 0]

Counts(s) == [unread |-> Cardinality(1..s.n \ (s.read \cup s.archived)),
              unseen |-> s.n - s.seen]

Effect(s, op, i) ==
    CASE op = "read"       -> [s EXCEPT !.read = @ \cup {i}]
      [] op = "unread"     -> [s EXCEPT !.read = @ \ {i}]
      [] op = "archive"    -> [s EXCEPT !.archived = @ \cup {i}]
      [] op = "unarchive"  -> [s EXCEPT !.archived = @ \ {i}]
      [] op = "readAll"    -> [s EXCEPT !.read = 1..s.n]
      [] op = "archiveAll" -> [s EXCEPT !.archived = 1..s.n]
      [] op = "seenAll"    -> [s EXCEPT !.seen = s.n]

Aged(tag) == IF tag \in Views THEN Old ELSE tag

\* A change moves the validator and queues a hint; tags handed out are old.
Change(new) ==
    /\ srv' = new
    /\ unannounced' = TRUE
    /\ etag' = Aged(etag)
    /\ refreshing' = IF refreshing = None THEN None
                     ELSE [refreshing EXCEPT !.sent = Aged(@), !.tag = Aged(@)]

\* An action on one item that has no effect returns early; one on the whole
\* inbox moves its watermark in any case.
Serve(op, i) ==
    IF Effect(srv, op, i) = srv /\ op \notin WholeInbox
    THEN UNCHANGED <<srv, unannounced, etag, refreshing>>
    ELSE Change(Effect(srv, op, i))

Act == acts < MaxActs /\ acts' = acts + 1 /\ UNCHANGED changes

News == changes < MaxChanges /\ changes' = changes + 1 /\ UNCHANGED acts

Fault == faults < MaxFaults /\ faults' = faults + 1

Arrive ==
    /\ News
    /\ srv.n < MaxItems
    /\ Change([srv EXCEPT !.n = @ + 1])
    /\ UNCHANGED <<streamVars, snap, cursor, failed, adrift, refreshAgain, more,
                   pending, faults>>

OtherDevice(op, i) ==
    /\ News
    /\ i <= srv.n /\ Effect(srv, op, i) # srv
    /\ Change(Effect(srv, op, i))
    /\ UNCHANGED <<streamVars, snap, cursor, failed, adrift, refreshAgain, more,
                   pending, faults>>

\* Hints reach the streams that are open.
Announce ==
    /\ unannounced
    /\ unannounced' = FALSE
    /\ hint' = (hint \/ source = "open")
    /\ UNCHANGED <<srv, source, timer, status, attempts, listVars, refreshing,
                   refreshAgain, more, pending, changes, acts, faults>>

----------------------------------------------------------------------------
(* Refresh *)

Request(view, tag) == [view |-> view, sent |-> tag, tag |-> None, page |-> None,
                       counts |-> None, stale |-> FALSE]

\* Mutant: a refresh that is asked for while one is in flight is dropped.
RefreshDropping(view, tag) ==
    /\ refreshing' = IF refreshing = None THEN Request(view, tag) ELSE refreshing
    /\ refreshAgain' = refreshAgain

\* One refresh in flight; one that is asked for meanwhile runs after it.
Refresh(view, tag) ==
    IF refreshing = None
    THEN refreshing' = Request(view, tag) /\ refreshAgain' = FALSE
    ELSE refreshing' = refreshing /\ refreshAgain' = TRUE

\* The rerun loop: with the filter and the validator of the moment.
Rerun(view, tag) ==
    /\ refreshing' = IF refreshAgain THEN Request(view, tag) ELSE None
    /\ refreshAgain' = FALSE

\* The server computes the validator, answers 304 when it is the one that was
\* sent, and reads the rows otherwise.  (The rows are a later statement, so a
\* validator may be older than its rows; then it is outdated, and harmless.)
PageRead ==
    /\ refreshing # None /\ refreshing.page = None
    /\ refreshing' =
          [refreshing EXCEPT !.tag = refreshing.view,
                             !.page = IF refreshing.sent = refreshing.view
                                      THEN NotModified ELSE Page(srv, refreshing.view, 0)]
    /\ UNCHANGED <<srv, unannounced, streamVars, listVars, refreshAgain, more, pending,
                   changes, acts, faults>>

\* The counts are a request of their own, sent together with the page.
CountsRead ==
    /\ refreshing # None /\ refreshing.counts = None
    /\ refreshing' = [refreshing EXCEPT !.counts = Counts(srv)]
    /\ UNCHANGED <<srv, unannounced, streamVars, listVars, refreshAgain, more, pending,
                   changes, acts, faults>>

Tail(page) == {i \in snap.items \ page.items : i < Min(page.items)}

KeepsTail(page) == /\ page.next # 0
                   /\ Tail(page) # {}
                   /\ snap.items \cap page.items # {}

\* mergeFirstPage: a page without a successor is the whole list; otherwise
\* what is older than the page stays if the page reaches the loaded items.
Merged(page) ==
    IF KeepsTail(page)
    THEN [snap EXCEPT !.items = page.items \cup Tail(page),
                      !.read  = page.read \cup (snap.read \cap Tail(page))]
    ELSE [snap EXCEPT !.items = page.items, !.read = page.read,
                      !.hasMore = page.next # 0]

WithCounts(s, counts) == [s EXCEPT !.unread = counts.unread, !.unseen = counts.unseen]

\* The answers still to come that were computed before this moment.
Late ==
    /\ more' = IF more = None \/ more.page = None \/ refreshing.page = NotModified
               THEN more ELSE [more EXCEPT !.late = TRUE]
    /\ pending' = [s \in Slots |->
           IF pending[s] = None \/ pending[s].counts = None THEN pending[s]
           ELSE [pending[s] EXCEPT !.late = TRUE]]

RefreshDone ==
    /\ refreshing # None /\ refreshing.page # None /\ refreshing.counts # None
    /\ IF refreshing.stale
       THEN UNCHANGED <<listVars, more, pending>>
       ELSE /\ failed' = FALSE
            /\ IF refreshing.page = NotModified
               THEN /\ snap' = WithCounts(snap, refreshing.counts)
                    /\ adrift' = adrift \ {"counts"}
                    /\ UNCHANGED <<etag, cursor>>
               ELSE /\ snap' = WithCounts(Merged(refreshing.page), refreshing.counts)
                    /\ adrift' = {}
                    /\ etag' = refreshing.tag
                    /\ cursor' = IF KeepsTail(refreshing.page) THEN cursor
                                 ELSE refreshing.page.next
            /\ Late
    /\ Rerun(snap.filter, etag')
    /\ UNCHANGED <<srv, unannounced, streamVars, changes, acts, faults>>

\* Either of the two requests fails: the snapshot stays, the error shows.
RefreshFails ==
    /\ Fault
    /\ refreshing # None
    /\ failed' = (failed \/ ~refreshing.stale)
    /\ Rerun(snap.filter, etag)
    /\ UNCHANGED <<srv, unannounced, streamVars, snap, etag, cursor, adrift, more,
                   pending, changes, acts>>

----------------------------------------------------------------------------
(* Paging and views *)

FetchMore ==
    /\ Act
    /\ snap.hasMore /\ more = None
    /\ more' = [view |-> snap.filter, after |-> cursor, page |-> None,
                stale |-> FALSE, late |-> FALSE]
    /\ UNCHANGED <<srv, unannounced, streamVars, listVars, refreshing, refreshAgain,
                   pending, faults>>

MoreRead ==
    /\ more # None /\ more.page = None
    /\ more' = [more EXCEPT !.page = Page(srv, more.view, more.after)]
    /\ UNCHANGED <<srv, unannounced, streamVars, listVars, refreshing, refreshAgain,
                   pending, changes, acts, faults>>

MoreDone ==
    /\ more # None /\ more.page # None
    /\ more' = None
    /\ IF more.stale
       THEN UNCHANGED <<snap, cursor, adrift>>
       ELSE /\ snap' = [snap EXCEPT
                  !.items = @ \cup more.page.items,
                  !.read = @ \cup (more.page.read \ snap.items),
                  !.hasMore = more.page.next # 0]
            /\ cursor' = more.page.next
            /\ adrift' = IF more.late THEN adrift \cup {"page"} ELSE adrift
    /\ UNCHANGED <<srv, unannounced, streamVars, etag, failed, refreshing, refreshAgain,
                   pending, changes, acts, faults>>

MoreFails ==
    /\ Fault
    /\ more # None
    /\ more' = None
    /\ UNCHANGED <<srv, unannounced, streamVars, listVars, refreshing, refreshAgain,
                   pending, changes, acts>>

\* List requests of the old view are stale from here on.
SetFilter(view) ==
    /\ Act
    /\ view # snap.filter
    /\ snap' = [snap EXCEPT !.filter = view, !.items = {}, !.read = {}, !.hasMore = TRUE]
    /\ cursor' = 0 /\ etag' = None /\ failed' = FALSE
    /\ adrift' = adrift \ {"page"}
    /\ more' = IF more = None THEN None ELSE [more EXCEPT !.stale = TRUE]
    /\ IF refreshing = None
       THEN refreshing' = Request(view, None) /\ refreshAgain' = FALSE
       ELSE refreshing' = [refreshing EXCEPT !.stale = TRUE] /\ refreshAgain' = TRUE
    /\ UNCHANGED <<srv, unannounced, streamVars, pending, faults>>

----------------------------------------------------------------------------
(* Optimistic mutations *)

Less(n, p) == IF p /\ n > 0 THEN n - 1 ELSE n

Optimistic(op, i) ==
    LET out == [snap EXCEPT !.items = @ \ {i}, !.read = @ \ {i}]
    IN  CASE op = "read" /\ i \in snap.items \ snap.read ->
                 [snap EXCEPT !.read = @ \cup {i}, !.unread = Less(@, TRUE)]
          [] op = "unread" /\ i \in snap.read ->
                 [snap EXCEPT !.read = @ \ {i}, !.unread = @ + 1]
          [] op = "archive" /\ i \in snap.items /\ snap.filter # "archived" ->
                 [out EXCEPT !.unread = Less(@, i \notin snap.read)]
          [] op = "unarchive" /\ i \in snap.items /\ snap.filter = "archived" ->
                 [out EXCEPT !.unread = IF i \in snap.read THEN @ ELSE @ + 1]
          [] op = "readAll" -> [snap EXCEPT !.read = snap.items, !.unread = 0]
          [] op = "archiveAll" ->
                 IF snap.filter = "archived" THEN [snap EXCEPT !.unread = 0]
                 ELSE [snap EXCEPT !.items = {}, !.read = {}, !.unread = 0]
          [] op = "seenAll" -> [snap EXCEPT !.unseen = 0]
          [] OTHER -> snap

Mutate(slot, op, i) ==
    /\ Act
    /\ pending[slot] = None
    /\ i \in snap.items \/ (op \in WholeInbox /\ i = 1)
    /\ snap' = Optimistic(op, i)
    /\ pending' = [pending EXCEPT ![slot] =
           [op |-> op, item |-> i, prev |-> snap,
            changed |-> op \in WholeInbox \/ snap' # snap,
            counts |-> None, late |-> FALSE]]
    /\ UNCHANGED <<srv, unannounced, streamVars, etag, cursor, failed, adrift,
                   refreshing, refreshAgain, more, faults>>

\* An item the client shows as it is no more (it never reloads its older
\* pages) may be acted on for nothing: the client has moved its count, and no
\* hint will correct it.
ServerApplies(slot) ==
    LET m == pending[slot]
    IN  /\ m # None /\ m.counts = None
        /\ Serve(m.op, m.item)
        /\ pending' = [pending EXCEPT ![slot].counts = Counts(srv')]
        /\ adrift' = IF m.changed /\ srv' = srv /\ m.op \notin WholeInbox
                     THEN adrift \cup {"counts"} ELSE adrift
        /\ UNCHANGED <<streamVars, snap, cursor, failed, refreshAgain, more, changes,
                       acts, faults>>

\* The whole-inbox calls apply the one count they own from the response.
MutationDone(slot) ==
    LET m == pending[slot]
    IN  /\ m # None /\ m.counts # None
        /\ pending' = [pending EXCEPT ![slot] = None]
        /\ snap' = CASE m.op \in {"readAll", "archiveAll"} ->
                            [snap EXCEPT !.unread = m.counts.unread]
                     [] m.op = "seenAll" -> [snap EXCEPT !.unseen = m.counts.unseen]
                     [] OTHER -> snap
        /\ adrift' = IF m.late /\ m.op \in WholeInbox THEN adrift \cup {"counts"}
                        ELSE adrift
        /\ UNCHANGED <<srv, unannounced, streamVars, etag, cursor, failed,
                       refreshing, refreshAgain, more, changes, acts, faults>>

\* What the failed call had overwritten comes back, over whatever has been
\* loaded since.
RolledBack(m) ==
    CASE ~m.changed -> snap
      [] m.changed /\ m.op = "seenAll" -> WithCounts(snap, m.prev)
      [] OTHER -> [WithCounts(snap, m.prev) EXCEPT !.items = m.prev.items,
                                                   !.read = m.prev.read]

\* Mutant: the validator is kept, so the refresh is answered with 304.
ReconcileKeepingTag == etag' = etag /\ Refresh(snap.filter, etag)

\* reconcileAfterFailedMutation
Reconcile == etag' = None /\ Refresh(snap.filter, None)

\* The request never arrived, or its answer was lost.
MutationFails(slot) ==
    /\ Fault
    /\ pending[slot] # None
    /\ pending' = [pending EXCEPT ![slot] = None]
    /\ snap' = RolledBack(pending[slot])
    /\ Reconcile
    /\ UNCHANGED <<srv, unannounced, streamVars, cursor, failed, adrift, more,
                   changes, acts>>

----------------------------------------------------------------------------
(* The stream *)

Connect ==
    /\ status \in {"idle", "closed"}
    /\ status' = "connecting" /\ attempts' = 0
    /\ source' = "opening" /\ hint' = FALSE
    /\ Refresh(snap.filter, etag)
    /\ UNCHANGED <<srv, unannounced, timer, listVars, more, pending, changes, acts,
                   faults>>

\* Mutant: the reconnect timer of the old credentials stays armed.
TimerStays == timer' = timer

DisarmTimer == timer' = FALSE

Close ==
    /\ Act
    /\ status # "closed"
    /\ status' = "closed"
    /\ source' = "none" /\ hint' = FALSE /\ DisarmTimer
    /\ UNCHANGED <<srv, unannounced, attempts, listVars, refreshing, refreshAgain, more,
                   pending, faults>>

SetCredentials ==
    /\ Act
    /\ status \notin {"idle", "closed"}
    /\ status' = "connecting" /\ attempts' = 0
    /\ source' = "opening" /\ hint' = FALSE
    /\ DisarmTimer
    /\ Refresh(snap.filter, etag)
    /\ UNCHANGED <<srv, unannounced, listVars, more, pending, faults>>

\* The server has subscribed to the hints before it answers, so what changed
\* before this refresh needs none.
Open ==
    /\ source = "opening"
    /\ source' = "open" /\ status' = "connected" /\ attempts' = 0
    /\ Refresh(snap.filter, etag)
    /\ UNCHANGED <<srv, unannounced, hint, timer, listVars, more, pending, changes,
                   acts, faults>>

HintEvent ==
    /\ source = "open" /\ hint
    /\ hint' = FALSE
    /\ Refresh(snap.filter, etag)
    /\ UNCHANGED <<srv, unannounced, source, timer, status, attempts, listVars, more,
                   pending, changes, acts, faults>>

\* After MaxAttempts failures in a row the client gives up, before that it
\* arms the timer.
StreamFails ==
    /\ Fault
    /\ source # "none"
    /\ source' = "none" /\ hint' = FALSE
    /\ attempts' = attempts + 1
    /\ IF attempts' >= MaxAttempts
       THEN status' = "closed" /\ timer' = timer
       ELSE status' = "reconnecting" /\ timer' = TRUE
    /\ UNCHANGED <<srv, unannounced, listVars, refreshing, refreshAgain, more, pending,
                   changes, acts>>

TimerFires ==
    /\ timer
    /\ timer' = FALSE
    /\ source' = "opening" /\ hint' = FALSE
    /\ UNCHANGED <<srv, unannounced, status, attempts, listVars, refreshing, refreshAgain,
                   more, pending, changes, acts, faults>>

----------------------------------------------------------------------------
(* The specification *)

Init ==
    /\ srv = [n |-> FirstItems, read |-> {}, archived |-> {}, seen |-> 0]
    /\ unannounced = FALSE
    /\ source = "none" /\ hint = FALSE /\ timer = FALSE
    /\ status = "idle" /\ attempts = 0
    /\ snap = [items |-> {}, read |-> {}, unread |-> 0, unseen |-> 0, hasMore |-> TRUE,
               filter |-> "default"]
    /\ etag = None /\ cursor = 0 /\ failed = FALSE /\ adrift = {}
    /\ refreshing = None /\ refreshAgain = FALSE /\ more = None
    /\ pending = [s \in Slots |-> None]
    /\ changes = 0 /\ acts = 0 /\ faults = 0

Server == Arrive \/ Announce \/ \E op \in DeviceOps, i \in Items : OtherDevice(op, i)

Lists ==
    \/ PageRead \/ CountsRead \/ RefreshDone \/ RefreshFails
    \/ FetchMore \/ MoreRead \/ MoreDone \/ MoreFails
    \/ \E view \in Views : SetFilter(view)

Mutations ==
    \E slot \in Slots :
        \/ \E op \in Ops, i \in Items : Mutate(slot, op, i)
        \/ ServerApplies(slot) \/ MutationDone(slot) \/ MutationFails(slot)

Stream ==
    Connect \/ Close \/ SetCredentials \/ Open \/ HintEvent \/ StreamFails
    \/ TimerFires

Next == Server \/ Lists \/ Mutations \/ Stream

Spec == Init /\ [][Next]_vars

\* What is under way: requests are answered, answers handled, hints published
\* and delivered.
Progress ==
    \/ Announce \/ HintEvent
    \/ PageRead \/ CountsRead \/ RefreshDone \/ MoreRead \/ MoreDone
    \/ \E slot \in Slots : ServerApplies(slot) \/ MutationDone(slot)

\* As long as something is under way, something of it happens.  Users, faults,
\* connecting and reconnecting are not fair.
FairSpec == Spec /\ WF_vars(Progress)

----------------------------------------------------------------------------
(* Correctness *)

\* The snapshot stays inside its types; the counts, which the client moves
\* itself while pages and counts arrive separately, never go below zero
\* (client.ts, every optimistic mutation).
TypeOK ==
    /\ srv \in [n : 0..MaxItems, read : SUBSET Items, archived : SUBSET Items,
                seen : 0..MaxItems]
    /\ srv.seen <= srv.n
    /\ {unannounced, hint, timer, refreshAgain, failed} \subseteq BOOLEAN
    /\ source \in {"none", "opening", "open"}
    /\ status \in {"idle", "connecting", "connected", "reconnecting", "closed"}
    /\ attempts \in 0..MaxAttempts
    /\ snap \in SnapForm /\ snap.read \subseteq snap.items
    /\ etag \in Views \cup {None, Old} /\ cursor \in 0..MaxItems
    /\ refreshing \in RequestForm \cup {None}
    /\ more \in MoreForm \cup {None}
    /\ pending \in [Slots -> MutationForm \cup {None}]
    /\ adrift \subseteq {"page", "counts"}

\* The snapshot shows the first page that the server has.
ListInSync(s, shown) ==
    LET page == Page(s, shown.filter, 0)
    IN  /\ page.items = IF page.next = 0 THEN shown.items
                        ELSE {i \in shown.items : i >= page.next}
        /\ page.read = shown.read \cap page.items

InSync == ListInSync(srv, snap) /\ WithCounts(snap, Counts(srv)) = snap

Idle == /\ ~unannounced /\ ~hint
        /\ refreshing = None /\ more = None
        /\ \A s \in Slots : pending[s] = None

\* When nothing is in flight, a connected client shows the server's first page
\* and counts, whatever was rolled back, answered with 304, coalesced, missed
\* between two streams or discarded on the way.  Two things are excepted: the
\* last refresh failed (until the next one), and the list or a count was moved
\* by an answer older than the last refresh, or by an action that turned out to
\* be void (client.ts, refresh, doRefresh, reconcileAfterFailedMutation).
AtRestInSync ==
    status = "connected" /\ Idle /\ ~failed /\ adrift = {} => InSync

\* The status tells what the stream does, and there is one stream at most: a
\* timer that survived its stream would open a second life under a connected
\* or closed status (client.ts, openStream, handleStreamFailure, close).
StatusTellsTruth ==
    /\ status = "connected" <=> source = "open"
    /\ status \in {"idle", "closed"} => source = "none"
    /\ timer <=> status = "reconnecting" /\ source = "none"

\* A client that stays connected catches up with the last change.
EventuallyInSync ==
    <>[](status = "connected") => <>[](InSync \/ failed \/ adrift # {})
=============================================================================
