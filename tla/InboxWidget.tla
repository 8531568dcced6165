----------------------------- MODULE InboxWidget -----------------------------
(***************************************************************************)
(* The React widget (packages/react/src): popover and bell, header menu,   *)
(* tabs, the scrolling list with its fill loop and new-notification pill,  *)
(* item calls and the preferences panel, over the snapshot of a client.   *)
(*                                                                         *)
(* An item is its place in the list, 1 the oldest.  React renders and runs *)
(* the effects of a discrete event before the next one, so an event is one *)
(* step with its effects; the fill effect, which may run later, is a step  *)
(* of its own.  The client is reduced to what it does to the snapshot: a    *)
(* mutation is patched in, served and answered in steps of their own, with *)
(* the snapshot it captured to roll back to, and a page is read and merged *)
(* in one step (ClientSync has the refreshes, their validators and races). *)
(* A member of `Calls' is a mutation in flight, or a write of the panel.   *)
(* A member of `Budgets' bounds, kind by kind, what the user, the host, the *)
(* others and the network do in a behaviour, and how many mutations are in *)
(* flight at once.                                                         *)
(***************************************************************************)
EXTENDS PreferencePanel, OwnedClient, FiniteSets, FiniteSetsExt, Sequences

CONSTANTS
    FirstItems, MaxItems, PageSize,
    Viewport,       \* how many rows push the sentinel out of view
    Category,       \* the category of an item
    Url,            \* what its action_url is: none, unsafe, same-origin, external
    RouterPush,     \* the host passes routerPush
    Tabs,           \* the filters of the tabs: all, unread, or a category
    Views,
    Budgets

Items == 1..MaxItems

Kinds == {"popover", "header", "list", "panel", "owner", "news", "fault", "calls"}

\* A mutation in flight, and the snapshot it may put back.
Ops == {"read", "unread", "archive", "unarchive", "readAll", "archiveAll", "archiveRead",
        "seenAll"}

PrevForm == [items : SUBSET Items, read : SUBSET Items, archived : SUBSET Items,
             unseen : Int]

CallForm == [op : Ops, item : Nat, link : BOOLEAN, served : BOOLEAN,
             prev : PrevForm \cup {None}]

ASSUME WidgetAssumption ==
    /\ MaxItems \in Nat /\ FirstItems \in 0..MaxItems
    /\ PageSize \in Nat \ {0} /\ Viewport \in Nat \ {0}
    /\ Category \in [Items -> Categories]
    /\ Url \in [Items -> {"none", "unsafe", "same-origin", "external"}]
    /\ RouterPush \in BOOLEAN /\ Tabs \in Seq({"all", "unread"} \cup Categories)
    /\ Views \subseteq {"default", "unread", "archived"} /\ "default" \in Views
    /\ Budgets \subseteq [Kinds -> Nat]
    /\ None \notin PrevForm /\ None \notin CallForm

VARIABLES
    srv,            \* the server's rows: how many items, read, archived, seen
    snap,           \* the client's snapshot
    cursor,         \* the oldest item fetched, 0 for null
    hintDue,        \* a refresh is under way or about to be
    fetching,       \* the fetchMore in flight
    controlled,     \* the host passes `open'
    isOpen, menuOpen, showPreferences,
    tabs, activeTab,    \* how many tabs the host passes, and the chosen one
    list,           \* the state of the mounted NotificationList
    calls,          \* the mutations in flight, with the snapshot to go back to
    away,           \* a full navigation has left the page
    news,           \* history: whether something has arrived since the popover
                    \* opened; "crossing" if only while it told the server so
    missed,         \* history: since it opened, a seen-all has failed
    behind,         \* history: the last refresh of this view failed
    hole,           \* history: the list may lack an item, or show it as read, where
                    \* no page to come corrects it
    left            \* what is left of the budget

history == <<news, missed, behind, hole>>
viewVars == <<controlled, isOpen, menuOpen, showPreferences, tabs, activeTab>>
clientVars == <<srv, snap, cursor, hintDue, fetching, history>>
vars == <<clientVars, viewVars, list, calls, away, panelVars, ownVars, left>>

Spend(kind) == left[kind] > 0 /\ left' = [left EXCEPT ![kind] = @ - 1]

----------------------------------------------------------------------------
(* What is rendered *)

\* The list exists while the popover is open and shows the inbox.
ListShown == isOpen /\ ~showPreferences

MenuShown == menuOpen /\ ListShown

\* The strip may have lost tabs since one was chosen.
IndexIn(n) == IF n = 0 THEN 1 ELSE Min({activeTab, n})

FilterIn(n) == IF n = 0 THEN "all" ELSE Tabs[IndexIn(n)]

ActiveFilter == FilterIn(tabs)

Matches(filter, set, read) ==
    CASE filter = "all"    -> set
      [] filter = "unread" -> set \ read
      [] OTHER             -> {i \in set : Category[i] = filter}

VisibleIn(n, s) == Matches(FilterIn(n), s.items, s.read)

Visible == VisibleIn(tabs, snap)

\* Mutant: the empty state is not deferred.
DeferNever == FALSE

DeferEmpty == ActiveFilter # "all" /\ snap.hasMore

EmptyShown == ListShown /\ Visible = {} /\ ~DeferEmpty

\* The bell's badge.
Badge == snap.unseen

FreshList == [scroll |-> "top", sentinel |-> FALSE, pending |-> {}, count |-> 0,
              due |-> FALSE, waiting |-> FALSE]

Remount == list' = FreshList

\* Rows that fit need no scrolling, and the sentinel below them is in view.
Fits(set) == Cardinality(set) < Viewport

Present(pending, visible) == pending \cap visible

\* A render with a new snapshot: the effects that collect arrivals behind the
\* pill of a scrolled list, prune what is no longer there, and note whether
\* the fill effect is due.
Render(n, arrived, ticked) ==
    IF ~ListShown THEN UNCHANGED list
    ELSE LET visible == VisibleIn(n, snap')
             pending == Present(list.pending \cup
                                  (IF list.scroll = "top" THEN {} ELSE arrived), visible)
         IN  list' = [list EXCEPT
                 !.pending = pending, !.count = Cardinality(pending),
                 !.scroll  = IF Fits(visible) THEN "top"
                             ELSE IF @ = "end" /\ visible # Visible THEN "middle" ELSE @,
                 !.due     = @ \/ ticked \/ snap'.hasMore # snap.hasMore
                                         \/ snap'.error # snap.error,
                 !.waiting = @ /\ ~ticked]

Rerender(arrived, ticked) == Render(tabs, arrived, ticked)

----------------------------------------------------------------------------
(* The client under the widget *)

Served(view) ==
    {i \in 1..srv.n : /\ Category[i] \notin muted
                      /\ i \in srv.archived <=> view = "archived"
                      /\ view = "unread" => i \notin srv.read}

Page(below) ==
    LET rest  == {i \in Served(snap.filter) : below = 0 \/ i < below}
        items == {i \in rest : Cardinality({j \in rest : j > i}) < PageSize}
    IN  [items |-> items, next |-> IF Cardinality(items) = PageSize THEN Min(items) ELSE 0]

\* A markAllSeen is in flight.
TellingSeen == \E w \in Calls : calls[w] # None /\ calls[w].op = "seenAll"

Arrive ==
    /\ Spend("news")
    /\ srv.n < MaxItems
    /\ srv' = [srv EXCEPT !.n = @ + 1]
    /\ hintDue' = TRUE
    /\ news' = IF TellingSeen THEN "crossing" ELSE "some"
    /\ UNCHANGED <<snap, cursor, fetching, missed, behind, hole, viewVars, list, calls,
                   away, panelVars, ownVars>>

OtherDeviceReads(i) ==
    /\ Spend("news")
    /\ i <= srv.n /\ i \notin srv.read
    /\ srv' = [srv EXCEPT !.read = @ \cup {i}]
    /\ hintDue' = TRUE
    /\ UNCHANGED <<snap, cursor, fetching, history, viewVars, list, calls, away,
                   panelVars, ownVars>>

\* Mutant: the whole page counts as news.
ArrivedPage(page) == page

Arrived(page) == page \ snap.items

\* lastRefreshNewItemIds, restricted to the active tab in the render that
\* carried the merge.
RefreshDone ==
    /\ hintDue
    /\ hintDue' = FALSE /\ behind' = FALSE
    /\ LET page  == Page(0)
           older == {i \in snap.items \ page.items : i < Min(page.items)}
           keeps == page.next # 0 /\ older # {} /\ snap.items \cap page.items # {}
           items == IF keeps THEN page.items \cup older ELSE page.items
       IN  /\ snap' = [snap EXCEPT
                  !.items = items,
                  !.read  = (srv.read \cap page.items) \cup (@ \cap (items \ page.items)),
                  !.archived = (srv.archived \cap page.items)
                                   \cup (@ \cap (items \ page.items)),
                  !.hasMore = IF keeps THEN @ ELSE page.next # 0,
                  !.unseen = srv.n - srv.seen, !.error = FALSE]
           /\ cursor' = IF keeps THEN cursor ELSE page.next
           /\ fetching' = IF keeps \/ fetching = None THEN fetching
                          ELSE [fetching EXCEPT !.reset = TRUE]
           /\ hole' = (hole /\ keeps)
           /\ Rerender(Arrived(page.items), FALSE)
    /\ UNCHANGED <<srv, news, missed, viewVars, calls, away, panelVars, ownVars, left>>

RefreshFails ==
    /\ Spend("fault")
    /\ hintDue
    /\ hintDue' = FALSE /\ behind' = TRUE
    /\ snap' = [snap EXCEPT !.error = TRUE]
    /\ Rerender({}, FALSE)
    /\ UNCHANGED <<srv, cursor, fetching, news, missed, hole, viewVars, calls, away,
                   panelVars, ownVars>>

\* Mutant: the loop relies on the render the page causes.
SettleByRender == Rerender({}, FALSE)

\* When the promise settles the waiting list ticks, which makes the fill
\* effect look again.
Settle == Rerender({}, list.waiting)

FetchDone ==
    /\ fetching # None
    /\ fetching' = None
    /\ IF fetching.stale THEN UNCHANGED <<snap, cursor, hole>>
       ELSE LET page == Page(fetching.after)
                new  == page.items \ snap.items
            IN  /\ snap' = [snap EXCEPT !.items = @ \cup new,
                                        !.read = @ \cup (srv.read \cap new),
                                        !.archived = @ \cup (srv.archived \cap new),
                                        !.hasMore = page.next # 0, !.error = FALSE]
                /\ cursor' = page.next
                /\ hole' = (hole \/ fetching.reset)
    /\ Settle
    /\ UNCHANGED <<srv, hintDue, news, missed, behind, viewVars, calls, away, panelVars,
                   ownVars, left>>

FetchFails ==
    /\ Spend("fault")
    /\ fetching # None
    /\ fetching' = None
    /\ snap' = IF fetching.stale THEN snap ELSE [snap EXCEPT !.error = TRUE]
    /\ Settle
    /\ UNCHANGED <<srv, cursor, hintDue, history, viewVars, calls, away, panelVars,
                   ownVars>>

\* What is served again is below the page a refresh fetches, for all it knows.
HoleAfter ==
    hole \/ ~(Served(snap.filter)' \ Served(snap.filter) \subseteq snap'.items)

\* The snapshot a mutation captures before its optimistic patch.
Captured == [items |-> snap.items, read |-> snap.read, archived |-> snap.archived,
             unseen |-> snap.unseen]

Free == {w \in Calls : calls[w] = None}

\* A mutation is called and patched in.  `prev' is what a failure puts back: nothing
\* if nothing was patched.
Mutate(op, i, link, patched, changed) ==
    /\ Free # {} /\ Cardinality(Calls \ Free) < left.calls
    /\ calls' = [calls EXCEPT ![CHOOSE w \in Free : TRUE] =
           [op |-> op, item |-> i, link |-> link, served |-> FALSE,
            prev |-> IF changed THEN Captured ELSE None]]
    /\ snap' = patched
    /\ UNCHANGED <<srv, cursor, hintDue, fetching, behind, hole, away, ownVars>>

\* A mutation of the list or its header.
Act(kind, op, i, link, patched, changed) ==
    /\ Spend(kind)
    /\ Mutate(op, i, link, patched, changed)
    /\ Rerender({}, FALSE)
    /\ UNCHANGED <<news, missed, panelVars>>

Effect(op, i) ==
    CASE op = "read"        -> [srv EXCEPT !.read = @ \cup {i}]
      [] op = "unread"      -> [srv EXCEPT !.read = @ \ {i}]
      [] op = "archive"     -> [srv EXCEPT !.archived = @ \cup {i}]
      [] op = "unarchive"   -> [srv EXCEPT !.archived = @ \ {i}]
      [] op = "readAll"     -> [srv EXCEPT !.read = 1..srv.n]
      [] op = "archiveAll"  -> [srv EXCEPT !.archived = 1..srv.n]
      [] op = "seenAll"     -> [srv EXCEPT !.seen = srv.n]
      [] op = "archiveRead" -> [srv EXCEPT !.job = TRUE]

\* An action on one item that has no effect announces nothing, one on the whole
\* inbox always does, archive-read when its job is done.
Serve(w) ==
    /\ calls[w] # None /\ ~calls[w].served
    /\ calls' = [calls EXCEPT ![w].served = TRUE]
    /\ UNCHANGED <<snap, cursor, fetching, news, missed, behind, viewVars, list, away,
                   panelVars, ownVars, left>>
    /\ LET c == calls[w]
       IN  /\ srv' = Effect(c.op, c.item)
           /\ hintDue' = (hintDue \/ c.op \in {"readAll", "archiveAll", "seenAll"}
                                  \/ (c.op # "archiveRead" /\ srv' # srv))
           /\ hole' = (HoleAfter \/ (c.op = "unread" /\ c.item \in snap.read))

\* The job of an archive-read (ArchiveRead has what it takes and leaves).
JobArchives ==
    /\ srv.job
    /\ srv' = [srv EXCEPT !.archived = @ \cup srv.read, !.job = FALSE]
    /\ hintDue' = TRUE
    /\ UNCHANGED <<snap, cursor, fetching, news, missed, behind, viewVars, list, calls,
                   away, panelVars, ownVars, left>>
    /\ hole' = HoleAfter

\* resolveActionUrl: only http(s) is followed, on this origin by the router.
Leaves(i) == \/ Url[i] = "external"
             \/ Url[i] = "same-origin" /\ ~RouterPush

\* markRead never rejects, so the link of a failed click is followed too.
Settled(w) ==
    /\ calls' = [calls EXCEPT ![w] = None]
    /\ away' = (calls[w].link /\ Leaves(calls[w].item))
    /\ Rerender({}, FALSE)
    /\ UNCHANGED <<srv, cursor, fetching, news, behind, viewVars, panelVars, ownVars>>

\* An answer clears the error; the one of markAllSeen brings a count, which was 0.
Answered(w) ==
    /\ calls[w] # None /\ calls[w].served
    /\ snap' = [snap EXCEPT !.error = FALSE,
                            !.unseen = IF calls[w].op = "seenAll" THEN 0 ELSE @]
    /\ Settled(w)
    /\ UNCHANGED <<hintDue, missed, hole, left>>

\* A failure of the mutation brings back the list it has captured.
Restores(c) == c # None /\ c.prev # None /\ c.op # "seenAll"

\* What the failed mutation has captured comes back, over all that has been loaded,
\* patched and refreshed since; of the counts of markAllSeen only those.
RolledBack(c) ==
    CASE c.prev = None -> snap
      [] Restores(c)   -> [snap EXCEPT !.items = c.prev.items, !.read = c.prev.read,
                                       !.archived = c.prev.archived,
                                       !.unseen = c.prev.unseen]
      [] OTHER         -> [snap EXCEPT !.unseen = c.prev.unseen]

\* All that the mutations in flight may bring back.
Restorable == UNION {calls[w].prev.items : w \in {v \in Calls : Restores(calls[v])}}

\* A rollback drops a page that was loaded since, or puts an item back as read which
\* the server holds unread: no refresh reaches the one, or the other below its page.
\* (What is newer than all that comes back, the refresh fetches again.)
Overwritten(c) ==
    /\ Restores(c)
    /\ \/ ~(c.prev.read \subseteq srv.read)
       \/ \E i \in snap.items \ c.prev.items, j \in Restorable : i < j

\* The request never arrived, or its answer was lost; reconcileAfterFailedMutation.
Fails(w) ==
    /\ Spend("fault")
    /\ calls[w] # None
    /\ snap' = [RolledBack(calls[w]) EXCEPT !.error = TRUE]
    /\ hintDue' = (hintDue \/ calls[w].op # "archiveRead")
    /\ missed' = (missed \/ calls[w].op = "seenAll")
    /\ hole' = (hole \/ Overwritten(calls[w]))
    /\ Settled(w)

----------------------------------------------------------------------------
(* The list *)

\* IntersectionObserver or, without it, the scroll listener.
InView == Fits(Visible) \/ list.scroll = "end"

Observe ==
    /\ ListShown /\ list.sentinel # InView
    /\ list' = [list EXCEPT !.sentinel = InView, !.due = TRUE]
    /\ UNCHANGED <<clientVars, viewVars, calls, away, panelVars, ownVars, left>>

Fills == list.sentinel /\ snap.hasMore /\ ~snap.error

\* fetchMore returns the promise in flight if there is one.
FillEffect ==
    /\ list.due
    /\ list' = [list EXCEPT !.due = FALSE, !.waiting = @ \/ Fills]
    /\ fetching' = IF Fills /\ fetching = None
                   THEN [after |-> cursor, stale |-> FALSE, reset |-> FALSE]
                   ELSE fetching
    /\ UNCHANGED <<srv, snap, cursor, hintDue, history, viewVars, calls, away, panelVars,
                   ownVars, left>>

Scroll(to) ==
    /\ Spend("list")
    /\ ListShown /\ list.scroll # to /\ ~Fits(Visible)
    /\ list' = [list EXCEPT !.scroll = to,
                            !.pending = IF to = "top" THEN {} ELSE @,
                            !.count = IF to = "top" THEN 0 ELSE @]
    /\ UNCHANGED <<clientVars, viewVars, calls, away, panelVars, ownVars>>

\* The list has become too short to be scrolled; the browser says so.
ScrollEvent ==
    /\ list.scroll = "top" /\ list.pending # {}
    /\ list' = [list EXCEPT !.pending = {}, !.count = 0]
    /\ UNCHANGED <<clientVars, viewVars, calls, away, panelVars, ownVars, left>>

\* The scroll to the top may take a while; the pill goes at once.
DismissPill ==
    /\ Spend("list")
    /\ list.count > 0
    /\ \E scroll \in {list.scroll, "top"} :
           list' = [list EXCEPT !.pending = {}, !.count = 0, !.scroll = scroll]
    /\ UNCHANGED <<clientVars, viewVars, calls, away, panelVars, ownVars>>

\* The buttons of a row: read or unread, archive or unarchive, by what it shows.
FlipRead(i) ==
    /\ ListShown /\ i \in Visible
    /\ IF i \in snap.read
       THEN Act("list", "unread", i, FALSE, [snap EXCEPT !.read = @ \ {i}], TRUE)
       ELSE Act("list", "read", i, FALSE, [snap EXCEPT !.read = @ \cup {i}], TRUE)
    /\ UNCHANGED viewVars

Without(i) == [snap EXCEPT !.items = @ \ {i}, !.read = @ \ {i}, !.archived = @ \ {i}]

\* Only the views that lose the item drop it at once.
FlipArchived(i) ==
    /\ ListShown /\ i \in Visible
    /\ LET op   == IF i \in snap.archived THEN "unarchive" ELSE "archive"
           gone == op = "unarchive" <=> snap.filter = "archived"
       IN  Act("list", op, i, FALSE, IF gone THEN Without(i) ELSE snap, gone)
    /\ UNCHANGED viewVars

\* onItemClick may veto; otherwise markRead, and the link once it has settled.
ItemClick(i) ==
    /\ ListShown /\ i \in Visible
    /\ Act("list", "read", i, TRUE, [snap EXCEPT !.read = @ \cup {i}], i \notin snap.read)
    /\ UNCHANGED viewVars

----------------------------------------------------------------------------
(* The header: views, menu, tabs *)

\* A pointer press outside the menu closes it before the click arrives; the
\* keyboard reaches a control without one.
MenuAfter(via) == menuOpen' = (menuOpen /\ via = "keyboard")

\* setFilter resets the list; a page in flight is of the old view.
SetFilter(view, via) ==
    /\ Spend("header")
    /\ ListShown /\ view # snap.filter
    /\ snap' = [snap EXCEPT !.filter = view, !.items = {}, !.read = {}, !.archived = {},
                            !.hasMore = TRUE]
    /\ cursor' = 0 /\ hintDue' = TRUE /\ behind' = FALSE /\ hole' = FALSE
    /\ fetching' = IF fetching = None THEN None ELSE [fetching EXCEPT !.stale = TRUE]
    /\ MenuAfter(via)
    /\ Rerender({}, FALSE)
    /\ UNCHANGED <<srv, news, missed, controlled, isOpen, showPreferences, tabs,
                   activeTab, calls, away, panelVars, ownVars>>

ToggleMenu ==
    /\ Spend("header")
    /\ ListShown
    /\ menuOpen' = ~menuOpen
    /\ UNCHANGED <<clientVars, controlled, isOpen, showPreferences, tabs, activeTab, list,
                   calls, away, panelVars, ownVars>>

MenuItem(op) ==
    /\ MenuShown
    /\ menuOpen' = FALSE
    /\ CASE op = "readAll" ->
                Act("header", op, 1, FALSE, [snap EXCEPT !.read = snap.items], TRUE)
         [] op = "archiveRead" -> Act("header", op, 1, FALSE, snap, FALSE)
         [] op = "archiveAll"  ->
                Act("header", op, 1, FALSE,
                    IF snap.filter = "archived" THEN snap
                    ELSE [snap EXCEPT !.items = {}, !.read = {}, !.archived = {}], TRUE)
    /\ UNCHANGED <<controlled, isOpen, showPreferences, tabs, activeTab>>

\* The list is keyed by the tab, so another one starts at the top, unobserved.
GoToTab(k, via) ==
    /\ activeTab' = k
    /\ MenuAfter(via)
    /\ IF IndexIn(tabs) = Min({k, tabs}) THEN UNCHANGED list ELSE Remount
    /\ UNCHANGED <<clientVars, controlled, isOpen, showPreferences, tabs, calls, away,
                   panelVars, ownVars>>

\* Arrows wrap around; Home and End are the other two.
TabKeys == LET k == IndexIn(tabs)
           IN  {(k % tabs) + 1, ((k + tabs - 2) % tabs) + 1, 1, tabs}

SelectTab ==
    /\ Spend("header")
    /\ ListShown /\ tabs > 0
    /\ \/ \E k \in 1..tabs : GoToTab(k, "pointer")
       \/ \E k \in TabKeys : GoToTab(k, "keyboard")

\* The host passes another number of tabs.
HostTabs(n) ==
    /\ Spend("header")
    /\ n # tabs
    /\ tabs' = n
    /\ UNCHANGED snap
    /\ IF ~ListShown \/ IndexIn(n) = IndexIn(tabs)
       THEN Render(n, {}, FALSE) ELSE Remount
    /\ UNCHANGED <<clientVars, controlled, isOpen, menuOpen, showPreferences, activeTab,
                   calls, away, panelVars, ownVars>>

----------------------------------------------------------------------------
(* The popover *)

\* The ref wasOpen makes markAllSeen an effect of the rising edge only.
SeenNow(open) == open /\ ~isOpen

\* The content is mounted when the popover opens and dropped when it closes.
ShowPopover(open) ==
    /\ isOpen' = open
    /\ IF open = isOpen THEN UNCHANGED <<menuOpen, showPreferences, activeTab, list>>
       ELSE menuOpen' = FALSE /\ showPreferences' = FALSE /\ activeTab' = 1 /\ Remount
    /\ IF panel /\ ~open THEN Unmount ELSE UNCHANGED panelVars
    /\ IF SeenNow(open)
       THEN Mutate("seenAll", 1, FALSE, [snap EXCEPT !.unseen = 0], TRUE)
       ELSE UNCHANGED <<srv, snap, cursor, hintDue, fetching, behind, hole, calls, away,
                        ownVars>>
    /\ IF open /\ ~isOpen THEN news' = "none" /\ missed' = FALSE
       ELSE UNCHANGED <<news, missed>>
    /\ UNCHANGED <<controlled, tabs>>

\* setOpenState: a controlled popover only tells its host, who may follow.
Intent(open) == \E follows \in {open, IF controlled THEN isOpen ELSE open} :
                    ShowPopover(follows)

BellClick == Spend("popover") /\ Intent(~isOpen)

HostOpens(open) == Spend("popover") /\ controlled /\ open # isOpen /\ ShowPopover(open)

\* A press outside the popover is also one outside the menu.
PressOutside ==
    /\ Spend("popover")
    /\ isOpen
    /\ \/ Intent(FALSE) /\ ~isOpen'
       \/ /\ controlled /\ menuOpen' = FALSE
          /\ UNCHANGED <<clientVars, controlled, isOpen, showPreferences, tabs, activeTab,
                         list, calls, away, panelVars, ownVars>>

\* While menuOpen is set, its capturing listener swallows the key.
Escape ==
    /\ Spend("popover")
    /\ isOpen
    /\ IF menuOpen
       THEN /\ menuOpen' = FALSE
            /\ UNCHANGED <<clientVars, controlled, isOpen, showPreferences, tabs,
                           activeTab, list, calls, away, panelVars, ownVars>>
       ELSE Intent(FALSE)

\* The gear and the back button exchange the list and the panel.
Gear(via) ==
    /\ Spend("popover")
    /\ ListShown
    /\ showPreferences' = TRUE
    /\ MenuAfter(via)
    /\ Remount /\ Mount
    /\ UNCHANGED <<clientVars, controlled, isOpen, tabs, activeTab, calls, away, ownVars>>

Back(via) ==
    /\ Spend("popover")
    /\ isOpen /\ showPreferences
    /\ showPreferences' = FALSE
    /\ MenuAfter(via)
    /\ Remount /\ Unmount
    /\ UNCHANGED <<clientVars, controlled, isOpen, tabs, activeTab, calls, away, ownVars>>

----------------------------------------------------------------------------
(* The panel inside the widget: what its calls do to the client *)

PanelStep(error, refresh) ==
    /\ snap' = [snap EXCEPT !.error = error]
    /\ hintDue' = (hintDue \/ refresh)
    /\ Rerender({}, FALSE)
    /\ UNCHANGED <<srv, cursor, fetching, news, missed, behind, viewVars, calls, away,
                   ownVars>>
    /\ hole' = HoleAfter

PanelToggle ==
    /\ Spend("panel")
    /\ \E w \in Calls, c \in Toggles({Category[i] : i \in snap.items}) : Toggle(w, c)
    /\ PanelStep(snap.error, FALSE)

PanelAnswer ==
    /\ UNCHANGED left
    /\ \/ (LoadRead \/ LoadDone) /\ PanelStep(snap.error, FALSE)
       \/ \E w \in Calls : WriteRead(w) /\ PanelStep(snap.error, TRUE)
       \/ \E w \in Calls : WriteDone(w) /\ PanelStep(FALSE, TRUE)

PanelFault ==
    /\ Spend("fault")
    /\ \/ LoadFails /\ PanelStep(snap.error, FALSE)
       \/ \E w \in Calls : WriteFails(w) /\ PanelStep(TRUE, FALSE)

OwnerStep ==
    /\ Spend("owner")
    /\ OwnNext
    /\ UNCHANGED <<clientVars, viewVars, list, calls, away, panelVars>>

----------------------------------------------------------------------------
(* The specification *)

Init ==
    /\ srv \in {[n |-> n, read |-> {}, archived |-> {}, seen |-> 0, job |-> FALSE] :
                    n \in 0..FirstItems}
    /\ snap = [items |-> {}, read |-> {}, archived |-> {}, hasMore |-> TRUE,
               error |-> FALSE, filter |-> "default", unseen |-> 0]
    /\ cursor = 0 /\ hintDue = TRUE /\ fetching = None
    /\ controlled \in BOOLEAN /\ isOpen = FALSE /\ menuOpen = FALSE
    /\ showPreferences = FALSE /\ tabs \in {0, Len(Tabs)} /\ activeTab = 1
    /\ list = FreshList /\ away = FALSE
    /\ calls = [w \in Calls |-> None]
    /\ news = (IF srv.n > 0 THEN "some" ELSE "none") /\ missed = FALSE
    /\ behind = FALSE /\ hole = FALSE
    /\ PanelInit /\ OwnInit
    /\ left \in Budgets

World == Arrive \/ JobArchives \/ \E i \in Items : OtherDeviceReads(i)

Client == \/ RefreshDone \/ RefreshFails \/ FetchDone \/ FetchFails
          \/ \E w \in Calls : Serve(w) \/ Answered(w) \/ Fails(w)

ListEvents ==
    \/ Observe \/ FillEffect \/ ScrollEvent \/ DismissPill
    \/ \E to \in {"top", "middle", "end"} : Scroll(to)
    \/ \E i \in Items : FlipRead(i) \/ FlipArchived(i) \/ ItemClick(i)

Header ==
    \/ ToggleMenu \/ SelectTab
    \/ \E op \in {"readAll", "archiveRead", "archiveAll"} : MenuItem(op)
    \/ \E n \in 0..Len(Tabs) : HostTabs(n)
    \/ \E via \in {"pointer", "keyboard"} :
           Gear(via) \/ Back(via) \/ \E view \in Views : SetFilter(view, via)

Popover == BellClick \/ PressOutside \/ Escape \/ \E open \in BOOLEAN : HostOpens(open)

Next == /\ ~away
        /\ \/ World \/ Client \/ ListEvents \/ Header \/ Popover
           \/ PanelToggle \/ PanelAnswer \/ PanelFault \/ OwnerStep

Spec == Init /\ [][Next]_vars

\* The browser reports, React runs its effects and requests are answered;
\* nobody has to do anything.  This is WF_vars of Observe, FillEffect,
\* FetchDone and RefreshDone: each is enabled just while its condition here
\* is false, and makes it true.
Fairness ==
    /\ []<>(away \/ ~ListShown \/ list.sentinel = InView)
    /\ []<>(away \/ ~list.due)
    /\ []<>(away \/ fetching = None)
    /\ []<>(away \/ ~hintDue)

FairSpec == Spec /\ Fairness

----------------------------------------------------------------------------
(* Correctness *)

TypeOK ==
    /\ PanelTypeOK
    /\ snap.items \subseteq 1..srv.n /\ snap.read \subseteq snap.items
    /\ snap.archived \subseteq snap.items
    /\ calls \in [Calls -> CallForm \cup {None}]
    /\ news \in {"none", "crossing", "some"}
    /\ snap.unseen \in Nat /\ cursor \in 0..MaxItems
    /\ list.pending \subseteq Items /\ list.scroll \in {"top", "middle", "end"}
    /\ activeTab \in 1..Len(Tabs)
    /\ panel <=> isOpen /\ showPreferences
    /\ ~ListShown => list = FreshList

\* The pill counts rows of the list it hangs over, each once, whatever a
\* refresh evicted, another device read out of the tab or the user archived
\* meanwhile (NotificationList.tsx:119-134).
PillTruth == list.count = Cardinality(list.pending \cap Visible)

\* Only a refresh that merges a first page puts an item behind the pill, and only
\* one the list did not hold: not a later page, a tab, a view or the list a failed
\* mutation brings back.  (What a rollback or a reset has dropped is not held, and
\* counts as an arrival when the next refresh merges it: InboxContent.tsx:93-107,
\* NotificationList.tsx:99-117, client.ts:269-275.)
PillCountsArrivals ==
    [][list'.pending \ list.pending
           \subseteq {i \in snap'.items \ snap.items : hintDue /\ ~hintDue'}]_vars

\* A tab shows the empty state only when nothing on the server belongs there, once
\* what is announced has been fetched and every mutation is answered.  Excepted are
\* a failed refresh and the holes of a loaded list, which last until it is reset: a
\* late page, an item archived or unmuted back into it, one un-read while a refresh
\* showed it read again, and a rollback over pages loaded since (Overwritten)
\* (NotificationList.tsx:31-35, 207-208; client.ts:529-567, mergeFirstPage).
EmptyMeansEmpty ==
    /\ EmptyShown /\ ActiveFilter # "all"
    /\ ~hintDue /\ ~behind /\ ~hole /\ Free = Calls
    => Matches(ActiveFilter, Served(snap.filter), srv.read) = {}

\* The list does not stop short: it ends up full, exhausted, in error or gone
\* (NotificationList.tsx:65-69, 166-183; a page that lands before the client
\* has cleared its guard must not stall the loop).
ListFills ==
    []<>(~ListShown \/ ~snap.hasMore \/ snap.error \/ away
         \/ ~InView)

\* At rest the badge shows what has arrived since the popover was last opened, and
\* nothing else, controlled by the host or not.  Excepted are what arrives while it
\* tells the server, which may count as seen, and a seen-all that failed, which
\* leaves the badge on (Inbox.tsx:154-162, 30; client.ts:426-445).
BadgeMeansNews ==
    ~hintDue /\ ~behind /\ ~TellingSeen
        => /\ news = "some" => Badge > 0
           /\ Badge > 0 => news # "none" \/ missed

\* What the widget says of the inbox holds of it: the pill, the empty state and
\* the badge (NotificationList.tsx, InboxContent.tsx, Inbox.tsx).
WidgetTellsTruth == PillTruth /\ EmptyMeansEmpty /\ BadgeMeansNews
=============================================================================
