--------------------------- MODULE AbstractInbox ---------------------------
(***************************************************************************)
(* What the inbox promises a subscriber, with no watermark, no override    *)
(* row and no clock: every item carries its own read, archived and seen    *)
(* flag, an action on one item changes that item's flag and nothing else,  *)
(* and an action on the whole inbox changes that flag of every item in it. *)
(***************************************************************************)
CONSTANTS Subs, Items

VARIABLES
    inbox,      \* the items a subscriber has, archived ones included
    unread,     \* the unread ones
    archived,   \* the archived ones
    unseen      \* the ones that arrived since the inbox was last opened

vars == <<inbox, unread, archived, unseen>>

Nothing == [s \in Subs |-> {}]

Init == inbox = Nothing /\ unread = Nothing /\ archived = Nothing /\ unseen = Nothing

\* The flag of every item that was there before is what it was.
Keeps(flag, flagNext) == \A s \in Subs : flagNext[s] \cap inbox[s] = flag[s]

\* Items appear; none leaves.  An item whose creation overlapped an action on
\* the whole inbox may appear with the action already applied to it.
Arrive ==
    /\ inbox' \in [Subs -> SUBSET Items]
    /\ \A s \in Subs : inbox[s] \subseteq inbox'[s]
    /\ \A s \in Subs : unread'[s] \cup archived'[s] \cup unseen'[s] \subseteq inbox'[s]
    /\ Keeps(unread, unread') /\ Keeps(archived, archived') /\ Keeps(unseen, unseen')

MarkRead(s, i) ==
    /\ i \in inbox[s]
    /\ unread' = [unread EXCEPT ![s] = @ \ {i}]
    /\ UNCHANGED <<inbox, archived, unseen>>

MarkUnread(s, i) ==
    /\ i \in inbox[s]
    /\ unread' = [unread EXCEPT ![s] = @ \cup {i}]
    /\ UNCHANGED <<inbox, archived, unseen>>

Archive(s, i) ==
    /\ i \in inbox[s]
    /\ archived' = [archived EXCEPT ![s] = @ \cup {i}]
    /\ UNCHANGED <<inbox, unread, unseen>>

Unarchive(s, i) ==
    /\ i \in inbox[s]
    /\ archived' = [archived EXCEPT ![s] = @ \ {i}]
    /\ UNCHANGED <<inbox, unread, unseen>>

MarkAllRead(s) ==
    /\ unread' = [unread EXCEPT ![s] = {}]
    /\ UNCHANGED <<inbox, archived, unseen>>

MarkAllSeen(s) ==
    /\ unseen' = [unseen EXCEPT ![s] = {}]
    /\ UNCHANGED <<inbox, unread, archived>>

ArchiveAll(s) ==
    /\ archived' = [archived EXCEPT ![s] = inbox[s]]
    /\ UNCHANGED <<inbox, unread, unseen>>

Next ==
    \/ Arrive
    \/ \E s \in Subs :
          \/ MarkAllRead(s)
          \/ MarkAllSeen(s)
          \/ ArchiveAll(s)
          \/ \E i \in Items : \/ MarkRead(s, i)
                              \/ MarkUnread(s, i)
                              \/ Archive(s, i)
                              \/ Unarchive(s, i)

Spec == Init /\ [][Next]_vars
=============================================================================
