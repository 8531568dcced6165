-------------------------- MODULE InboxRefinement --------------------------
(***************************************************************************)
(* Watermarks with override rows implement one flag per item: the mapping  *)
(* reads a flag off the rows the way the list query does.                  *)
(***************************************************************************)
EXTENDS Inbox

\* An id says which of the two sources it names.
ASSUME SourcesAssumption == Notifs \cap Broadcasts = {}

Items == Notifs \cup Broadcasts

Has(s) == {n \in Notifs : Visible(n) /\ subscriber_id[n] = s}

Hears(s) == {b \in Broadcasts : BroadcastVisible(s, b)}

\* The four flags, each read off both sources.
UnreadRows(s) == {n \in Has(s) : ~EffectivelyRead(n)}
UnreadNews(s) == {b \in Hears(s) : ~BroadcastRead(s, b)}
ArchivedRows(s) == {n \in Has(s) : EffectivelyArchived(n)}
ArchivedNews(s) == {b \in Hears(s) : BroadcastArchived(s, b)}
UnseenRows(s) == {n \in Has(s) : visible_at[n] > counters[s].seen_watermark}
UnseenNews(s) == {b \in Hears(s) : created_at[b] > counters[s].seen_watermark}

InboxOf(s) == Has(s) \cup Hears(s)
Unread(s) == UnreadRows(s) \cup UnreadNews(s)
Archived(s) == ArchivedRows(s) \cup ArchivedNews(s)
Unseen(s) == UnseenRows(s) \cup UnseenNews(s)

Promise == INSTANCE AbstractInbox WITH
    inbox    <- [s \in Subs |-> InboxOf(s)],
    unread   <- [s \in Subs |-> Unread(s)],
    archived <- [s \in Subs |-> Archived(s)],
    unseen   <- [s \in Subs |-> Unseen(s)]

\* Every step of the handlers and of the worker is one of the promised
\* changes to the flags, or changes no flag: a read item does not turn unread
\* because another one was touched, the inbox was archived or a watermark
\* passed it, and nothing the subscriber has ever leaves (inbox.rs, all the
\* subscriber handlers).
KeepsPromise == Promise!Spec

\* What one handler does to the flags is what its action promises.
ActionPromises(s) ==
    /\ MarkAllRead(s) => Promise!MarkAllRead(s)
    /\ MarkAllSeen(s) => Promise!MarkAllSeen(s)
    /\ ArchiveAll(s) => Promise!ArchiveAll(s)
    /\ \A n \in Notifs : subscriber_id[n] = s =>
          /\ MarkNotificationRead(n) => Promise!MarkRead(s, n)
          /\ MarkNotificationUnread(n) => Promise!MarkUnread(s, n)
          /\ ArchiveNotification(n) => Promise!Archive(s, n)
          /\ UnarchiveNotification(n) => Promise!Unarchive(s, n)
    /\ \A b \in Broadcasts :
          /\ MarkBroadcastRead(s, b) => Promise!MarkRead(s, b)
          /\ MarkBroadcastUnread(s, b) => Promise!MarkUnread(s, b)
          /\ ArchiveBroadcast(s, b) => Promise!Archive(s, b)
          /\ UnarchiveBroadcast(s, b) => Promise!Unarchive(s, b)

\* Each of the eleven subscriber actions does all of what it promises: an
\* unread mark under a watermark shows, an item of this very instant is read by
\* mark-all-read, a second archive-all also takes the items that were brought
\* back after the first (inbox.rs, mark_all_read, mark_all_seen, archive_all
\* and the eight item handlers).
ActionsDoAllTheyPromise == [][\A s \in Acting : ActionPromises(s)]_vars
=============================================================================
