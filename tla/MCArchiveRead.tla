--------------------------- MODULE MCArchiveRead ---------------------------
(* One subscriber, two broadcasts. *)
EXTENDS ArchiveRead, TLC

CONSTANTS s1, b1, b2, c1

SomeMutes == {{}, {<<s1, c1>>}}

NoIds == [r \in {} |-> << >>]
NoRecipient == [n \in {} |-> s1]
BroadcastCategory == b1 :> c1 @@ b2 :> c1

\* The first broadcast may be older than the subscriber.
LateSub == s1 :> 2
BroadcastOrder == b1 :> 1 @@ b2 :> 2
=============================================================================
