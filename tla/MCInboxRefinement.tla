------------------------- MODULE MCInboxRefinement -------------------------
(* A request to two subscribers, counted in two chunks, and a broadcast; one *)
(* of the two acts, the other only receives.                                  *)
EXTENDS InboxRefinement, TLC

CONSTANTS s1, s2, n1, n2, b1, r1, c1, c2

MixedIds == r1 :> <<n2, n1>>
MixedRecipient == n1 :> s1 @@ n2 :> s2
MixedCategory == n1 :> c1 @@ n2 :> c1 @@ b1 :> c2
MixedSubs == s1 :> 1 @@ s2 :> 1
MixedMutes == {{}, {<<s1, c1>>}}
=============================================================================
