----------------------------- MODULE MCListEtag -----------------------------
(* One direct row and one broadcast; two subscribers, so that rows move. *)
EXTENDS ListEtag, TLC

CONSTANTS s1, s2, n1, b1, r1, c1

TwoSubs == s1 :> 1 @@ s2 :> 1
NoMutes == {{}}
OneIds == r1 :> <<n1>>
OneRecipient == n1 :> s1
OneCategory == n1 :> c1 @@ b1 :> c1
OneOrder == n1 :> 1 @@ b1 :> 2
=============================================================================
