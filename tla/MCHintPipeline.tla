--------------------------- MODULE MCHintPipeline ---------------------------
(* Two workers and two equal hints for two subscribers, one of whom may be  *)
(* put off while the other is published to.                                 *)
EXTENDS HintPipeline, TLC

CONSTANTS s1, s2, c1, c2, n1, n2, n3

SameReason == [c \in {c1, c2} |-> "notification"]
BothSubs == [c \in {c1, c2} |-> <<s1, s2>>]
SomeIds == c1 :> {n1, n2} @@ c2 :> {n3}
SomeRecipients == n1 :> s1 @@ n2 :> s2 @@ n3 :> s1
=============================================================================
