--------------------------- MODULE MCInboxUpkeep ---------------------------
(* One request to two subscribers, of whom one acts; moves go to that one. *)
EXTENDS InboxUpkeep, TLC

CONSTANTS s1, s2, n1, n2, r1, c1

TwoSubs == s1 :> 1 @@ s2 :> 1
SourceMutes == {{}, {<<s1, c1>>}}
PairIds == r1 :> <<n2, n1>>
PairRecipient == n1 :> s1 @@ n2 :> s2
PairCategory == n1 :> c1 @@ n2 :> c1

\* Preferences are written or a job is parked, not both.
EitherInit == UpkeepInit /\ <<flips, parks>> \in {<<0, MaxParks>>, <<MaxFlips, 0>>}

EitherSpec == EitherInit /\ [][UpkeepNext]_allUpkeepVars
=============================================================================
