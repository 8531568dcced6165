---------------------------- MODULE MCSseStream ----------------------------
(* Two tabs, one of them a plain event source, on two replicas; an item and *)
(* a change of another subscriber, or a broadcast and a flip.               *)
EXTENDS SseStream, TLC

CONSTANTS t1, t2, r1, r2, c1, c2, c3, c4

Kinds == c1 :> "item" @@ c2 :> "other" @@ c3 :> "broadcast" @@ c4 :> "flip"

VARIABLE pair   \* the changes of a behaviour

MixInit == Init /\ pair \in {{c1, c2}, {c3, c4}}

MixNext ==
    /\ Next
    /\ UNCHANGED pair
    /\ \A c \in Changes \ pair : stamp'[c] = 0
    /\ pair = {c3, c4} => faults' < MaxFaults

MixSpec == MixInit /\ [][MixNext]_<<vars, pair>> /\ Fairness
=============================================================================
