---------------------------- MODULE MCInboxWidget ----------------------------
(* An instance of InboxWidget for TLC: three items of two categories. *)
EXTENDS InboxWidget

CONSTANTS social, billing

CategoryOf == [i \in 1..MaxItems |-> IF i = 1 THEN billing ELSE social]
LinkOf == [i \in 1..MaxItems |->
              CASE i = 1 -> "external" [] i = 2 -> "same-origin" [] OTHER -> "unsafe"]
UnreadAndOne == <<"unread", billing>>

\* What a behaviour is about: the list, the header over it, the popover, the
\* preferences panel or the owner of the client; and with how many items it starts.
Mix(items, popover, header, onList, onPanel, owner, others, faults, inFlight) ==
    <<items, [popover |-> popover, header |-> header, list |-> onList, panel |-> onPanel,
              owner |-> owner, news |-> others, fault |-> faults, calls |-> inFlight]>>

Mixes == { Mix(2, 1, 0, 2, 0, 0, 1, 0, 1), Mix(2, 1, 0, 1, 0, 0, 0, 1, 2),
           Mix(2, 1, 1, 1, 0, 0, 0, 1, 1), Mix(1, 1, 1, 1, 0, 0, 0, 1, 2),
           Mix(2, 2, 2, 0, 0, 0, 0, 1, 1), Mix(3, 1, 2, 0, 0, 0, 0, 1, 1),
           Mix(1, 3, 0, 0, 0, 0, 1, 1, 1), Mix(1, 2, 0, 0, 0, 0, 1, 1, 2),
           Mix(1, 2, 0, 0, 2, 0, 0, 1, 1), Mix(0, 0, 0, 0, 0, 7, 0, 0, 0) }

MixBudgets == {mix[2] : mix \in Mixes}

\* What does not matter to a mix is not varied.
MixInit ==
    /\ Init
    /\ <<srv.n, left>> \in Mixes
    /\ left.panel = 0 => muted = {}
    /\ Cardinality(muted) < 2
    /\ left.owner = 0 => host = "standalone"
    /\ left.popover < 3 => ~controlled
    /\ left.header < 2 => tabs = IF left.list = 0 THEN 0 ELSE Len(Tabs)

MixSpec == MixInit /\ [][Next]_vars /\ Fairness
=============================================================================
