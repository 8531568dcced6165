--------------------------- MODULE MCAdminConsole ---------------------------
(* AdminConsole and AdminBoot on one roster, for TLC: an admin at the        *)
(* console, another elsewhere, and an account to be created; or replicas     *)
(* that boot, for which that account is the heir of the root email.          *)
EXTENDS AdminConsole, AdminBoot

CONSTANTS boss, peer, c1, c2, s1, s2

PasswordSet == 0..MaxPassword
CategoryOf == [n \in Rows |-> IF n = 2 THEN "d" ELSE "c"]

\* What a behaviour is about, and on which page it begins.
Budget(some) == [k \in Kinds |-> IF k \in DOMAIN some THEN some[k] ELSE 0]

UsersMix == Budget([session |-> 1, users |-> 2, admins |-> 1])
TxMix == Budget([session |-> 1, users |-> 1, admins |-> 1, lost |-> 1, broken |-> 1,
                 failed |-> 1])
DialogMix == Budget([session |-> 1, dialogs |-> 4, lost |-> 1])
ResetMix == Budget([session |-> 1, dialogs |-> 2, admins |-> 1])
NewcomerMix == Budget([session |-> 4, dialogs |-> 2, failed |-> 1])
LoginMix == Budget([session |-> 1, admins |-> 2])
KeysMix == Budget([session |-> 1, nav |-> 1, keys |-> 2, revokes |-> 1, lost |-> 1])
HmacMix == Budget([session |-> 1, nav |-> 1, plane |-> 3, rotates |-> 1, lost |-> 1, time |-> 2])
DlqMix == Budget([session |-> 1, nav |-> 1, plane |-> 2, parks |-> 1, time |-> 1])
ComposeMix == Budget([session |-> 1, nav |-> 1, plane |-> 2, composes |-> 1,
                      lost |-> 1])
ListMix == Budget([session |-> 1, list |-> 4, arrives |-> 1, time |-> 1])
SessionMix == Budget([session |-> 4, ended |-> 1, failed |-> 1])
BootMix == Budget([boots |-> 1])
StaleMix == Budget([boots |-> 2])

Mixes == {UsersMix, TxMix, DialogMix, ResetMix, NewcomerMix, LoginMix, SessionMix, BootMix, StaleMix,
          KeysMix, HmacMix, DlqMix, ComposeMix, ListMix}

MixInit ==
    /\ Init /\ BootInit
    /\ \/ /\ left \in {UsersMix, TxMix, DialogMix, ResetMix, NewcomerMix, LoginMix}
          /\ page = "users"
       \/ left \in {KeysMix, HmacMix} /\ page = "environment"
       \/ left = DlqMix /\ page \in {"dlq", "environments"}
       \/ left = ComposeMix /\ page = "broadcasts"
       \/ left = ListMix /\ page \in {"notifications", "subscribers"}
       \/ left = SessionMix /\ page \in {"dashboard", "users"}
       \/ left \in {BootMix, StaleMix} /\ page = "dashboard"
    /\ Cardinality(srv.rows) = MaxRows - 1 /\ (left # ListMix => MaxRows \notin srv.rows)

\* Many boots and few changes, or fewer boots and more; one call and one login
\* at a time.
ManyBoots == left.boots = 1 /\ changes' <= 2

ManyChanges == left.boots = 2 /\ boots' <= 2

OneAtATime == tx'[c2] = None /\ sessions'[s2] = None /\ logins'[s2] = None

\* Behaviours at the console, and behaviours of the replicas with nobody there.
MixNext ==
    \/ left.boots = 0 /\ Next /\ UNCHANGED bootVars
    \/ BootNext /\ (ManyBoots \/ ManyChanges) /\ OneAtATime
                /\ UNCHANGED <<planeVars, gateVars, viewVars, mineVars, left>>

MixSpec == MixInit /\ [][MixNext]_<<vars, bootVars>>
=============================================================================
