----------------------------- MODULE MCTimeline -----------------------------
(* What a behaviour is about: the windows of one subscriber with two        *)
(* notifications, so that a window takes more than one chunk, or the moves  *)
(* of one notification between two subscribers, in less time.               *)
EXTENDS Timeline

CONSTANTS a, b, ShortTime

VARIABLE about

MixInit == Init /\ about \in {"windows", "moves"}

MixNext ==
    /\ Next
    /\ UNCHANGED about
    /\ \/ about = "windows" /\ \A n \in Notifications : owner'[n] = a
                           /\ watermark'[b] = watermark[b]
       \/ about = "moves" /\ state'[2] = "unborn" /\ clock' <= ShortTime

MixSpec == MixInit /\ [][MixNext]_<<vars, about>>
=============================================================================
