---------------------------- MODULE MCClientSync ----------------------------
(* Pages of one item, in an inbox that grows by one. *)
EXTENDS ClientSync

CONSTANTS m1

\* One mutation in flight.
OneSlot == {m1}
=============================================================================
