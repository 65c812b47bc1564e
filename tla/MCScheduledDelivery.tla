------------------------ MODULE MCScheduledDelivery ------------------------
(* ScheduledDelivery instantiated for TLC.                                 *)
EXTENDS ScheduledDelivery, TLC

Symmetry == Permutations(Request)
=============================================================================
