------------------------ MODULE MCNotificationSystem ------------------------
(* Model-checking instances of NotificationSystem.                         *)
EXTENDS NotificationSystem, TLC

Symmetry == Permutations(Server) \cup Permutations(Worker) \cup Permutations(Request)
=============================================================================
