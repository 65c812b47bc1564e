-------------------------- MODULE MCTaskScheduler --------------------------
(***************************************************************************)
(* TaskScheduler instantiated for TLC.  Tasks, workers and handlers are    *)
(* interchangeable.                                                        *)
(***************************************************************************)
EXTENDS TaskScheduler, TLC

Symmetry == Permutations(Task) \cup Permutations(Worker) \cup Permutations(Client)
=============================================================================
