---------------------------- MODULE RequestClock ----------------------------
(***************************************************************************)
(* What the middlewares of one Notification Service process share: the     *)
(* goroutines that serve HTTP requests and the clock that time.Now() reads.*)
(* The clock counts in the unit of the durations the components compare.   *)
(***************************************************************************)
EXTENDS Naturals

CONSTANTS
  Request,  \* goroutines that serve requests at the same time
  MaxTime   \* bound: the clock stops here

ASSUME ClockAssumption == MaxTime \in Nat

VARIABLE clock

ClockInit == clock = 0
Advance == clock < MaxTime /\ clock' = clock + 1
=============================================================================
