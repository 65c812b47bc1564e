SPECIFICATION Spec
CONSTANTS
  Server = {s1}
  Worker = {w1}
  Request = {r1, r2}
  Id = {1}
  MaxRetryCount = 1
  QueueSize = 1
  ClaimLimit = 1
  MaxTotal = 2
  Modes = {"later"}
  Faults = {"db", "scheduler", "stop", "crash"}
SYMMETRY Symmetry
INVARIANT DeliveredWasTriggered
INVARIANT CopiesBound
