SPECIFICATION DeliverySpec
CONSTANTS
  Server = {s1}
  Worker = {w1}
  Request = {r1, r2}
  Id = {1}
  MaxRetryCount = 1
  QueueSize = 1
  ClaimLimit = 1
  MaxTotal = 1
  Modes = {"later"}
  Faults = {"db", "scheduler", "crash"}
  TaskWorker = {v1}
  MaxRetries = 2
  QueueCapacity = 1
  TaskFaults = {"crash"}
  CallbackHasKey = TRUE
  SlowHandlers = TRUE
SYMMETRY Symmetry
INVARIANTS DeliveryType CompletedWasTriggered
