SPECIFICATION FairDelivery
CONSTANTS
  Server = {s1}
  Worker = {w1}
  Request = {r1, r2}
  Id = {1, 2}
  MaxRetryCount = 1
  QueueSize = 1
  ClaimLimit = 1
  MaxTotal = 2
  Modes = {"later"}
  Faults = {"scheduler"}
  TaskWorker = {v1}
  MaxRetries = 1
  QueueCapacity = 1
  TaskFaults = {}
  CallbackHasKey = FALSE
  SlowHandlers = TRUE
INVARIANT ScheduledIsOwned
PROPERTIES ScheduledEnds ImplementsServices
