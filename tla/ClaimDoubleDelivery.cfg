SPECIFICATION Spec
CONSTANTS
  Server = {s1}
  Worker = {w1}
  Request = {r1}
  Id = {1}
  MaxRetryCount = 1
  QueueSize = 1
  ClaimLimit = 1
  MaxTotal = 2
  Modes = {"now"}
  Faults = {}
INVARIANT NoDoubleDelivery
