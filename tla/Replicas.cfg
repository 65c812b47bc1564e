SPECIFICATION Spec
CONSTANTS
  Server = {s1, s2}
  Worker = {w1}
  Request = {r1}
  Id = {1}
  MaxRetryCount = 1
  QueueSize = 1
  ClaimLimit = 1
  MaxTotal = 2
  Modes = {"now"}
  Faults = {"db", "provider", "panic", "stop", "crash"}
SYMMETRY Symmetry
INVARIANT TypeOK
INVARIANT ProcessingIsCarried
INVARIANT CopiesBound
INVARIANT DeliveryBound
INVARIANT SentWasDelivered
INVARIANT DeadLettersArchived
INVARIANT RetryBudget
PROPERTY KeepsContract
