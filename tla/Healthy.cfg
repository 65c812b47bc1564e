SPECIFICATION FairSpec
CONSTANTS
  Server = {s1}
  Worker = {w1}
  Request = {r1, r2}
  Id = {1, 2, 3}
  MaxRetryCount = 1
  QueueSize = 1
  ClaimLimit = 1
  MaxTotal = 1
  Modes = {"now"}
  Faults = {"provider"}
INVARIANT ThresholdSlack
PROPERTIES Settles ImplementsContract
