SPECIFICATION FairSpec
CONSTANTS
  Task = {t1}
  NoTask = NoTask
  Worker = {w1, w2}
  Client = {c1}
  MaxRetries = 1
  QueueCapacity = 1
  Cached = TRUE
  MaxMoves = 1
  Faults = {"redis"}
INVARIANTS TypeOK QueuedIsHeld CallbackBound
PROPERTY Finishes
