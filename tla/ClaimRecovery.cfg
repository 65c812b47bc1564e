SPECIFICATION Spec
CONSTANTS
  Task = {t1}
  NoTask = NoTask
  Worker = {w1, w2}
  Client = {c1}
  MaxRetries = 1
  QueueCapacity = 1
  Cached = FALSE
  MaxMoves = 0
  Faults = {"crash"}
SYMMETRY Symmetry
INVARIANT AcceptedIsStored
