CONSTANTS
  Call = {c1, c2, c3}
  NoCall = NoCall
  MaxWorkers = 2
  MaxFaults = 1
SPECIFICATION Spec
INVARIANTS
  NoOverlap
  SentOnce
  CancelledIsStopped
  CrashIsReal
PROPERTIES
  CleanupEnds
CHECK_DEADLOCK FALSE
