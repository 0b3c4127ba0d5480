CONSTANTS
  Last = 3
  MaxConcurrency = 2
  MaxRefused = 1
SPECIFICATION Spec
INVARIANTS
  OutputsAreComplete
  NothingOutlives
PROPERTIES
  CancelEnds
CHECK_DEADLOCK FALSE
