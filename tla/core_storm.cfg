CONSTANTS
  MaxFrame = 2
  MaxTask = 3
  Budget = 3
  BatchSize = 1
  MaxFan = 2
  RequiredEnd = {TRUE}
  Features = {"io", "flow", "error", "hollow", "bug"}
  Disturbances = {"abort", "deadline", "cancel", "ceiling"}
SPECIFICATION DeadlineSpec
INVARIANTS
  InFlightExact
  ChildIsOver
  CountersMatchLog
  DeadlineWins
  AbortIsPrompt
  NothingLeftRunning
PROPERTIES
  CancelledIsSilent
  Terminates
