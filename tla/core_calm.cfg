CONSTANTS
  MaxFrame = 2
  MaxTask = 3
  Budget = 2
  BatchSize = 2
  MaxFan = 2
  RequiredEnd = {TRUE}
  Features = {"inline", "io", "error", "flow", "fixture", "assert", "bug"}
  Disturbances = {}
SPECIFICATION FairSpec
INVARIANTS
  TypeOK
  QuietIsQuiet
  NoFalseGreen
PROPERTIES
  Terminates
  KeepsContract
