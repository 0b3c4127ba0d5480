CONSTANTS
  MaxFrame = 1
  MaxTask = 2
  Budget = 3
  BatchSize = 2
  MaxFan = 2
  RequiredEnd = {FALSE}
  Features = {"io", "flow"}
  Disturbances = {"ceiling"}
SPECIFICATION FairSpec
CHECK_DEADLOCK FALSE
PROPERTIES
  QuietTerminates
