CONSTANTS
  Client = {t1, t2}
  NoClient = NoClient
  MaxVersions = 3
  MaxReads = 1
  MaxFaults = 1
SPECIFICATION Spec
INVARIANTS
  OnlyOvertakenReloadsDrop
  OnlyRacesLose
PROPERTIES
  SavesSettle
CHECK_DEADLOCK FALSE
