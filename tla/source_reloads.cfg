CONSTANTS
  Client = {t1}
  NoClient = NoClient
  MaxVersions = 3
  MaxReads = 2
  MaxFaults = 0
SPECIFICATION Spec
INVARIANT
  EditsSurvive
CHECK_DEADLOCK FALSE
