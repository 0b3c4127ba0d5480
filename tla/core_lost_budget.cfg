CONSTANTS
  MaxFrame = 1
  MaxTask = 2
  Budget = 2
  BatchSize = 2
  MaxFan = 2
  RequiredEnd = {FALSE}
  Features = {"error"}
  Disturbances = {}
SPECIFICATION Spec
INVARIANTS
  BudgetHitIsError
