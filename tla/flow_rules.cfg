CONSTANTS
  Shapes <- SmallFlows
  Mistaken <- OneFunction
  Workspaces <- ThreeFlows
  Entry = 1
  Laps = 2
  Count = 2
  MaxAttempts = 2
  MessageBudget = 16
  MaxChanges = 1
SPECIFICATION Spec
INVARIANTS
  FindsCycle
  WarningsHold
  FiringsAreComplete
  OneFixture
CHECK_DEADLOCK FALSE
