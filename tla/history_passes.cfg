CONSTANTS
  Proc = {p1, p2}
  Run = {1, 2, 3}
  Stamp <- StampValue
  History = 1
  Big = {1}
  MaxFaults = 1
  NoRun = NoRun
  NoProc = NoProc
  Dead = Dead
SPECIFICATION Spec
INVARIANTS
  LeasedIsWhole
  WholeOrClaimed
  NewestAreKept
PROPERTIES
  DrivenIsUntouched
  NewRunSortsLast
  ClaimsEnd
CHECK_DEADLOCK FALSE
