CONSTANTS
  NumRuns = 2
  c1 = c1
  c2 = c2
  Conn = {c1, c2}
  MaxSeq = 1
  QueueLimit = 1
  ReaderLimit = 1
  FinishedKept = 1
SPECIFICATION Spec
CHECK_DEADLOCK FALSE
INVARIANTS
  LeasesAreExact
  ResyncIsPossible
  PlacesAreExact
  RegistryIsBounded
