CONSTANTS
  NumRuns = 1
  c1 = c1
  c2 = c2
  Conn = {c1, c2}
  MaxSeq = 4
  QueueLimit = 2
  ReaderLimit = 2
  FinishedKept = 0
SPECIFICATION FairSpec
CHECK_DEADLOCK FALSE
PROPERTIES
  DeliversTheLog
  ViewersAreReleased
