SPECIFICATION FairSpec
CONSTANTS
  BUFNUM = 2
  MaxSize = 1
  DecThreads = {d1}
  PlayThreads = {p1}
  NumFiles = 0
  Keys = {"right"}
  Faults = {}
CHECK_DEADLOCK FALSE
PROPERTIES
  PauseReturns
