SPECIFICATION FairSpec
CONSTANTS
  BUFNUM = 2
  MaxSize = 1
  DecThreads = {d1, d2}
  PlayThreads = {p1, p2}
  NumFiles = 0
  Keys = {"prev", "next", "home", "forward", "backward"}
  Faults <- AllFaults
PROPERTIES
  FileEnds
  StopReturns
