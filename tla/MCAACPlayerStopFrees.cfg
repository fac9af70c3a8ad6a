SPECIFICATION Spec
CONSTANTS
  BUFNUM = 2
  MaxSize = 1
  DecThreads = {d1}
  PlayThreads = {p1}
  NumFiles = 0
  Keys = {"next"}
  Faults = {}
INVARIANTS
  StopFreesAlone
