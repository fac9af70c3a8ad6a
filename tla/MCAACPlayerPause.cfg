SPECIFICATION Spec
CONSTANTS
  BUFNUM = 2
  MaxSize = 2
  DecThreads = {d1, d2}
  PlayThreads = {p1, p2}
  NumFiles = 2
  Keys = {"right", "backward"}
  Faults <- FileFaults
SYMMETRY ThreadSymmetry
CHECK_DEADLOCK FALSE
INVARIANTS
  TypeOK
  BeginsAlone
  ResourcesValid
  PausedIsSilent
PROPERTIES
  PauseHolds
