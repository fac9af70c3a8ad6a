SPECIFICATION Spec
CONSTANTS
  BlockLen = 2
  AreaBlocks = 7
  AddressBlocks = 8
  MaxBad = 2
  MaxRuns = 2
  MaxFaults = 1
  Inis <- MCInis
INVARIANTS
  TypeOK
  CopiesSurvive
CHECK_DEADLOCK FALSE
