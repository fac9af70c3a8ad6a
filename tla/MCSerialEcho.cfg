SPECIFICATION FairSpec
CONSTANTS
  PATTERN_SIZE = 4
  TxSize = 2
  RxSize = 4
  MaxLoops = 3
  WritesFail = TRUE
CHECK_DEADLOCK FALSE
INVARIANTS
  TypeOK
  BytesConserved
  NothingLost
  NeverMismatch
PROPERTIES
  LoopsGoOn
