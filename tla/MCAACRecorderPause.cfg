SPECIFICATION FairSpec
CONSTANTS
  BUFNUM = 3
  BUFSIZE = 3
  BlockSize = 3
  Header = 1
  MaxInput = 6
  Faults = {}
PROPERTIES
  PauseReturns
