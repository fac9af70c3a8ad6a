SPECIFICATION FairSpec
CONSTANTS
  BUFNUM = 3
  BUFSIZE = 3
  BlockSize = 3
  Header = 1
  MaxInput = 17
  Faults <- AllFaults
INVARIANTS
  TypeOK
  RecordedInOrder
  WholeFramesRecorded
  EncodesIntoOpenFile
PROPERTIES
  RecorderEnds
