SPECIFICATION FairSpec
CONSTANTS
  BUFNUM = 3
  MaxSize = 2
  MaxSamples = 8
INVARIANTS
  TypeOK
  CountInBounds
  WriteInBlock
  InOrderUnlessRaced
  CountExactUnlessRaced
PROPERTIES
  StreamUnlessRaced
  BothEnd
