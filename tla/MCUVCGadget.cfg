SPECIFICATION FairSpec
CONSTANTS
  NumBufs = 2
  Asked <- HostAsked
  Large <- LargeFormats
  MaxEvents = 2
  Faults = {"fill", "qbuf", "format", "busy", "buffers", "start"}
  MaxOdd = 1
INVARIANTS
  TypeOK
  HostAndDeviceAgree
  FramesAsCommitted
  BuffersAccounted
PROPERTIES
  SentIsRefilled
