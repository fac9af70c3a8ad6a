SPECIFICATION FairSpec
CONSTANTS
  HoldCount = 3
  MaxPending = 2
  Faults = {"key", "command", "clock", "display"}
INVARIANTS
  TypeOK
  DisplayAgrees
  OffHasReason
PROPERTIES
  HeldKeyPowersOff
