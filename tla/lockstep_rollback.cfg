SPECIFICATION Spec
CONSTANTS
  P1 = P1  P2 = P2
  Player <- Both
  HashAcks <- First
  Diverged <- First
  Conceders = {}
  Reliable = FALSE
  MaxHistory = 2  Threshold = 1
  MaxFrame = 3  MaxRequest <- NoneAndTwo  MaxAck = 1  MaxRollback = 1
INVARIANTS
  Inv
  ActionsRecordedOnce
PROPERTIES
  WedgeIsPermanent
CHECK_DEADLOCK FALSE
