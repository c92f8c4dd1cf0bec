SPECIFICATION FairSpec
CONSTANTS
  P1 = P1  P2 = P2
  Player <- Both
  HashAcks <- Both
  Diverged = {}
  Conceders <- Second
  Reliable = TRUE
  MaxHistory = 2  Threshold = 3
  MaxFrame = 3  MaxRequest <- TwoAndOne  MaxAck = 1  MaxRollback = 1
INVARIANTS
  HistoryIsWindow
  HonestAcksAgree
  NumbersInStep
PROPERTIES
  RequestsAnswered
CHECK_DEADLOCK FALSE
