SPECIFICATION FairSpec
CONSTANTS
  P1 = P1  P2 = P2  NoPlayer = NoPlayer  Monitor = Monitor  Manager = Manager
  Conceders = {P1}
  Stops = FALSE  Flaky = FALSE  RelockBlocks = TRUE
  MaxActions = 1
PROPERTY SnapshotsGoOn
CHECK_DEADLOCK FALSE
