SPECIFICATION FairSpec
CONSTANTS
  P1 = P1  P2 = P2  NoPlayer = NoPlayer  Monitor = Monitor  Manager = Manager
  Conceders = {P1, P2}
  Stops = TRUE  Flaky = TRUE  RelockBlocks = FALSE
  MaxActions = 1
INVARIANTS Inv PayoutsAgree FlushedIsStored
PROPERTIES EndingCompletes FlushNeverBack
CHECK_DEADLOCK FALSE
