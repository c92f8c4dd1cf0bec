SPECIFICATION FairSpec
CONSTANTS
  A = A  B = B  a1 = a1  a2 = a2  b1 = b1
  Spectator = {A, B}  Call = {a1, a2, b1}
  Crowds = {{a1, a2}, {b1}}
  Who <- SomeWho
  MaxActions = 2  MaxShared = 0  StreamCap = 1  SubCap = 1
  NoCall = NoCall
INVARIANTS Inv NoSkip OnlyLeaversKill
PROPERTIES NothingLeftBehind WatchersSeeAll
CHECK_DEADLOCK FALSE
