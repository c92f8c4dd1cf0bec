SPECIFICATION FairSpec
CONSTANTS
  A = A  B = B  C = C  a1 = a1  a2 = a2  b1 = b1  c1 = c1  c2 = c2  c3 = c3
  normal = normal  ranked = ranked
  Player = {A, B, C}  GameType = {normal, ranked}
  Call = {a1, a2, b1, c1, c2, c3}
  Caller <- MixedCaller  Kind <- MixedKind  Rating <- MixedRating
  AgainstAI = {c2}  Patient = {A, B}
  Crowds = {{a1, b1, c1}, {a1, c1, c2}, {a1, a2, b1}, {c1, c3}}
  MaxSubmitted = 1  MaxAge = 1
  AI = AI  NoCall = NoCall
INVARIANTS Inv OnlyHastyKill StartedIsKept MatchedOncePerCall
PROPERTIES ImplementsPairing PatientIsAnswered
CHECK_DEADLOCK FALSE
