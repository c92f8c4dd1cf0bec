SPECIFICATION Spec
CONSTANTS
  A = A  B = B  C = C  a1 = a1  a2 = a2  b1 = b1  c1 = c1  c2 = c2  c3 = c3
  normal = normal  ranked = ranked
  Player = {A, B, C}  GameType = {normal}
  Call = {a1, b1, c1}
  Caller <- MixedCaller  Kind <- MixedKind  Rating <- MixedRating
  AgainstAI = {}  Patient = {A, B, C}
  Crowds = {{a1, b1, c1}}
  MaxSubmitted = 0  MaxAge = 3
  AI = AI  NoCall = NoCall
INVARIANT RatingsAreClose
CHECK_DEADLOCK FALSE
