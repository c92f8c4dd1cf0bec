SPECIFICATION Spec
CONSTANTS
  P1 = P1  P2 = P2  NoCard = NoCard  NoPlayer = NoPlayer
  taunt1 = taunt1  rattle1 = rattle1  rattle2 = rattle2  grunt2 = grunt2
  bolt2 = bolt2  charge1 = charge1  blade1 = blade1  heal1 = heal1
  missiles1 = missiles1  blade2 = blade2  draw2 = draw2  storm2 = storm2
  Card <- MinionCards
  Owner <- MinionOwner
  Template <- MinionTemplate
  Decks <- MinionDecks
  MaxHealth = 2  MaxMana = 2  MaxHand = 2  MaxBoard = 2
  Opening1 = 1  Opening2 = 2
  Rapid = FALSE
  MaxTurn = 4  MaxDepth = 3
PROPERTY TauntFirst
CHECK_DEADLOCK FALSE
