SPECIFICATION Spec
CONSTANTS
  cost = cost  attack = attack
  Field = {cost, attack}
  Value = {0, 1, 2}
  Unset = Unset
  Updates <- SomeUpdates
  MaxChanges = 3
INVARIANTS Inv RestartKeeps
PROPERTIES RevertRestores
CHECK_DEADLOCK FALSE
