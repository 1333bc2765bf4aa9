SPECIFICATION Spec
CONSTANTS
  x = x
  y = y
  z = z
  NULL = NULL
  Item = {x, y}
  MaxIndexes = 4
  NoMemory = TRUE
  Careful = TRUE
INVARIANTS
  NoSlotLost
  Sound
PROPERTY
  ImplementsTable
CHECK_DEADLOCK FALSE
