SPECIFICATION CleanupSpec
CONSTANTS
  x = x
  y = y
  NULL = NULL
  Item = {x, y}
  MaxIndexes = 5
  NoMemory = FALSE
  Careful = TRUE
INVARIANT
  StackSound
PROPERTY
  ImplementsStack
