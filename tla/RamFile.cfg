SPECIFICATION Spec
CONSTANTS
  h1 = h1
  h2 = h2
  NULL = NULL
  Handle = {h1, h2}
  Byte = {0, 1}
  BlockSize = 2
  MaxBlocks = 3
  MaxOffset = 6
  MaxCount = 2
  Slips = {}
SYMMETRY Perms
INVARIANTS
  BlocksFitSize
  HandleSound
PROPERTY
  ImplementsFile
