SPECIFICATION Spec
CONSTANTS
  Entry = {e1, e2, e3}
  Block = {b1, b2}
  Name = {m, n}
  FD = {f1}
  DD = {d1}
  Size = 5
  MaxDepth = 3
  Leak = {l1}
  Slips = {}
  NULL = NULL
SYMMETRY Perms
INVARIANTS
  TreeSound
  HandlesSound
  SpaceCounted
  UmountLive
PROPERTY
  ImplementsNamespace
CHECK_DEADLOCK FALSE
