SPECIFICATION FairSpec
CONSTANTS
  t1 = t1
  t2 = t2
  g = g
  m = m
  a = a
  b = b
  NULL = NULL
  Task = {t1, t2}
  Table = {g, m}
  Key = {a, b}
  Holds <- MCHolds
  Length = 3
INVARIANTS
  ListSound
  CachedHeld
  RightUntilOverrun
PROPERTIES
  ImplementsLru
  LookupReturns
CHECK_DEADLOCK FALSE
