SPECIFICATION Spec
CONSTANTS
  m = m
  t1 = t1
  t2 = t2
  t3 = t3
  a1 = a1
  a2 = a2
  NULL = NULL
  Main = m
  Task = {m, t1, t2}
  Addr = {a1, a2}
  Kinds <- StartKinds
  Calls = {}
  Faults = {}
INVARIANTS
  StartedRuns
CHECK_DEADLOCK FALSE
