SPECIFICATION FairSpec
CONSTANTS
  m = m
  t1 = t1
  t2 = t2
  t3 = t3
  a1 = a1
  a2 = a2
  NULL = NULL
  Main = m
  Task = {m, t1, t2}
  Addr = {a1, a2}
  Kinds <- JoinableKinds
  Calls = {"join"}
  Faults = {}
INVARIANTS
  MutualExclusion
  ListsSound
  HeldInsideOnly
  WaitsForLiveThread
PROPERTIES
  ExitCompletes
  JoinCompletes
CHECK_DEADLOCK FALSE
