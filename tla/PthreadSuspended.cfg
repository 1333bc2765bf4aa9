SPECIFICATION Spec
CONSTANTS
  m = m
  t1 = t1
  t2 = t2
  t3 = t3
  a1 = a1
  a2 = a2
  NULL = NULL
  Main = m
  Task = {m, t1, t2, t3}
  Addr = {a1, a2}
  Kinds <- SuspendedKinds
  Calls = {"resume"}
  Faults = {"lstadd_active", "task_args", "lstadd_inactive", "mqtt"}
SYMMETRY Perms
INVARIANTS
  Safety
  CreatedStillThere
  TaskIsRunner
CHECK_DEADLOCK FALSE
