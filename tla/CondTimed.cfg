SPECIFICATION FairSpec
CONSTANTS
  t1 = t1
  t2 = t2
  t3 = t3
  NULL = NULL
  Thread = {t1, t2, t3}
  Waiters = {t1}
  NBits = 2
  Timed = TRUE
INVARIANTS
  NoLostWaiter
  SafeDestroy
PROPERTY
  SignalWakes
CHECK_DEADLOCK FALSE
