SPECIFICATION FairSpec
CONSTANTS
  l1 = l1
  l2 = l2
  l3 = l3
  c1 = c1
  c2 = c2
  NULL = NULL
  Listener = {l1, l2, l3}
  Caster = {c1}
  Waits = {TRUE}
  QLen = 1
  DoneLen = 3
INVARIANTS
  PendingCounts
  AllDone
PROPERTY
  BroadcastReturns
