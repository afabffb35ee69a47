SPECIFICATION Spec
CONSTANTS
  t1 = t1
  t2 = t2
  t3 = t3
  t4 = t4
  null = null
  N = 2
  Counts = {1, 2}
  Tasks = {t1, t2}
  Invalid = {}
  Mask <- LastMask
  ClearMasks = {}
  Pushers = {p1}
  None = none
CHECK_DEADLOCK FALSE
INVARIANTS RejectedFitsNone
