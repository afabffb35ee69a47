SPECIFICATION Spec
CONSTANTS
  t1 = t1
  t2 = t2
  t3 = t3
  t4 = t4
  null = null
  N = 2
  Counts = {2}
  Tasks = {t1, t2, t3}
  Invalid = {}
  Mask <- MCMask
  ClearMasks = {{0, 1}}
  Pushers = {p1}
  None = none
CHECK_DEADLOCK FALSE
INVARIANTS RemovesItsOwn
