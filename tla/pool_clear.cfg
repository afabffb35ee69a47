SPECIFICATION Spec
CONSTANTS
  t1 = t1
  t2 = t2
  t3 = t3
  t4 = t4
  null = null
  N = 2
  Counts = {0, 1, 2}
  Tasks = {t1, t2, t3, t4, null}
  Invalid = {null}
  Mask <- MCMask
  ClearMasks = {{0, 1}}
  Pushers = {p1, p2}
  None = none
SYMMETRY Symmetry
CHECK_DEADLOCK FALSE
INVARIANTS TypeOK InPushOrder SleeperIsNotified NeverRefused
