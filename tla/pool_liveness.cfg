SPECIFICATION FairSpec
CONSTANTS
  t1 = t1
  t2 = t2
  t3 = t3
  t4 = t4
  null = null
  N = 2
  Counts = {2}
  Tasks = {t1, t2, t3}
  Invalid = {}
  Mask <- MCMask
  ClearMasks = {}
  Pushers = {p1, p2}
  None = none
CHECK_DEADLOCK FALSE
PROPERTIES ImplementsQueues EveryTaskRuns StopsUnlessDrowsy
