SPECIFICATION Spec
CONSTANTS
  o1 = o1
  o2 = o2
  t1 = t1
  Threads = {t1, t2}
  Objects = {o1, o2}
  Null = Null
  Lists <- WaitLists
  Durations <- WaitDurations
  Longest = 1
  RoutineTimes = {0, 2}
  MaxOwed = 1
  QueueBacklog = 1
  MaxFree = 3
INVARIANTS TypeOK TimeoutBounds HandedOutOnce ReportedOnce
CHECK_DEADLOCK FALSE
PROPERTY WaitReturns
