SPECIFICATION FairSpec
CONSTANTS
  Threads = {th1, th2}
  Tasks = {k1, k2}
  Events = {e1, e2}
  None = none
  MaxWrites = 3
CHECK_DEADLOCK FALSE
INVARIANTS TypeOK EventsExclusive WaitMeansDone FreedOnlyInHaste
PROPERTIES EveryWriteAwaited
