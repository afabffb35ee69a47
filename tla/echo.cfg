SPECIFICATION Spec
CONSTANTS
  Count = 3
  MaxWait = 2
CHECK_DEADLOCK FALSE
INVARIANTS TypeOK NothingLostOrTwice WaitsAlive MembersAlive
PROPERTIES TasksDrain AllReturn MainReturns
