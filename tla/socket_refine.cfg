SPECIFICATION FairSpec
CONSTANTS
  Data = {a, nil}
  Empty = nil
  Length <- MCLength
  Users = {u1}
  SelfJoin = {}
  MaxSent = 3
  MaxSessions = 2
INVARIANTS OnCloseOnce
PROPERTIES CloseReturns AllDelivered ImplementsChannel
CHECK_DEADLOCK FALSE
