SPECIFICATION FairSpec
CONSTANTS
  Handles = {h1, h2}
  Sockets = {s1, s2}
  None = none
  Backlog = 2
  MaxClients = 2
  MaxConns = 2
  MaxCreates = 1
  MaxClosers = 2
  MayDrop = FALSE
CHECK_DEADLOCK FALSE
INVARIANTS NewConnectionsOnly ActiveOwnsPipe
PROPERTIES EveryClientEvaluated ClosedIsRecycled CloseEnds
