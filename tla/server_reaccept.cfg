SPECIFICATION Spec
CONSTANTS
  Handles = {h1, h2, h3}
  Sockets = {s1, s2, s3}
  None = none
  Backlog = 2
  MaxClients = 2
  MaxConns = 2
  MaxCreates = 2
  MaxClosers = 1
  MayDrop = TRUE
CHECK_DEADLOCK FALSE
INVARIANTS NewConnectionsOnly
