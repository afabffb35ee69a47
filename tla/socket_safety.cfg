SPECIFICATION Spec
CONSTANTS
  Data = {a, b, nil}
  Empty = nil
  Length <- MCLength
  Users = {u1, u2}
  SelfJoin = {"callback", "abandoned"}
  MaxSent = 3
  MaxSessions = 2
SYMMETRY Symmetry
CHECK_DEADLOCK FALSE
INVARIANTS TypeOK DeliveredInOrder InFlightIsAwaited NotGoodMeansQuiet
