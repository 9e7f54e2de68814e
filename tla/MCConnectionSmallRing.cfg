CONSTANTS
  c1 = c1
  Conns = {c1}
  MaxSessions = 1
  Capacity = 1
  MaxPings = 1
  MaxRecords = 0
SPECIFICATION Spec
INVARIANTS
  HandshakeFirst
CHECK_DEADLOCK FALSE
