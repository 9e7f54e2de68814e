CONSTANTS
  c1 = c1
  Conns = {c1}
  MaxSessions = 1
  Capacity = 4
  MaxPings = 1
  MaxRecords = 0
SPECIFICATION Spec
INVARIANTS
  ReturnsEverySlot
CHECK_DEADLOCK FALSE
