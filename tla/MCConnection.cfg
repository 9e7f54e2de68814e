CONSTANTS
  c1 = c1
  Conns = {c1}
  MaxSessions = 1
  Capacity = 4
  MaxPings = 1
  MaxRecords = 1
SPECIFICATION ReaderSpec
INVARIANTS
  StreamHasBothEnds
PROPERTIES
  SlotIsFreed
  SilentIsClosed
  EndsTogether
  StopReturns
CHECK_DEADLOCK FALSE
