CONSTANTS
  Capacity = 2
  MaxRecords = 7
SPECIFICATION ProducerFairSpec
INVARIANTS
  SlotsAreExclusive
  PushNeverPanics
  RingInvariant
PROPERTIES
  NoneMeansEmpty
  ImplementsQueue
  PushReturns
CHECK_DEADLOCK FALSE
