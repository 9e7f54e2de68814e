CONSTANTS
  Capacity = 2
  MaxRecords = 3
  RecordsPerPass = 2
  LooksBeforePark = 1
  MaxSends = 2
SPECIFICATION LoopFairSpec
INVARIANTS
  LoopInv
PROPERTIES
  CommittedIsFanned
  StopReturns
CHECK_DEADLOCK FALSE
