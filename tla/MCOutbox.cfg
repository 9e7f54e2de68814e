CONSTANTS
  Capacity <- SmallRings
  MaxSeq = 5
SPECIFICATION Spec
INVARIANTS
  OutboxInv
PROPERTIES
  ImplementsStream
CHECK_DEADLOCK FALSE
