CONSTANTS
  None = None  Failed = Failed
  Topics <- AllTopics
  Ack <- TheAck
  LifecycleCap = 1
  Requests <- SomeRequests
  DEPTH_MARGIN = 1
  Digit = 3
  Word = 8
  MAX_ELEMENTS = 2
  Items <- SomeItems
  MaxItems = 2
SPECIFICATION Spec
INVARIANTS
  ReadsInside
  GeneratedIsRight
CHECK_DEADLOCK FALSE
