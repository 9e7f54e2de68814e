CONSTANTS
  None = None  Failed = Failed
  Topics <- AllTopics
  Ack <- TheAck
  LifecycleCap = 1
  Requests <- OneRequest
  DEPTH_MARGIN = 1
  Digit = 3
  Word = 8
  MAX_ELEMENTS = 2
  Items <- EntryItems
  MaxItems = 1
SPECIFICATION Spec
INVARIANTS
  ReadsWhatWasSent
CHECK_DEADLOCK FALSE
