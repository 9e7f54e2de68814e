CONSTANTS
  Nothing = Nothing
  Base = 4
  Fixed = 2
  MaxDepth = 2
  RecordTopics <- TheTopics
  Caps = {15, 26}
  MaxLifecycle = 20
  Ids = {7}
  Puts <- ThePuts
  MaxCalls = 5
  MaxBegins = 2
SPECIFICATION EncoderSpec
INVARIANTS
  TailSaysWhatWasPut
  RecordsAreTheirOwn
CHECK_DEADLOCK FALSE
