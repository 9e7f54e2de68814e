CONSTANTS
  Capacity = 2
  MaxRecords = 5
SPECIFICATION PushOnlySpec
PROPERTIES
  NextPushFindsRoom
CHECK_DEADLOCK FALSE
