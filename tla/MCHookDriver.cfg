CONSTANTS
  None = None
  Files <- TheFiles
  Defaults <- TheDefaults
  Topics = {"reload", "command", "dropped"}
  Routes = {"stock", "modified"}
  MaxEdits = 1
  MaxSets = 1
  MaxSent = 3
  MaxLoads = 2
SPECIFICATION Spec
INVARIANTS
  EachCommandOnce
  FileIsInForce
PROPERTIES
  SimDriverOnce
  EveryCommandIsHandled
  SwitchIsHeard
CHECK_DEADLOCK FALSE
