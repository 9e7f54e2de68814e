CONSTANTS
  Interface <- TwoBuilds
  MaxMoves = 3
  Setups <- AllSetups
  Buffer = 2
  Wait = 2
SPECIFICATION Spec
INVARIANTS
  CaptureIsWhatCame
  TailTellsTheLosses
  ExitIsTrue
PROPERTIES
  RunsEnd
CHECK_DEADLOCK FALSE
