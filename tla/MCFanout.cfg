CONSTANTS
  c1 = c1  c2 = c2
  Connections = {c1, c2}
  Bits = 3
  Setups <- AllSetups
SYMMETRY Both
SPECIFICATION Spec
INVARIANTS
  InCommitOrder
  SeesTheWorld
  ReachesWhoItIsFor
  NothingEscapesTheFilter
CHECK_DEADLOCK FALSE
