CONSTANTS
  c1 = c1  c2 = c2
  Connections = {c1, c2}
  Bits = 3
  Setups <- OneReply
SYMMETRY Both
SPECIFICATION Spec
INVARIANTS
  ResultBeforeRecords
CHECK_DEADLOCK FALSE
