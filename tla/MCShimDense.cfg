CONSTANTS
  Absent = Absent
  Calls <- TheCalls
  MaxEpoch = 3
SPECIFICATION ShimSpec
INVARIANT
  NamesTheFirstMissing
