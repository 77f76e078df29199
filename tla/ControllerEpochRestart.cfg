SPECIFICATION FairSpec
CONSTANTS
  None = None
  c1 = c1
  c2 = c2
  c3 = c3
  Controllers = {c1, c2, c3}
  Readers = {}
  MaxEpoch = 3
  MaxMutations = 1
  MaxRestores = 0
  Overlap = FALSE
PROPERTY TakeoverCompletes
CHECK_DEADLOCK FALSE
