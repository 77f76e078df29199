SPECIFICATION Spec
CONSTANTS
  None = None
  c1 = c1
  c2 = c2
  r1 = r1
  Controllers = {c1, c2}
  Readers = {r1}
  MaxEpoch = 2
  MaxMutations = 1
  MaxRestores = 1
  Overlap = TRUE
SYMMETRY Symmetry
INVARIANTS OneHolderPerEpoch MirrorFollowsLease InterlockExclusive
PROPERTIES RecordEpochMonotone AdvanceRespectsInterlock
CHECK_DEADLOCK FALSE
