SPECIFICATION Spec
CONSTANTS
  p = p
  q = q
  r = r
  v1 = v1
  v2 = v2
  Keys = {p, q, r}
  Values = {v1, v2}
  HashOf <- MCHashOf
  MaxCap = 16
  MaxCount = 6
SYMMETRY Symmetry
CHECK_DEADLOCK FALSE
INVARIANTS
  EntriesAreReachable
  FindSlotReturns
  LoadIsBounded
  CountIsEntriesAndMisses
PROPERTIES
  ImplementsMapUntilRemoval
