SPECIFICATION Spec
CONSTANTS
  Elems = {e1, e2, e3, e4}
  Null = Null
  Wild = Wild
  MaxPops = 2
SYMMETRY Symmetry
INVARIANTS
  Linked
  CursorIsLive
  NothingLeaks
  IndexingIsRight
  LenCountsAllButPops
PROPERTIES
  ImplementsList
