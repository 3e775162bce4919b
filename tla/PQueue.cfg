CONSTANTS
  e1 = e1
  e2 = e2
  e3 = e3
  e4 = e4
  None = None
  Entries = {e1, e2, e3, e4}
  Bounds <- MCBounds
  Targets = {0, 2}
SYMMETRY MCSymmetry
SPECIFICATION Spec
INVARIANT HeapOrder
PROPERTY PlacesKept
CHECK_DEADLOCK FALSE
