SPECIFICATION Spec
CONSTANTS
  None = None
  Calls = {c1, c2, c3}
  Paths = {p1, p2}
  MaxFaults = 1
INVARIANTS
  TypeOK
  LastEventIsRecord
PROPERTIES
  ImplementsMap
SYMMETRY Symmetry
CHECK_DEADLOCK FALSE
