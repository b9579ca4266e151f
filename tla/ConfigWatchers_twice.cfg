SPECIFICATION Spec
CONSTANTS
  None = None
  Streams = {s1}
  Events = {e1}
INVARIANTS
  NeverClosedTwice
CHECK_DEADLOCK FALSE
