SPECIFICATION Spec
CONSTANTS
  None = None
  Streams = {s1, s2}
  Events = {e1, e2}
INVARIANTS
  TypeOK
  ClosedIsForgotten
PROPERTIES
  ImplementsFeed
  GoneStreamsEnd
  EventsHandled
CHECK_DEADLOCK FALSE
