SPECIFICATION Spec
CONSTANTS
  m1 = m1
  m2 = m2
  w1 = w1
  w2 = w2
  NoImage = NoImage
  NoEvent = NoEvent
  Services = {s1}
  TTL = 1
  Managers = {m1, m2}
  Watchers = {w1, w2}
  WatcherOwner <- OneWatcherEach
  Images = {i1}
  EventIds = {e1}
  MaxNow = 2
  MaxFaults = 1
INVARIANTS
  TypeOK
  AppliedOncePerThread
  MarkedMeansApplied
PROPERTIES
  ImplementsDelivery
  EventuallyConsumed
