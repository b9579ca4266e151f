SPECIFICATION HealthySpec
CONSTANTS
  m1 = m1
  m2 = m2
  w1 = w1
  w2 = w2
  NoImage = NoImage
  NoEvent = NoEvent
  Services = {s1}
  TTL = 1
  Managers = {m1}
  Watchers = {w1}
  WatcherOwner <- OneManager
  Images = {i1}
  EventIds = {e1, e2}
  MaxNow = 2
  MaxFaults = 0
INVARIANTS
  RuntimesAgreeWithStore
CHECK_DEADLOCK FALSE
