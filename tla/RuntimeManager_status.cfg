SPECIFICATION MCSpec
CONSTANTS
  m1 = m1
  s1 = s1
  s2 = s2
  bare = bare
  default = default
  other = other
  NoImage = NoImage
  NoEvent = NoEvent
  Managers = {m1}
  Watchers = {w1}
  WatcherOwner <- OneManager
  DefaultNamespace = default
  Images = {i1}
  Namespaces = {default, other}
  NamespaceOf <- TwoNamespaces
  Services = {s1, s2, bare}
  Bare = {bare}
  EventIds = {e1}
  TTL = 2
  MaxNow = 5
  MaxFaults = 1
INVARIANTS
  StatusTypeOK
  MarkerOutlivesEvent
PROPERTIES
  ConsumedUntilExpiry
  RunningEventuallyReported
