SPECIFICATION ProcessesSpec
CONSTANTS
  BrokerNamespaces <- Tenants
  Topics <- TwoTopics
  Queues <- OneQueue
  BrokerStreams = {b1, b2}
  MaxMessages = 2
  Routers = {r1, r2}
  NamedRouters = {r1}
  RouteNames = {a}
  RouterStreams = {w1}
  Blank = blank
  MaxRouteEvents = 2
  InitServices <- TwoServices
  ChannelSize = 1
  MaxFileChanges = 2
  BotServices = {s1}
  BotNodes = {m1, m2}
  Inputs = {i1, i2}
  MaxBotChanges = 3
  MaxBotMessages = 1
CHECK_DEADLOCK FALSE
INVARIANTS
  ProcessesTypeOK
  ProcessesFaithful
  StartupClean
PROPERTIES
  ServicesProceed
