SPECIFICATION ServiceSpec
CONSTANTS
  None = None
  Replicas = {r1}
  DefaultId = default
  DefaultSecret = password
  OtherTokens = {}
  Neighbours <- NeighbourTokens
  Ids = {default}
  Calls = {}
  MaxFaults = 0
  DefaultRuleId = defaultRule
  RuleIds = {defaultRule, open}
  RuleCalls = {d1, d2}
  MaxRuleFaults = 1
  MaxCrashes = 0
  MaxCalls = 2
INVARIANTS
  CachedMeansSetUp
CHECK_DEADLOCK FALSE
