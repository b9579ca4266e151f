SPECIFICATION ServiceSpec
CONSTANTS
  None = None
  Replicas = {r1, r2}
  DefaultId = default
  DefaultSecret = password
  OtherTokens = {t1}
  Neighbours <- NeighbourTokens
  Ids = {default, alice}
  Calls = {c1, c2}
  MaxFaults = 1
  DefaultRuleId = defaultRule
  RuleIds = {defaultRule, open}
  RuleCalls = {d1, d2}
  MaxRuleFaults = 1
  MaxCrashes = 1
  MaxCalls = 2
INVARIANTS
  TypeOK
  RulesTypeOK
  RefreshTokenHasAccount
  GeneratedCanLogIn
  VerifiedHasUser
  ListNotEmpty
PROPERTIES
  AccountsNeverReplaced
  RulesNeverReplaced
  EveryCallServed
CHECK_DEADLOCK FALSE
