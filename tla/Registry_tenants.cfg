SPECIFICATION RegistrySpec
CONSTANTS
  Namespaces = {n1, n2}
  DefaultNamespace = n1
  ServiceNames = {a}
  RegistryNodes = {rn1, rn2}
  RegistryStreams = {}
  MaxRegistryCalls = 2
INVARIANTS
  TenantsFindTheirServices
CHECK_DEADLOCK FALSE
