SPECIFICATION ServicesSpec
CONSTANTS
  Namespaces = {n1, n2}
  DefaultNamespace = n1
  ServiceNames = {a}
  RegistryNodes = {rn1, rn2}
  RegistryStreams = {w1}
  MaxRegistryCalls = 2
  RuntimeNamespaces <- RunNamespaces
  RuntimeDefault <- DefaultRun
  RunNames <- SomeRunNames
  RunVersions <- SomeVersions
  Latest <- LatestVersion
  LogStreams = {l1}
  MaxRuntimeCalls = 2
  MaxLogRecords = 1
  StoreNamespaces = {d1, gomicro, noname}
  NamedDatabases = {d1}
  NamedTables = {internal}
  StoreKeys = {k1}
  NoName = noname
  GoMicroNs = gomicro
  MicroDb = micro
  InternalTable = internal
  OptionsDatabase = micro
  OptionsTable = store
  StoreCallers = {sc1, sc2}
  MaxStoreCalls = 3
  MaxStoreFaults = 1
  MaxStoreRestarts = 1
  SnapshotKeys = {k1, k2}
  RecordValues = {v1}
  Expiries = {e1}
  Zero = zero
  Absent = absent
  MaxSourceChanges = 3
  MaxSnapshotFaults = 1
  Listed <- ListedServices
  Nodes = {"n1", "n2"}
  Spans <- SomeSpans
  NodeOf <- SpanNodes
  TraceOf <- SpanTraces
  InName <- SpanNames
  Limits = {0, 1, 2}
  Window = 2
  MaxRounds = 3
  MaxScans = 2
  MaxListings = 2
  WindowTotal = 2
  MaxRequests = 3
  MaxRolls = 3
  MaxStarts = 2
  Hosts <- SomeHosts
  Addresses <- SomeAddresses
  Hostname <- SomeHostname
  Paths <- SomePaths
  PathNames = {"a", "b", "rpc", "v1", "dev", "service"}
  VersionNames = {"v1"}
  WebServices <- SomeServices
  MaxWebChanges = 1
  Commanders = {"p", "q"}
  AddedEnvs = {"x"}
  BuiltinEnvs = {"local"}
  Unset = ""
  MaxInterrupts = 1
  ServiceNodes = {sn1, sn2}
  Rule = rule
  SyncKeys = {sk1, sk2}
  SyncValues = {sv1, sv2}
  NoRecord = norecord
  MaxWorldChanges = 2
  MaxCommands = 2
SYMMETRY Symmetry
CHECK_DEADLOCK FALSE
INVARIANTS
  ServicesTypeOK
  EventsTellTheRegistry
  CallersSeeTheirOwn
  TablesListed
  SnapshotsFaithful
  SpansKeptOnce
  CacheComplete
  ReadsTellAll
  GatewayFaithful
  
