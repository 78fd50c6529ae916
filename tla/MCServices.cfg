SPECIFICATION SuiteSpec
CONSTANTS
  Policies = {"off", "block"}
  Listed = {"block"}
  DefaultPolicy = "off"
  MaxRevision = 2
  MaxList = 1
  OPERATION_RETENTION = 1
  MaxMishaps = 1
  Operators = {"s"}
  Prints = {"x", "y"}
  FirstPrint = "x"
  DnsPolicies = {"p", "q"}
  FirstPolicy = "p"
  MAX_PREVIEWS = 1
  MaxCanon = 3
  MaxPolicy = 1
  MaxRestores = 2
  MaxUpsets = 1
  MaxLookups = 3
  PENDING_MAX_ENTRIES = 2
  BATCH_MAX_ENTRIES = 1
  DNS_MAX_DRAIN_PAGES = 2
  DNS_FLUSH_EVERY = 1
  QueueCapacity = 1
  MAX_ALERTS = 1
  MaxTroubles = 1
  OUTAGE_WINDOW = 2
  COOLDOWN = 3
  SAMPLE_MAX_AGE = 1
  RECENT = 1
  MaxGatewayUpsets = 2
INVARIANTS
  FilterSound RestoreSound ActivitySound GatewaySound
PROPERTIES
  ServiceSteps
CHECK_DEADLOCK FALSE
