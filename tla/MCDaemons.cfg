SPECIFICATION SuiteSpec
CONSTANTS
  LIMIT = 2
  WINDOW = 4
  SECOND = 2
  Offsets = {0, 3, 9}
  MaxTime = 10
  MaxSteps = 2
  Lans = {"l1", "l2"}
  Tunnels = {"w1", "w2"}
  Names = {"n1"}
  FirstEndpoint <- MCEndpoint
  Handshakes = {1, 2}
  MaxEngineSteps = 2
  MaxWriteFaults = 1
  MaxFailures = 3
  MaxVersions = 4
  Entries <- MCEntries
  MaxCrashes = 3
  MaxBytes = 3
  MaxTables = 3
  MaxMisses = 1
  MAX_CONNECTIONS = 1
  MaxBacklog = 2
  Configs = {"a", "b"}
  FirstConfig = "a"
  MaxRow = 3
  SNAPSHOT_RETENTION_PER_KIND = 2
  MaxBreaks = 3
  BODY_LIMIT = 1
  DRAIN_LIMIT = 1
  MaxBody = 2
  MaxRequests = 2
  Published = {2, 3}
  Prereleases = {3}
  Incompatible = {3}
  MaxUpdates = 2
  MaxUpdateFaults = 1
  Devices = {"a", "b"}
  MAX_DEVICE_PAUSES = 1
  PauseSeconds = {0, 2}
  MaxClock = 2
  MaxFaults = 1
INVARIANTS
  LimiterSound EndpointSound StartupSound FeedSound TrafficSound
  ShutdownSound RecoverySound HttpSound UpdateSound PauseSound
PROPERTIES
  DaemonSteps
CHECK_DEADLOCK FALSE
