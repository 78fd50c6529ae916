SPECIFICATION SuiteSpec
CONSTANTS
  BODY_LIMIT = 1
  DRAIN_LIMIT = 1
  MaxBody = 2
  MaxRequests = 1
  MAX_CONNECTIONS = 1
  MaxBacklog = 1
  MaxLookups = 1
  PENDING_MAX_ENTRIES = 1
  BATCH_MAX_ENTRIES = 1
  DNS_MAX_DRAIN_PAGES = 1
  DNS_FLUSH_EVERY = 2
  QueueCapacity = 1
  MAX_ALERTS = 1
  MaxTroubles = 1
  MaxVersions = 3
  Entries <- MCEntries
  MaxCrashes = 1
  MaxFailures = 1
  Devices = {"a"}
  MAX_DEVICE_PAUSES = 1
  PauseSeconds = {0, 1}
  MaxClock = 1
  MaxFaults = 1
  OUTAGE_WINDOW = 1
  COOLDOWN = 2
  SAMPLE_MAX_AGE = 1
  RECENT = 1
  MaxGatewayUpsets = 1
  MaxBytes = 2
  MaxTables = 3
  MaxMisses = 1
  Published = {2, 3}
  Prereleases = {}
  Incompatible = {3}
  MaxUpdates = 1
  MaxUpdateFaults = 1
  Configs = {"a", "b"}
  FirstConfig = "a"
  MaxRow = 2
  SNAPSHOT_RETENTION_PER_KIND = 1
  MaxBreaks = 2
PROPERTIES
  NoWakeupLost
  WorkEnds
  Recovers
CHECK_DEADLOCK FALSE
