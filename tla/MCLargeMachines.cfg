SPECIFICATION MachinesSpec
CONSTANTS
  a1 = a1
  a2 = a2
  cli = cli
  s1 = s1
  s2 = s2
  k1 = k1
  None = None
  Threads <- Actors
  Cli = cli
  Secrets <- MCSecrets
  Tokens <- MCTokens
  Entries <- MCEntries
  Settings <- MCSettings
  Workloads <- MCWorkloads
  LastHash = 2
  Lifetime = 1
  LastTime = 1
  Nothing = Nothing
  Unmatched = Unmatched
  Everyone = Everyone
  Pruners <- Actors
  Prefixes <- MCPrefixes
  Datagrams <- MCDatagrams
  Retention = 1
  MaxRows = 2
  ChunkSize = 1
  HourLength = 2
  LastSecond = 2
  LastId = 4
  r1 = r1
  All = All
  Broken = Broken
  Gone = Gone
  Unlimited = Unlimited
  Absent = Absent
  Downloads <- Actors
  Repos <- MCRepos
  RepoOf <- MCRepoOf
  Chunk = 2
  Contents <- MCContents
  Forget = 2
  Burst = 2
  Day = 3
  Days = 2
  Writes = 3
  Edits = 2
  Attempts = 2
  NoCopy = NoCopy
CHECK_DEADLOCK FALSE
SYMMETRY Symmetric
INVARIANTS
  ReportsAreExact
  QueueIsExact
  WithinRate
  PolicyVouched
  NothingRunsOnPieces
PROPERTIES
  EditsAreSerial
  WritesAreAuthorised
  RevokedIsFrozen
  NewestAreKept
  LimitIsReached
  RollbackIsExact
  ConfigurationWasTried
