SPECIFICATION SettlingSpec
CONSTANTS
  c1 = c1
  c2 = c2
  a1 = a1
  w1 = w1
  f1 = f1
  f2 = f2
  checker = checker
  s1 = s1
  s2 = s2
  onlyKey = onlyKey
  onlyFile = onlyFile
  h1 = h1
  h2 = h2
  Unlisted = Unlisted
  None = None
  Checkers <- OneChecker
  Admins = {}
  Sweepers = {}
  Files <- OneFile
  Revisions = {1, 2, 3}
  Release <- Relisted
  Choices <- OneChoice
  LastVersion = 3
  Clients = TRUE
  Nil = Nil
  Unknown = 9
  Repos = {1, 2}
  Names = {1, 2, 3}
  Hashes = {4, 5}
  Fold <- MCFold
  Nested = {}
  Configs <- MCConfigs
  KeyConfigs <- MCKeyConfigs
  Snapshots <- MCSnapshots
  Records = 1
  Batch = 2
  Radix = 10
CHECK_DEADLOCK FALSE
PROPERTIES
  CatchesUp
  PendingDrains
  ScanComesRound
