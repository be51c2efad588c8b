SPECIFICATION MachinesSpec
CONSTANTS
  c1 = c1
  c2 = c2
  a1 = a1
  w1 = w1
  f1 = f1
  f2 = f2
  None = None
  Checkers <- TwoCheckers
  Admins <- OneAdmin
  Sweepers = {}
  Files <- TwoFiles
  Revisions = {1, 2, 3, 4}
  Release <- Renamed
  Choices <- OneChoice
  LastVersion = 1
  Clients = FALSE
  Nil = Nil
  Unknown = 9
  Repos = {1, 2}
  Names = {1, 2, 3}
  Hashes = {4, 5}
  Fold <- MCFold
  Nested = {}
  Configs <- MCConfigs
  KeyConfigs <- MCKeyConfigs
  Snapshots <- MCSnapshots
  Records = 1
  Batch = 1
  Radix = 10
CHECK_DEADLOCK FALSE
SYMMETRY Symmetry
INVARIANTS
  OwedArePending
  KeysAgree
  SharedIsSame
PROPERTIES
  PurgesObsolete
