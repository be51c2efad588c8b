SPECIFICATION MCSpec
CONSTANTS
  map = map
  site = site
  A = A
  B = B
  C = C
  D = D
  None = None
  Order <- MCOrder
  Configs <- AllConfigs
  Enabled <- MCEnabled
  Dedup <- MCDedup
  LastCatalog = 1
  Contents <- MCContents
  Render <- MCRender
  Valid <- MCValid
  Faults = {"write", "restore", "test", "reload", "status", "kill"}
INVARIANTS
  RestoredIsRunning
  VouchedUnlessKilled
PROPERTIES
  ConvergesUnlessKilled
