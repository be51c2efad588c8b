SPECIFICATION MCSpec
CONSTANTS
  map = map
  site = site
  A = A
  B = B
  C = C
  D = D
  None = None
  Order <- MCOrder
  Configs <- TwoConfigs
  Enabled <- MCEnabled
  Dedup <- MCDedup
  LastCatalog = 1
  Contents <- MCContents
  Render <- MCRender
  Valid <- MCValid
  Faults = {"kill"}
INVARIANT
  VouchedIsRunning
