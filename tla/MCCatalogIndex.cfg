SPECIFICATION Spec
CONSTANTS
  c1 = c1
  c2 = c2
  s1 = s1
  s2 = s2
  p = p
  q = q
  f = f
  g = g
  h1 = h1
  h2 = h2
  None = None
  Checkers <- TwoCheckers
  Sources <- MCSources
  Verified = {}
  Keys <- MCKeys
  Files <- MCFiles
  Hashes <- MCHashes
  Published <- MCPublished
  LastGen = 1
  MaxRevision = 3
  MaxEdits = 1
CHECK_DEADLOCK FALSE
SYMMETRY Symmetry
INVARIANTS
  VouchedIndex
  LabelNamesCopy
PROPERTIES
  RevisionMovesWithCatalog
