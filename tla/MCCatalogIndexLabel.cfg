SPECIFICATION Spec
CONSTANTS
  c1 = c1
  c2 = c2
  s1 = s1
  s2 = s2
  p = p
  q = q
  f = f
  g = g
  h1 = h1
  h2 = h2
  None = None
  Checkers <- OneChecker
  Sources <- MCSources
  Verified = {}
  Keys <- MCKeys
  Files <- MCFiles
  Hashes <- MCHashes
  Published <- MCPublished
  LastGen = 2
  MaxRevision = 4
  MaxEdits = 2
CHECK_DEADLOCK FALSE
INVARIANT
  EqualLabelIsCurrent
