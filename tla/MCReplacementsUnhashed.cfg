SPECIFICATION Spec
CONSTANTS
  c1 = c1
  c2 = c2
  a1 = a1
  w1 = w1
  f1 = f1
  f2 = f2
  None = None
  Checkers <- OneChecker
  Admins = {}
  Sweepers = {}
  Files <- OneFile
  Revisions = {1, 2, 3}
  Release <- Relisted
  Choices <- OneChoice
  LastVersion = 2
  Clients = TRUE
CHECK_DEADLOCK FALSE
PROPERTIES
  UnhashedIsUnchecked
