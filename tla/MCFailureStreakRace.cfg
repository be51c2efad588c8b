SPECIFICATION Spec
CONSTANTS
  automatic = automatic
  manual = manual
  None = None
  Ops <- TwoTasks
  Threshold = 2
  Selections <- AllSelections
  Attempts = 3
  LastStreak = 2
  MostFailures = 3
INVARIANT
  RelievedWasAlerted
