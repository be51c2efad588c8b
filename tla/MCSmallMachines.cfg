SPECIFICATION MachinesSpec
CONSTANTS
  t1 = t1
  t2 = t2
  t3 = t3
  t4 = t4
  t5 = t5
  automatic = automatic
  one = one
  two = two
  child = child
  helper = helper
  None = None
  NoProcess = NoProcess
  Tasks <- MCTasks
  MaxSize = 5
  Ops <- MCOps
  Threshold = 2
  Selections <- MCSelections
  Attempts = 3
  LastStreak = 5
  MostFailures = 3
  Processes <- MCProcesses
  Loops <- MCLoops
  Starts = 3
  Child = child
  Helpers <- MCHelpers
  Capacity = 1
  Output = 3
  MaxRead <- MCMaxRead
CHECK_DEADLOCK FALSE
INVARIANTS
  NoLostWakeup
  NotifiedWasAlerted
  PidfileNamesRunning
  FailureIsReported
  NothingIsLost
PROPERTIES
  PoolFairSpec
  LastingIsNotified
  ListenersAreMandatory
  RunEnds
