SPECIFICATION FairSpec
CONSTANTS
  t1 = t1
  t2 = t2
  r1 = r1
  r2 = r2
  None = None
  Tasks <- MCTasks
  Repos <- MCRepos
  MaxSize = 1
INVARIANTS
  OneTaskPerRepo
  ClosedIsQuiet
PROPERTIES
  DueIsChecked
  EndIsReached
