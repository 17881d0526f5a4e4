SPECIFICATION DestructorSpec
CONSTANTS
  c1 = c1
  Nobody = Nobody
  ClientThreads <- OneClient
  DeathThreads <- None
  InjectThreads <- None
  Listeners <- None
  Configs <- DelayedConfigs
  WindowSets <- SomeWindows
  MaxOpens = 1
  MaxStarts = 1
  MaxInjects = 0
  MaxBoundaries = 0
  MaxGen = 4
  Reentrant = FALSE
INVARIANTS
  DestructorClean

\* a destroyed sensor takes no step
CHECK_DEADLOCK FALSE
