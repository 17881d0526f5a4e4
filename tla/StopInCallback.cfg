SPECIFICATION FairSpec
CONSTANTS
  c1 = c1
  c2 = c2
  d1 = d1
  i1 = i1
  l1 = l1
  Nobody = Nobody
  ClientThreads <- OneClient
  DeathThreads <- None
  InjectThreads <- None
  Listeners <- None
  Configs <- StoppingMotionConfigs
  WindowSets <- SomeWindows
  MaxOpens = 1
  MaxStarts = 1
  MaxInjects = 0
  MaxBoundaries = 1
  MaxGen = 5
  Reentrant = TRUE
CHECK_DEADLOCK FALSE
PROPERTIES
  JoinsEnd
