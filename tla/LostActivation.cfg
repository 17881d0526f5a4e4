SPECIFICATION FairSpec
CONSTANTS
  c1 = c1
  c2 = c2
  d1 = d1
  i1 = i1
  l1 = l1
  Nobody = Nobody
  ClientThreads <- TwoClients
  DeathThreads <- None
  InjectThreads <- None
  Listeners <- None
  Configs <- MotionConfigs
  WindowSets <- NoWindows
  MaxOpens = 1
  MaxStarts = 2
  MaxInjects = 0
  MaxBoundaries = 0
  MaxGen = 8
  Reentrant = FALSE
PROPERTIES
  StartingEnds
