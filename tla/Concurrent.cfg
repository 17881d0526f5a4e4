SPECIFICATION Spec
CONSTANTS
  c1 = c1
  c2 = c2
  d1 = d1
  i1 = i1
  l1 = l1
  Nobody = Nobody
  ClientThreads <- TwoClients
  DeathThreads <- None
  InjectThreads <- OneInject
  Listeners <- None
  Configs <- PlainNoMotionConfigs
  WindowSets <- NoWindows
  MaxOpens = 1
  MaxStarts = 1
  MaxInjects = 2
  MaxBoundaries = 0
  MaxGen = 10
  Reentrant = TRUE
INVARIANTS
  ArmedTimerIsOwned
  PromptJoin
SYMMETRY ClientSymmetry
PROPERTIES
  ImplementsTimers
