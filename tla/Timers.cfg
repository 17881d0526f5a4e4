SPECIFICATION Spec
CONSTANTS
  c1 = c1
  c2 = c2
  d1 = d1
  i1 = i1
  l1 = l1
  Nobody = Nobody
  ClientThreads <- OneClient
  DeathThreads <- None
  InjectThreads <- None
  Listeners <- OneListener
  Configs <- TimedNoMotionConfigs
  WindowSets <- AnyWindows
  MaxOpens = 1
  MaxStarts = 2
  MaxInjects = 0
  MaxBoundaries = 1
  MaxGen = 10
  Reentrant = FALSE
INVARIANTS
  TimersArmed
  NoEventAfterStop
  NoWindowsPermit
  LastEventOfSession
PROPERTIES
  ImplementsTimers
