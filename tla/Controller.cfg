SPECIFICATION ControllerSpec
CONSTANTS
  c1 = c1
  i1 = i1
  l1 = l1
  invalid = invalid
  Nobody = Nobody
  ClientThreads <- OneClient
  DeathThreads <- None
  InjectThreads <- OneInject
  Listeners <- OneListener
  Configs <- TwoConfigs
  WindowSets <- AnyWindows
  Capabilities <- EitherControl
  Sensitivities <- AroundTheRange
  Windows <- OneWindow
  ValidWindows <- None
  MaxOpens = 2
  MaxStarts = 2
  MaxInjects = 1
  MaxBoundaries = 0
  MaxGen = 6
  Reentrant = FALSE
INVARIANTS
  SettingsWithinCapabilities
  OwnerKnowsSettings
  ReadsOwnSession
