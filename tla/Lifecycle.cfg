SPECIFICATION FairSpec
CONSTANTS
  c1 = c1
  c2 = c2
  d1 = d1
  i1 = i1
  l1 = l1
  Nobody = Nobody
  ClientThreads <- OneClient
  DeathThreads <- None
  InjectThreads <- OneInject
  Listeners <- OneListener
  Configs <- MotionConfigs
  WindowSets <- NoWindows
  MaxOpens = 2
  MaxStarts = 2
  MaxInjects = 1
  MaxBoundaries = 0
  MaxGen = 7
  Reentrant = FALSE
INVARIANTS
  TypeOK
  SessionHasOwner
  StoppedMeansQuiet
  TimersArmed
  NeverTerminates
  PromptLifecycleJoin
PROPERTIES
  FollowsLifecycle
  CompletesLifecycle
