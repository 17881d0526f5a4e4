SPECIFICATION Spec
CONSTANTS
  Day = 4
  WindowSets <- UpToTwoWindows
INVARIANTS
  TypeOK
  StatusFollowsClock
  ClientKnowsStatus
