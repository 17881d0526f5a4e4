SPECIFICATION Spec
CONSTANTS
  Half = 4
  Paths <- SomePaths
  FileAt <- SomeFiles
  DefaultPath = "several"
  NoPath = ""
  DefaultPort = 8084
  CommandLines <- SomeCommandLines
  Messages <- SomeMessages
  MaxQueue = 2
  MaxReceived = 2
INVARIANTS
  TypeOK
  InjectedOnce
  ManagerOutlivesWorker
  ExitLeavesNothing
  ServesWholeFile
  ArgumentsHonoured
