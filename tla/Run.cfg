CONSTANTS
  Configs <- AllJails
  CallerMayCrash = TRUE
  PipeCap = 4
  MaxBody = 4
  ExitCodes = {0, 3}
  Signals = {11, 31}
SPECIFICATION FairSpec
INVARIANTS
  TypeOK
  Confined
  FailedSetupLeavesNothing
  UndeliveredJailNeverRuns
  SigpipeContained
  InitReportsProgram
PROPERTIES
  InitOutlivesJail
  ImplementsLifecycle
  ChildSettles
  CallsReturn
  InitEnds
