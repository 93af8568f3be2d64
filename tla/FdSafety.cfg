CONSTANTS
  FdSetSize = 16
  MaxPreserved = 3
  Runs <- MixedRuns
SPECIFICATION Spec
INVARIANTS
  TypeOK
  PreservedFdsDelivered
  NoStrayFds
  StdPipesConnected
  CallerFds
  RulesetReachable
