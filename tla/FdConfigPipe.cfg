CONSTANTS
  FdSetSize = 16
  MaxPreserved = 3
  Runs <- PreloadRuns
SPECIFICATION Spec
INVARIANTS
  ConfigPipeReachable
