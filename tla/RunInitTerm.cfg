CONSTANTS
  Configs <- StaticJails
  CallerMayCrash = FALSE
  PipeCap = 4
  MaxBody = 4
  ExitCodes = {0, 3}
  Signals = {11, 31}
SPECIFICATION Spec
INVARIANT TermReportsProgram
