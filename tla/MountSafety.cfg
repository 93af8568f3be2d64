CONSTANTS
  Jails <- AllJails
  HostProps <- AllHosts
  BlockSymlinks = TRUE
  MaxFaults = 1
SPECIFICATION Spec
CHECK_DEADLOCK FALSE
INVARIANTS
  NoLeak
  PivotKeepsCallers
  NoTempLeft
  BindFlags
  MountsVisible
