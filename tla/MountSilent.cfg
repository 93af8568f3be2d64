CONSTANTS
  Jails <- AllJails
  HostProps <- AllHosts
  BlockSymlinks = TRUE
  MaxFaults = 1
SPECIFICATION Spec
CHECK_DEADLOCK FALSE
INVARIANT MountsComplete
