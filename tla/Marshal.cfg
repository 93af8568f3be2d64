CONSTANTS
  Jails <- AllJails
  MaxCalls <- CallsFor
  MaxCgroups = 2
  MayRunOut = TRUE
SPECIFICATION Spec
CHECK_DEADLOCK FALSE
INVARIANTS
  FreedExactlyOnce
  JailOwnsBlocks
  CarriesJail
