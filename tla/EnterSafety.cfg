CONSTANTS
  Cap <- AllCaps
  Jails <- AllJails
  Callers <- AllCallers
  Programs <- AllPrograms
  Asked <- AllAsked
  AskedBits <- AllAskedBits
  SoftFail = FALSE
SPECIFICATION Spec
CHECK_DEADLOCK FALSE
INVARIANTS
  TypeOK
  CapsOnlyForever
  StartsConfined
  PrivilegeLasts
  PolicyNeedsNoDrops
  NoReturnToRoot
