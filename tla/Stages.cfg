CONSTANT
  Jails <- AllJails
  Envs <- AllEnvs
SPECIFICATION Spec
CHECK_DEADLOCK FALSE
INVARIANTS
  EachOnce
  OrderKept
  EnvHandedOn
