SPECIFICATION Spec
CONSTANTS
  MAX_MODULES = 4
  Registry <- MCRegistry
  BadWasm <- MCBadWasm
  Imports <- SpawnExitKill
  Faults <- LoadFault
  MaxLoads = 4
PROPERTY ExitMarksCaller
CHECK_DEADLOCK FALSE
