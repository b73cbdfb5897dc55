SPECIFICATION FairCommandSpec
CONSTANTS
  MAX_MODULES = 3
  Registry <- MCRegistry
  BadWasm <- MCBadWasm
  Imports <- HostFunctions
  Faults <- AllFaults
  MaxLoads = 5
  MaxLines = 2
INVARIANTS TypeOK IdsDistinct RuntimesDistinct RunningIsCalledOrTrapped ReadyNeverEntered LineReachesItsModule
PROPERTIES ImplementsRunQueue ReadyLeavesQueue
CHECK_DEADLOCK FALSE
