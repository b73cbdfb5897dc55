SPECIFICATION FairIrqSpec
CONSTANTS
  AckRegister = "IAR"
  Devices <- NoDevices
  Calls <- NoCalls
  LeafCode = FALSE
PROPERTY TickIsScheduled
CHECK_DEADLOCK FALSE
