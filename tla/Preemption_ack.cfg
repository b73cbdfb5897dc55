SPECIFICATION FairIrqSpec
CONSTANTS
  AckRegister = "CTLR"
  Devices <- NoDevices
  Calls <- NoCalls
  LeafCode = FALSE
PROPERTY TickIsDelivered
CHECK_DEADLOCK FALSE
