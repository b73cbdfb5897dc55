SPECIFICATION FairIrqSpec
CONSTANTS
  AckRegister = "IAR"
  Devices <- NetDevice
  Calls <- JustYield
  LeafCode = FALSE
PROPERTY YieldGoesOn
CHECK_DEADLOCK FALSE
