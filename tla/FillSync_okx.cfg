SPECIFICATION FairSpec
CONSTANTS
  Keys = {k1}
  SymbolOf <- OwnSymbol
  Loops = {l1}
  RetryExisting = FALSE
  AttachOrders = TRUE
  Incremental = FALSE
  Sweeping = FALSE
  Faults <- NoFaults
  MaxFills = 4
  MaxQty = 2
  MaxTime = 5
  Window = 1
  MaxFaults = 0
INVARIANTS
  SettledIsInSync
  SettledIsBooked
PROPERTIES
  EventuallyInSync
  AppliesTradesInOrder
