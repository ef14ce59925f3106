SPECIFICATION Spec
CONSTANTS
  Keys = {k1}
  SymbolOf <- OwnSymbol
  Loops = {l1}
  RetryExisting = FALSE
  AttachOrders = TRUE
  Incremental = FALSE
  Sweeping = FALSE
  Faults <- PartialFaults
  MaxFills = 4
  MaxQty = 2
  MaxTime = 5
  Window = 1
  MaxFaults = 2
INVARIANTS
  AppliedAtMostOnce
  BookedAtMostOnce
