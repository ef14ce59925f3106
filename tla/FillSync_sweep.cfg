SPECIFICATION Spec
CONSTANTS
  Keys = {k1, k2}
  SymbolOf <- OwnSymbol
  Loops = {l1}
  RetryExisting = FALSE
  AttachOrders = TRUE
  Incremental = TRUE
  Sweeping = TRUE
  Faults <- FetchFaults
  MaxFills = 3
  MaxQty = 2
  MaxTime = 4
  Window = 1
  MaxFaults = 1
INVARIANTS
  TypeOK
  OneOpenRowPerKey
  NeverOverclosed
  
  BookedToAnEarlierEntry
