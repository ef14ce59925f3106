SPECIFICATION Spec
CONSTANTS
  Primary <- ThePrimary
  Setups <- NoFallbacks
  NoKey = "none"
  MaxRetries = 2
  Symbols = {s1, s2, s3}
  NoSymbol = NoSymbol
  MaxPositions = 2
  OpenSize = 1
  Modes <- OKX
  FailureLimit = 2
  Faults = {"cancel", "status", "lost", "protect", "close"}
  MaxFaults = 0
INVARIANTS
  CapacityIsNeverExceeded
