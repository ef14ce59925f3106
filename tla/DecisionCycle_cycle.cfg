SPECIFICATION FairSpec
CONSTANTS
  Primary <- ThePrimary
  Setups <- TheSetups
  NoKey = "none"
  MaxRetries = 2
  Symbols = {s1, s2}
  NoSymbol = NoSymbol
  MaxPositions = 1
  OpenSize = 2
  Modes <- TheModes
  FailureLimit = 2
  Faults = {"cancel", "status", "lost", "protect", "close"}
  MaxFaults = 2
INVARIANTS
  AsksByPriority
  OwnKeyOrPrimarys
  NeverOversized
  WithinMaxPositions
  
PROPERTIES
  AIRecovers
