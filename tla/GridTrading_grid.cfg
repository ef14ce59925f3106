SPECIFICATION Spec
CONSTANTS
  Histories <- TheHistories
  ShortBox = 1
  MidBox = 2
  LongBox = 3
  ConfirmRequired = 2
  DirectionAdjust = TRUE
  N = 2
  BuyLevels <- TheBuyLevels
  Venues <- OneLeg
  LevelLots = 1
  TotalLots = 2
  Asks = {1}
  Holdings = {0, 1}
  SkewAbove = 0
  MaxDecisions = 1
  MaxOrders = 2
  Faults = {"positions", "cancel", "response", "close"}

  
  
PROPERTIES
  PauseEndsAtNextCheck
