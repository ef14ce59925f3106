SPECIFICATION Spec
CONSTANTS
  MaxPos = 2
  Lots = 2
  MaxTime = 4
  Tiers <- StopAndTarget
  Prices = {2, 3}
  Tol = 1
  Window = 1
  StaleAfter = 2
  WithIds <- Yes
  Sweeping = TRUE
  Manual = {1}
  Prompt = TRUE
INVARIANTS
  OneReasonPerOrder
  IntentExplainsOneFill
  NoTierOfAnEarlierPosition
  LiveTiersKept
CHECK_DEADLOCK FALSE
