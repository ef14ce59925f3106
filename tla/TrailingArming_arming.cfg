SPECIFICATION Spec
CONSTANTS
  Tiers = {1, 2}
  FullTiers = {1}
  MinProfit <- MinProfitValue
  MaxDrawdown <- MaxDrawdownValue
  Top = 2
  Crews = {{"monitor"}, {"reconciler"}}
  Ids = {1, 2, 3, 4, 5}
  ArmCooldown = 1
  BreakerLimit = 2
  BreakerCooldown = 1
  MaxFaults = 2
INVARIANTS TrippedTierRests
PROPERTIES   OrphansAreAdopted
CHECK_DEADLOCK FALSE
