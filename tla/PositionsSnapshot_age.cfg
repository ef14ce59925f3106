SPECIFICATION FairSpec
CONSTANTS
  Keys = {k1, k2}
  Handlers = {h1}
  Fresh = 1
  Warm = 2
  Stale = 3
  AdapterTTL = 2
  Invalidates = TRUE
  MayFail = TRUE
  Slow = 0
PROPERTIES
  OldPositionsKeepRows
  RequestsAnswered
