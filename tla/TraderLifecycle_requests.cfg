SPECIFICATION FairSpec
CONSTANTS
  Traders = {t1}
  Accounts <- OneAccount
  AccountOf <- SameAccount
  Clients = {c1, c2}
  Ops <- ReloadQuery
  Monitors <- OneMonitor
  Grid = TRUE
  Careful = TRUE
  None = None
  MaxInstances = 4
  MaxRuns = 4
  MaxRequests = 3
PROPERTIES
  RequestsEnd
CHECK_DEADLOCK FALSE
