SPECIFICATION Spec
CONSTANTS
  Traders = {t1, t2}
  Accounts <- OneAccount
  AccountOf <- SameAccount
  Clients = {c1, c2}
  Ops <- CarefulOps
  Monitors <- OneMonitor
  Grid = FALSE
  Careful = TRUE
  None = None
  MaxInstances = 4
  MaxRuns = 4
  MaxRequests = 2
INVARIANTS
  OneProtector
  
  InactiveOwnsNothing
  StopReachesMonitors
SYMMETRY AnyClient
CHECK_DEADLOCK FALSE
