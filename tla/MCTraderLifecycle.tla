-------------------------- MODULE MCTraderLifecycle --------------------------
(***************************************************************************)
(* Small instances of TraderLifecycle: one or two traders on one exchange  *)
(* account, one or two requests at a time.                                 *)
(***************************************************************************)
EXTENDS TraderLifecycle, TLC

TheAccount == "acct"
OneAccount == {TheAccount}
SameAccount == [t \in Traders |-> TheAccount]

BothMonitors == {"drawdown", "reconciler"}
OneMonitor   == {"drawdown"}

CarefulOps  == {"start", "stop", "delete", "reload", "query"}
StartStop   == {"start", "stop"}
UpdateOnly  == {"update"}
ReloadQuery == {"reload", "stop", "query"}

\* HTTP handlers are interchangeable (traders are not: SetToSeq orders them).
AnyClient == Permutations(Clients)
=============================================================================
