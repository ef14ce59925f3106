----------------------------- MODULE MCFillSync -----------------------------
(***************************************************************************)
(* Small instances of FillSync: one or two keys, up to four trades of at   *)
(* most two lots, one sync goroutine (two for Binance's start-up).         *)
(***************************************************************************)
EXTENDS FillSync

\* Every key a symbol of its own, or the keys two sides of one symbol.
OwnSymbol == [k \in Keys |-> k]
OneSymbol == [k \in Keys |-> "symbol"]

\* The README names the instances that use OneSymbol, ReadFaults, StepFaults, CrashFaults and GateFaults.
NoFaults      == {}
PartialFaults == {"step", "crash"}
ReadFaults    == {"read"}
StepFaults    == {"step"}
CrashFaults   == {"crash"}
FetchFaults   == {"fetch", "read"}
GateFaults    == {"read", "crash"}
=============================================================================
