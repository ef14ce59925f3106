------------------------------ MODULE FillSync ------------------------------
(***************************************************************************)
(* The position ledger of one trader, kept from the exchange's trade       *)
(* history: the background sync loops of trader/<exchange>/order_sync.go   *)
(* (StartOrderSync's goroutines), the position builder they call for every *)
(* trade, and the absence sweep that the dashboard's GET /positions runs   *)
(* against the same tables (api/handler_order.go handlePositions).         *)
(*                                                                         *)
(* The database is a connection pool without transactions around any of    *)
(* this ("no transaction to avoid deadlock", gate/order_sync.go:176), so   *)
(* each statement group of a handler is a step of its own and the loops,   *)
(* the sweep and the exchange interleave between them.                     *)
(*                                                                         *)
(* The adapters differ in three switches:                                  *)
(*   RetryExisting  gate: a close trade that is already recorded is        *)
(*                  processed again (the others skip it)                   *)
(*   AttachOrders   all but gate: the recorded order is linked to its row  *)
(*   Incremental    binance: fetch from the last recorded trade id of each *)
(*                  symbol (the others fetch the last 24 hours)            *)
(***************************************************************************)
EXTENDS PositionLedger, FiniteSetsExt

CONSTANTS
  SymbolOf,       \* the symbol of each key: keys may be its two sides
  Loops,          \* goroutines running SyncOrders... for this trader
  RetryExisting, AttachOrders, Incremental,
  Sweeping,       \* whether the dashboard polls GET /positions
  Faults,         \* kinds of failure that may strike, a subset of FaultKinds
  MaxQty,         \* bound: lots in one trade
  MaxTime,        \* bound: clock ticks
  MaxFaults       \* bound: failures in a behaviour

\* "read":  the query for the recorded order fails (its error is swallowed)
\* "step":  any other statement fails: it is logged, the trade is given up
\* "crash": the process stops and is started again
\* "fetch": the exchange's position list comes back empty without an error
FaultKinds == {"read", "step", "crash", "fetch"}

ASSUME SyncAssumption ==
  /\ DOMAIN SymbolOf = Keys
  /\ {RetryExisting, AttachOrders, Incremental, Sweeping} \subseteq BOOLEAN
  /\ Faults \subseteq FaultKinds
  /\ MaxQty \in Nat /\ MaxTime \in Nat /\ MaxFaults \in Nat

VARIABLES
  clock,   \* wall clock
  fills,   \* the account's trades, oldest first
  live,    \* the exchange's net position per key
  orders,  \* trader_orders (and trader_fills): indices of recorded trades
  links,   \* related_position_id: <<trade, row>> of the linked close orders
  rows,    \* trader_positions
  loop,    \* what each sync goroutine is doing
  sweep,   \* what the GET /positions handler is doing
  applied, \* history: how often each trade changed a position row
  faults   \* failures so far

vars == <<clock, fills, live, orders, links, rows, loop, sweep, applied, faults>>

exchange == <<clock, fills, live>>
store    == <<orders, links, rows, applied>>

Fetched == 1..Len(fills)

Columns == [qty : Nat, entry : Nat, pnl : [FillId -> Nat], logged : Nat, exit : Nat]

NothingSeen == [qty |-> 0, entry |-> 0, pnl |-> NothingBooked, logged |-> 0, exit |-> 0]

Read(row) == [qty |-> row.qty, entry |-> row.entry, pnl |-> row.pnl,
              logged |-> row.logged, exit |-> row.exit]

Pc == {"idle", "check", "record", "insertOrder", "lookup", "create", "insertRow",
       "load", "store", "log"}

Loop == [pc    : Pc,
         todo  : SUBSET FillId,      \* fetched trades not yet processed
         cur   : FillId \cup {0},    \* the trade being processed
         op    : {"none", "merge", "reduce", "full", "late"},
         row   : FillId \cup {0},    \* the row it is applied to
         found : [FillId -> Nat],    \* realized_pnl when handleClose found the row
         seen  : Columns,            \* the row as the store method loaded it
         event : Nat]                \* close_quantity of the event to log

IdleLoop == [pc |-> "idle", todo |-> {}, cur |-> 0, op |-> "none", row |-> 0,
             found |-> NothingBooked, seen |-> NothingSeen, event |-> 0]

IdleSweep == [pc |-> "idle", snap |-> {}, seen |-> <<>>]

TypeOK ==
  /\ clock \in Nat /\ faults \in Nat
  /\ fills \in Seq(Fill) /\ Len(fills) <= MaxFills
  /\ live \in [Keys -> Nat]
  /\ orders \subseteq FillId
  /\ links \subseteq FillId \X FillId
  /\ DOMAIN rows \subseteq FillId /\ rows \in [DOMAIN rows -> Row]
  /\ loop \in [Loops -> Loop]
  /\ sweep.pc \in {"idle", "list", "close"} /\ sweep.snap \subseteq Keys
  /\ DOMAIN sweep.seen \subseteq DOMAIN rows /\ sweep.seen \in [DOMAIN sweep.seen -> Row]
  /\ applied \in [FillId -> Nat]

Init ==
  /\ clock = 0 /\ faults = 0
  /\ fills = <<>> /\ live = [k \in Keys |-> 0]
  /\ orders = {} /\ links = {} /\ rows = <<>>
  /\ loop = [l \in Loops |-> IdleLoop]
  /\ sweep = IdleSweep
  /\ applied = [f \in FillId |-> 0]

-----------------------------------------------------------------------------
(* The exchange account and time *)

Trade(k, open, q) ==
  /\ Len(fills) < MaxFills /\ clock < MaxTime
  /\ open \/ q <= live[k]
  /\ clock' = clock + 1
  /\ fills' = Append(fills, [key |-> k, open |-> open, qty |-> q, time |-> clock + 1])
  /\ live' = [live EXCEPT ![k] = IF open THEN @ + q ELSE @ - q]
  /\ UNCHANGED <<store, loop, sweep, faults>>

Tick ==
  /\ clock < MaxTime
  /\ clock' = clock + 1
  /\ UNCHANGED <<fills, live, store, loop, sweep, faults>>

-----------------------------------------------------------------------------
(* The sync loop *)

Goto(l, state) == loop' = [loop EXCEPT ![l] = state]

NextTrade(l) ==
  LET rest == loop[l].todo \ {loop[l].cur}
  IN [IdleLoop EXCEPT !.pc = IF rest = {} THEN "idle" ELSE "check", !.todo = rest]

\* Mutant: the fetch starts one id too late.
AfterNextId == {f \in Fetched : \A g \in orders :
  SymbolOf[fills[g].key] = SymbolOf[fills[f].key] => g + 1 < f}

\* GetTradesForSymbolFromID(max recorded id of the symbol + 1)
NewIds == {f \in Fetched : \A g \in orders :
  SymbolOf[fills[g].key] = SymbolOf[fills[f].key] => g < f}

\* GetTrades of the last 24 hours, or the new ids; sorted by time.
Fetch(l) ==
  /\ loop[l].pc = "idle"
  /\ Goto(l, [loop[l] EXCEPT !.pc = "check", !.todo = IF Incremental THEN NewIds ELSE Fetched])
  /\ UNCHANGED <<exchange, store, sweep, faults>>

\* Mutant: the trades are taken in the order the exchange sends them.
NewestFirst(S) == {f \in S : \A g \in S : g <= f}

Oldest(S) == {f \in S : \A g \in S : f <= g}

Retries(f) == RetryExisting /\ ~fills[f].open

\* Mutant: a recorded trade ends the run instead of being skipped.
StopAtExisting(l, f) == [loop[l] EXCEPT !.todo = {}, !.pc = "idle"]

SkipTrade(l, f) ==
  LET rest == loop[l].todo \ {f}
  IN [loop[l] EXCEPT !.todo = rest, !.pc = IF rest = {} THEN "idle" ELSE "check"]

\* Mutant: a recorded trade is processed like a new one.
ProcessExisting(l, f) == [loop[l] EXCEPT !.pc = "record", !.cur = f]

ExistingTrade(l, f) ==
  IF Retries(f) THEN [loop[l] EXCEPT !.pc = "lookup", !.cur = f] ELSE SkipTrade(l, f)

\* GetOrderByExchangeID at the head of the loop body.
CheckExisting(l) ==
  /\ loop[l].pc = "check"
  /\ IF loop[l].todo = {}
     THEN Goto(l, IdleLoop)
     ELSE \E f \in Oldest(loop[l].todo) :
            Goto(l, IF f \in orders THEN ExistingTrade(l, f)
                                    ELSE [loop[l] EXCEPT !.pc = "record", !.cur = f])
  /\ UNCHANGED <<exchange, store, sweep, faults>>

\* `if err == nil && existing != nil': a failed query counts as "not found".
CheckFails(l) ==
  /\ "read" \in Faults /\ faults < MaxFaults
  /\ loop[l].pc = "check"
  /\ \E f \in Oldest(loop[l].todo) : Goto(l, [loop[l] EXCEPT !.pc = "record", !.cur = f])
  /\ faults' = faults + 1
  /\ UNCHANGED <<exchange, store, sweep>>

\* CreateOrder's own check: an existing order is returned without an error.
RecordOrder(l) ==
  /\ loop[l].pc = "record"
  /\ Goto(l, [loop[l] EXCEPT !.pc = IF loop[l].cur \in orders THEN "lookup" ELSE "insertOrder"])
  /\ UNCHANGED <<exchange, store, sweep, faults>>

\* Its INSERT, and CreateFill's.  A UNIQUE violation skips the trade.
InsertOrder(l) ==
  /\ loop[l].pc = "insertOrder"
  /\ orders' = orders \cup {loop[l].cur}
  /\ Goto(l, IF loop[l].cur \in orders THEN NextTrade(l) ELSE [loop[l] EXCEPT !.pc = "lookup"])
  /\ UNCHANGED <<exchange, links, rows, applied, sweep, faults>>

-----------------------------------------------------------------------------
(* PositionBuilder.ProcessTrade *)

Cur(l) == fills[loop[l].cur]

Apply(l, op, r) == [loop[l] EXCEPT !.pc = "load", !.op = op, !.row = r, !.found = rows[r].pnl]

HandleOpen(l) ==
  /\ loop[l].pc = "lookup" /\ Cur(l).open
  /\ LET existing == GetOpenPositionBySymbol(rows, Cur(l).key)
     IN \/ /\ existing = {}
           /\ Goto(l, [loop[l] EXCEPT !.pc = "create"])
        \/ \E r \in existing : Goto(l, Apply(l, "merge", r))
  /\ UNCHANGED <<exchange, store, sweep, faults>>

HandleClose(l) ==
  /\ loop[l].pc = "lookup" /\ ~Cur(l).open
  /\ LET position == GetOpenPositionBySymbol(rows, Cur(l).key)
         fallback == LateCloseTarget(rows, Cur(l).key, Cur(l).time)
     IN \/ \E r \in position :
             Goto(l, Apply(l, IF Cur(l).qty < rows[r].qty THEN "reduce" ELSE "full", r))
        \/ /\ position = {}
           /\ \/ \E r \in fallback : Goto(l, Apply(l, "late", r))
              \/ fallback = {} /\ Goto(l, NextTrade(l))
  /\ UNCHANGED <<exchange, store, sweep, faults>>

\* CreateOpenPosition up to the INSERT: the row of the same exchange position
\* id, then the net position of the key, absorbs the trade if it is open; an
\* id that exists on a closed row drops it.
CreateOpenPosition(l) ==
  /\ loop[l].pc = "create"
  /\ LET f   == loop[l].cur
         net == GetOpenPositionBySymbol(rows, Cur(l).key)
     IN \/ /\ f \in DOMAIN rows
           /\ Goto(l, IF rows[f].status = "OPEN" THEN Apply(l, "merge", f) ELSE NextTrade(l))
        \/ /\ f \notin DOMAIN rows
           /\ \/ \E r \in net : Goto(l, Apply(l, "merge", r))
              \/ net = {} /\ Goto(l, [loop[l] EXCEPT !.pc = "insertRow"])
  /\ UNCHANGED <<exchange, store, sweep, faults>>

\* The INSERT; a UNIQUE violation merges into the open row of that id, if any.
InsertPosition(l) ==
  /\ loop[l].pc = "insertRow"
  /\ LET f == loop[l].cur
     IN IF f \in DOMAIN rows
        THEN /\ Goto(l, IF rows[f].status = "OPEN" THEN Apply(l, "merge", f) ELSE NextTrade(l))
             /\ UNCHANGED <<rows, applied>>
        ELSE /\ rows' = [r \in DOMAIN rows \cup {f} |->
                           IF r = f THEN NewRow(Cur(l).key, Cur(l).qty) ELSE rows[r]]
             /\ applied' = [applied EXCEPT ![f] = @ + 1]
             /\ Goto(l, NextTrade(l))
  /\ UNCHANGED <<exchange, orders, links, sweep, faults>>

\* remainingUnclosed <= 0 of a late fill.
NothingLeft(op, seen) == op = "late" /\ seen.logged >= seen.entry

\* First(&pos, id) of the store method (and the close events a late fill sums).
LoadRow(l) ==
  /\ loop[l].pc = "load"
  /\ LET seen == Read(rows[loop[l].row])
     IN Goto(l, IF NothingLeft(loop[l].op, seen)
                THEN NextTrade(l)
                ELSE [loop[l] EXCEPT !.pc = "store", !.seen = seen])
  /\ UNCHANGED <<exchange, store, sweep, faults>>

Updated(l) ==
  LET me  == loop[l]
      row == rows[me.row]
  IN CASE me.op = "merge"  -> UpdatePositionQuantityAndPrice(row, me.seen, Cur(l).qty)
       [] me.op = "reduce" -> ReducePositionQuantity(row, me.seen, Cur(l).qty, me.cur, clock)
       [] me.op = "full"   -> ClosePositionFully(row, me.seen, me.found, me.cur, Cur(l).time)
       [] me.op = "late"   -> ApplyLateCloseFill(row, me.seen, me.cur, Cur(l).time)

EventQty(l) ==
  LET me == loop[l]
  IN CASE me.op = "merge"  -> 0
       [] me.op = "reduce" -> Cur(l).qty
       [] me.op = "full"   -> me.seen.qty
       [] me.op = "late"   -> LateCloseQty(me.seen, Cur(l).qty)

\* The UPDATE ... WHERE id = ? of the store method.
StoreRow(l) ==
  /\ loop[l].pc = "store"
  /\ rows' = [rows EXCEPT ![loop[l].row] = Updated(l)]
  /\ applied' = [applied EXCEPT ![loop[l].cur] = @ + 1]
  /\ Goto(l, IF EventQty(l) = 0 THEN NextTrade(l)
             ELSE [loop[l] EXCEPT !.pc = "log", !.event = EventQty(l)])
  /\ UNCHANGED <<exchange, orders, links, sweep, faults>>

\* logCloseEvent, then AttachSyncedOrderToPosition.
LogEvent(l) ==
  /\ loop[l].pc = "log"
  /\ rows' = [rows EXCEPT ![loop[l].row] = LogCloseEvent(@, loop[l].event)]
  /\ links' = IF AttachOrders THEN links \cup {<<loop[l].cur, loop[l].row>>} ELSE links
  /\ Goto(l, NextTrade(l))
  /\ UNCHANGED <<exchange, orders, applied, sweep, faults>>

\* A statement fails: the error is logged and the next trade is taken.
StepFails(l) ==
  /\ "step" \in Faults /\ faults < MaxFaults
  /\ loop[l].pc \notin {"idle", "check"}
  /\ Goto(l, NextTrade(l))
  /\ faults' = faults + 1
  /\ UNCHANGED <<exchange, store, sweep>>

LoopStep(l) ==
  \/ Fetch(l) \/ CheckExisting(l) \/ RecordOrder(l) \/ InsertOrder(l)
  \/ HandleOpen(l) \/ HandleClose(l) \/ CreateOpenPosition(l) \/ InsertPosition(l)
  \/ LoadRow(l) \/ StoreRow(l) \/ LogEvent(l)

-----------------------------------------------------------------------------
(* GET /positions: MarkOpenPositionsAbsentFromExchangeClosed *)

\* The exchange's position list, just fetched.
SweepFetch ==
  /\ Sweeping /\ sweep.pc = "idle"
  /\ \/ /\ sweep' = [pc |-> "list", snap |-> {k \in Keys : live[k] > 0}, seen |-> <<>>]
        /\ UNCHANGED faults
     \/ /\ "fetch" \in Faults /\ faults < MaxFaults
        /\ sweep' = [pc |-> "list", snap |-> {}, seen |-> <<>>]
        /\ faults' = faults + 1
  /\ UNCHANGED <<exchange, store, loop>>

AllOpen == {r \in DOMAIN rows : rows[r].status = "OPEN"}

\* The empty-snapshot guard: never all of two or more open rows.
ToClose(absent) ==
  IF Cardinality(absent) >= 2 /\ absent = AllOpen THEN {} ELSE absent

SweepList ==
  /\ sweep.pc = "list"
  /\ LET absent == ToClose({r \in AllOpen : rows[r].key \notin sweep.snap})
     IN sweep' = IF absent = {} THEN IdleSweep
                 ELSE [pc |-> "close", snap |-> {}, seen |-> [r \in absent |-> rows[r]]]
  /\ UNCHANGED <<exchange, store, loop, faults>>

LotsOf(S) == MapThenSumSet(LAMBDA f : fills[f].qty, S)

\* `side = SELL' for a long row: closes of its key, and opens of the other side
\* of its symbol.
OnCloseSide(r) ==
  {f \in orders : /\ SymbolOf[fills[f].key] = SymbolOf[rows[r].key]
                  /\ fills[f].key = rows[r].key <=> ~fills[f].open}

LinkedOrders(r) == {f \in orders : <<f, r>> \in links}

\* Mutant: orders filled before the row's entry count as well.
CloseOrdersOfKey(r) ==
  IF LinkedOrders(r) # {} THEN LinkedOrders(r) ELSE OnCloseSide(r)

\* computePnlFromFills: the linked close orders of the row, else the orders of
\* its symbol and close side filled since its entry, oldest first, while they
\* do not add up to more than the entry quantity.
CloseOrders(r) ==
  IF LinkedOrders(r) # {} THEN LinkedOrders(r) ELSE {f \in OnCloseSide(r) : f > r}

ComputePnlFromFills(r, row) ==
  {f \in CloseOrders(r) : LotsOf({g \in CloseOrders(r) : g <= f}) <= row.entry}

\* One row of the loop over `absent', newest entry first.  Its close_reason
\* stays generic unless a close order tells a better one.
SweepClose ==
  /\ sweep.pc = "close"
  /\ \E r \in NewestOf(DOMAIN sweep.seen) :
       \E generic \in IF CloseOrders(r) = {} THEN {TRUE} ELSE BOOLEAN :
         LET seen == sweep.seen[r]
             rest == DOMAIN sweep.seen \ {r}
         IN /\ rows' = [rows EXCEPT ![r] =
                          MarkAbsentClosed(@, seen, ComputePnlFromFills(r, seen), generic, clock)]
            /\ sweep' = IF rest = {} THEN IdleSweep
                        ELSE [pc |-> "close", snap |-> {}, seen |-> [s \in rest |-> sweep.seen[s]]]
  /\ UNCHANGED <<exchange, orders, links, applied, loop, faults>>

SweepStep == SweepFetch \/ SweepList \/ SweepClose

-----------------------------------------------------------------------------
\* Only the database survives.
Crash ==
  /\ "crash" \in Faults /\ faults < MaxFaults
  /\ loop' = [l \in Loops |-> IdleLoop]
  /\ sweep' = IdleSweep
  /\ faults' = faults + 1
  /\ UNCHANGED <<exchange, store>>

Next ==
  \/ \E k \in Keys, open \in BOOLEAN, q \in 1..MaxQty : Trade(k, open, q)
  \/ Tick
  \/ \E l \in Loops : LoopStep(l) \/ CheckFails(l) \/ StepFails(l)
  \/ SweepStep
  \/ Crash

Spec == Init /\ [][Next]_vars

\* The ticker of every sync goroutine keeps firing (StartOrderSync has no stop)
\* and each database call returns.
FairSpec == Spec /\ \A l \in Loops : WF_vars(LoopStep(l))

-----------------------------------------------------------------------------
(* Properties *)

\* "there must be at most ONE OPEN row per (trader, symbol, side)"
\* (store/position.go:1316): GetOpenPositionBySymbol, the protection sizing and
\* the reconciler only ever look at one.
OneOpenRowPerKey == \A k \in Keys : \A r, s \in OpenRows(rows, k) : r = s

\* A position's close events never account for more than was ever opened in it,
\* whatever the loop, the sweep and restarts do in between
\* (logCloseEvent's callers; ApplyLateCloseFillToClosedPosition's clamp).
NeverOverclosed == \A r \in DOMAIN rows : rows[r].logged <= rows[r].entry

\* A trade of the exchange changes the ledger at most once: polling again,
\* failing halfway or restarting does not apply it a second time (the
\* "Trade already exists, skip" check of every SyncOrders... loop).
AppliedAtMostOnce == \A f \in FillId : applied[f] <= 1

\* The PnL of a close trade enters the realized PnL of at most one row, once.
BookedAtMostOnce ==
  \A f \in FillId, r \in DOMAIN rows :
    /\ rows[r].pnl[f] <= 1
    /\ \A s \in DOMAIN rows \ {r} : rows[r].pnl[f] = 0 \/ rows[s].pnl[f] = 0

\* Closing a row adds PnL "for the remaining quantity" (store/position.go:1442):
\* what a partial close has already booked to it is not booked again.
CloseKeepsBookings ==
  [][\A r \in DOMAIN rows, f \in FillId :
       rows[r].status = "OPEN" /\ rows'[r].status = "CLOSED" /\ rows[r].pnl[f] > 0
         => rows'[r].pnl[f] = rows[r].pnl[f]]_vars

\* A close trade is only ever booked to a position of its own key that had been
\* opened before it: never to the position reopened after it
\* (handleClose's choice of row and its late-fill fallback).
BookedToAnEarlierEntry ==
  \A r \in DOMAIN rows, f \in FillId :
    rows[r].pnl[f] > 0 => f \in Fetched /\ r < f /\ fills[f].key = rows[r].key

\* The incremental fetch (fromId = largest recorded id + 1) leaves no trade
\* behind: what is older than a recorded trade of its symbol is recorded too,
\* although trades of several symbols are recorded in the order of their time.
NoTradeLeftBehind ==
  \A g \in orders : \A f \in 1..g :
    SymbolOf[fills[f].key] = SymbolOf[fills[g].key] => f \in orders

\* Of a single goroutine (the theorem's hypothesis; Binance's start-up runs two).
SingleLoop == \A l, m \in Loops : l = m

\* What a goroutine holds refers to fetched trades and existing rows; a late fill
\* is only applied to a row with something left to close.
LoopRefs ==
  \A l \in Loops :
    /\ loop[l].todo \subseteq Fetched
    /\ loop[l].pc \notin {"idle", "check"} => loop[l].cur \in Fetched
    /\ loop[l].pc \in {"load", "store", "log"} => loop[l].row \in DOMAIN rows /\ loop[l].op # "none"
    /\ loop[l].pc = "store" /\ loop[l].op = "late" => loop[l].seen.logged < loop[l].seen.entry

\* The lots of a row that are still open, those its events account for, and
\* those of the event about to be logged fit in its entry quantity.
Fits(row, extra) == /\ row.logged + extra <= row.entry
                    /\ row.status = "OPEN" => row.qty + row.logged + extra <= row.entry

\* Between the lookup and the write, the sweep may close the row but never
\* grows its quantity nor touches its entry quantity or its events.
WriteFits(l) ==
  LET me  == loop[l]
      row == rows[me.row]
  IN /\ me.op = "late" => row.status = "CLOSED"
     /\ me.op # "late" => row.qty + row.logged <= row.entry
     /\ me.op = "reduce" => Cur(l).qty + row.logged <= row.entry
     /\ me.pc = "store" =>
          /\ me.seen.entry = row.entry /\ me.seen.logged = row.logged
          /\ me.op # "late" => me.seen.qty + me.seen.logged <= me.seen.entry

\* The inductive strengthening of NeverOverclosed.
ClosesFit ==
  /\ \A r \in DOMAIN rows : Fits(rows[r], 0)
  /\ \A l \in Loops :
       /\ loop[l].pc \in {"load", "store"} => WriteFits(l)
       /\ loop[l].pc = "log" => Fits(rows[loop[l].row], loop[l].event)

\* Every recorded trade has been applied and every goroutine is between polls.
Settled == orders = Fetched /\ \A l \in Loops : loop[l].pc = "idle"

InSync ==
  \A k \in Keys :
    IF live[k] = 0 THEN OpenRows(rows, k) = {}
                   ELSE \E r \in OpenRows(rows, k) : OpenRows(rows, k) = {r} /\ rows[r].qty = live[k]

\* "ensure orders/fills/positions data consistency" (the doc comment of every
\* SyncOrders...): once every trade is recorded, the open rows are exactly the
\* exchange's net positions, lot for lot.
SettledIsInSync == Settled => InSync

\* ... and the realized PnL of the rows contains every close trade exactly once.
SettledIsBooked ==
  Settled => \A f \in Fetched : ~fills[f].open =>
    \E r \in DOMAIN rows : /\ rows[r].pnl[f] = 1
                          /\ \A s \in DOMAIN rows \ {r} : rows[s].pnl[f] = 0

\* When the account stops trading the ledger catches up with it for good: every
\* trade is recorded, and the rows are the exchange's positions.
EventuallyInSync == <>[](orders = Fetched /\ InSync)

-----------------------------------------------------------------------------
(* The abstract ledger *)

Applied == {f \in FillId : applied[f] > 0}

Booked == {f \in FillId : \E r \in DOMAIN rows : rows[r].pnl[f] > 0}

OpenLots(rs, k) == MapThenSumSet(LAMBDA r : rs[r].qty, OpenRows(rs, k))

Promise == INSTANCE Ledger WITH
  trades <- fills,
  done   <- Cardinality(Applied),
  shown  <- [k \in Keys |-> OpenLots(rows, k)],
  booked <- Booked

\* Although a trade takes several statements, the rows go from one prefix of
\* the account's trades to the next: no reader sees a trade half applied, out
\* of order or without its PnL.
AppliesTradesInOrder == Promise!LedgerSpec
=============================================================================
