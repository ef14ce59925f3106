---------------------------- MODULE GridTrading ----------------------------
(***************************************************************************)
(* A grid trader and its exchange (src/trader/auto_trader_grid.go,         *)
(* auto_trader_grid_orders.go, auto_trader_grid_levels.go).  A cycle       *)
(* checks its limits, the boxes and the recovery (GridRegime), asks the    *)
(* model, carries out its decisions, and then matches the levels with the  *)
(* exchange's orders.  Meanwhile orders fill, expire, and the operator     *)
(* stops and restarts the trader.                                          *)
(*                                                                         *)
(* The cycle is one goroutine: `todo' is what it has left to do, one call  *)
(* of the exchange after the other.  Prices are not kept: where the code   *)
(* reads one, any outcome of its comparison is possible, and a value is    *)
(* its number of lots.  Levels are numbered by rising price.  An order     *)
(* keeps its id for good.  Left out: leverage, profit counters, the record *)
(* of decisions, and a positions list older than the call that reads it.   *)
(***************************************************************************)
EXTENDS GridRegime, FiniteSetsExt

CONSTANTS
  Venues,       \* legs "one" (one-way) or "two" (hedge); signed: a short leg is reported
                \* negative; stale: the list of open orders may be an older one
  LevelLots,    \* the most lots of one level's order
  TotalLots,    \* TotalInvestment * Leverage
  Asks,         \* lots the model may ask for
  Holdings,     \* lots an account may hold before the grid starts
  SkewAbove,    \* empty levels of the other side above which the grid is skewed (5)
  MaxDecisions, \* bound: decisions of one answer
  MaxOrders,    \* bound: orders placed
  Faults        \* calls that may fail: "positions", "cancel", "response", "close"

ASSUME TradingAssumption ==
  /\ Venues \subseteq [legs : {"one", "two"}, signed : BOOLEAN, stale : BOOLEAN]
  /\ LevelLots \in Nat \ {0}
  /\ {TotalLots, SkewAbove, MaxDecisions, MaxOrders} \subseteq Nat
  /\ Asks \subseteq Nat \ {0}
  /\ Holdings \subseteq Nat
  /\ Faults \subseteq {"positions", "cancel", "response", "close"}

Level == 1 .. N
Ids == 1 .. MaxOrders
NoOrder == 0
Legs == {"long", "short"}

VARIABLES
  venue,
  orders,  \* resting on the exchange: [id, side, lots]
  issued,  \* ids given so far
  held,    \* lots of each leg; on a one-way venue one of them is 0
  levels,  \* gridState.Levels
  book,    \* gridState.OrderBook: the level of an order id, 0 for none
  regime,  \* the rest of gridState
  running,
  todo,    \* the stages left of the cycle
  listed,  \* from Ask to Match: the order ids of a list of open orders
  lost,    \* ids of resting orders that the levels have dropped
  blind    \* an order was dropped, or a list of positions could not be read

exchange == <<orders, issued, held>>
grid == <<levels, book>>
vars == <<venue, exchange, grid, regime, running, todo, listed, lost, blind>>

IdsOf(S) == {o.id : o \in S}
Pending == {i \in Level : levels[i].state = "pending"}
Filled == {i \in Level : levels[i].state = "filled"}
Tracked == {levels[i].order : i \in Pending}

Fresh(side) == [state |-> "empty", side |-> side, order |-> NoOrder, qty |-> 0, size |-> 0]
FreshGrid(k) == LET s == Sides(regime.direction, k) IN [i \in Level |-> Fresh(s[i])]
Emptied(l) == [l EXCEPT !.state = "empty", !.order = NoOrder, !.qty = 0]

Init ==
  /\ venue \in Venues
  /\ orders = {} /\ issued = 0
  /\ \E lots \in Holdings : held = [leg \in Legs |-> IF leg = "long" THEN lots ELSE 0]
  /\ regime = NewRegime
  /\ \E k \in 0 .. N : levels = [i \in Level |-> Fresh(Sides("neutral", k)[i])]
  /\ book = [id \in Ids |-> 0]
  /\ running = TRUE
  /\ todo = <<>>
  /\ listed = {}
  /\ lost = {}
  /\ blind = FALSE

-----------------------------------------------------------------------------
(* The exchange *)

Smaller(a, b) == IF a < b THEN a ELSE b
Larger(a, b) == IF a < b THEN b ELSE a

\* A buy adds to the long leg, on a one-way venue after the short one is used up.
Traded(side, lots) ==
  LET leg == IF side = "buy" THEN "long" ELSE "short"
      other == IF side = "buy" THEN "short" ELSE "long"
      closing == IF venue.legs = "one" THEN Smaller(held[other], lots) ELSE 0
  IN [held EXCEPT ![leg] = @ + lots - closing, ![other] = @ - closing]

\* The orders that rest; one that is gone is no longer lost.
Rest(S) == orders' = S /\ lost' = lost \cap IdsOf(S)

\* The levels drop these orders; `misread' when a list of positions was not read.
DropUnread(ids, misread) ==
  /\ lost' = (lost \cup ids) \cap IdsOf(orders')
  /\ blind' = (blind \/ lost' # {} \/ misread)

Drop(ids) == DropUnread(ids, FALSE)

\* An order fills, in parts or at once.
Fill ==
  /\ \E o \in orders : \E lots \in 1 .. o.lots :
       /\ Rest((orders \ {o}) \cup
               (IF lots < o.lots THEN {[o EXCEPT !.lots = @ - lots]} ELSE {}))
       /\ held' = Traded(o.side, lots)
  /\ UNCHANGED <<venue, issued, grid, regime, running, todo, listed, blind>>

\* The exchange or the user cancels an order.
Expire ==
  /\ \E o \in orders : Rest(orders \ {o})
  /\ UNCHANGED <<venue, issued, held, grid, regime, running, todo, listed, blind>>

\* What the calls that close `of[leg]' lots of each leg leave.  Most adapters then
\* cancel the orders of the symbol.
Close(of) ==
  /\ held' = [leg \in Legs |-> Larger(0, held[leg] - of[leg])]
  /\ \/ Rest(orders)
     \/ held' # held /\ Rest({})

-----------------------------------------------------------------------------
(* The operator *)

Stop ==
  /\ running /\ running' = FALSE
  /\ UNCHANGED <<venue, exchange, grid, regime, todo, listed, lost, blind>>

\* The process ends wherever it is.
Crash ==
  /\ running' = FALSE /\ todo' = <<>> /\ listed' = {}
  /\ UNCHANGED <<venue, exchange, grid, regime, lost, blind>>

\* InitializeGrid: a new grid state, which knows of no order.
Start ==
  /\ ~running /\ todo = <<>>
  /\ running' = TRUE
  /\ regime' = NewRegime
  /\ \E k \in 0 .. N : levels' = [i \in Level |-> Fresh(Sides("neutral", k)[i])]
  /\ book' = [id \in Ids |-> 0]
  /\ UNCHANGED <<venue, exchange, todo, listed>>
  /\ Drop(IdsOf(orders))

-----------------------------------------------------------------------------
(* The checks of a cycle *)

\* syncGridState
SyncStages == <<"list", "match", "stops", "skew">>

Now(stage) == todo # <<>> /\ Head(todo) = stage
Go == todo' = Tail(todo)
GoTo(stages) == todo' = stages \o Tail(todo)

Pause == regime' = [regime EXCEPT !.paused = TRUE]

\* checkBreakout, checkMaxDrawdown and checkDailyLossLimit: any of them ends the
\* cycle, with a pause; the first also cancels, the second also closes.
StartCycle ==
  /\ running /\ todo = <<>>
  /\ \/ todo' = <<"box", "recover", "ask">> /\ UNCHANGED regime
     \/ todo' \in {<<"cancel">>, <<"cancel", "close">>, <<>>} /\ Pause
  /\ UNCHANGED <<venue, exchange, grid, running, listed, lost, blind>>

CheckBoxBreakout ==
  /\ Now("box")
  /\ \/ Go /\ UNCHANGED regime
     \/ \E h \in Histories : regime' = Checked(regime, h) /\ GoTo(Sequel(regime, h))
  /\ UNCHANGED <<venue, exchange, grid, running, listed, lost, blind>>

\* checkFalseBreakoutRecovery; the sides follow a new direction.
Recover(h) ==
  /\ Now("recover") /\ NeedsRecovery(regime)
  /\ regime' = Recovered(regime, h)
  /\ IF regime'.direction = regime.direction THEN Go ELSE GoTo(<<"redirect">>)
  /\ UNCHANGED <<venue, exchange, grid, running, listed, lost, blind>>

\* Nothing to recover from, or the box cannot be read.
NoRecovery ==
  /\ Now("recover") /\ Go
  /\ UNCHANGED <<venue, exchange, grid, regime, running, listed, lost, blind>>

\* A paused grid, a model that fails and a stopped trader end the cycle.  While
\* the model thinks, others read the list of open orders.
Ask ==
  /\ Now("ask")
  /\ \/ todo' = <<>> /\ UNCHANGED listed
     \/ /\ ~regime.paused /\ running
        /\ \E n \in 0 .. MaxDecisions :
             todo' = [i \in 1 .. n |-> "decide"] \o SyncStages
        /\ listed' = IF venue.stale THEN IdsOf(orders) ELSE {}
  /\ UNCHANGED <<venue, exchange, grid, regime, running, lost, blind>>

-----------------------------------------------------------------------------
(* The decisions *)

Deciding == Now("decide") /\ running

\* A stopped trader drops the decisions that are left.
StopDeciding ==
  /\ Now("decide") /\ ~running
  /\ todo' = SyncStages
  /\ UNCHANGED <<venue, exchange, grid, regime, running, listed, lost, blind>>

\* The lots a reader of the list of positions ends up with: those of the last
\* leg in the list; 0 when the list cannot be read.
Listings == {held[leg] : leg \in {l \in Legs : held[l] > 0}}
Readings == IF Listings = {} THEN {0} ELSE Listings
Positions == Readings \cup (IF "positions" \in Faults THEN {0} ELSE {})

\* Mutant: the pending orders do not count.
NothingPending == 0

PendingLots == SumFunctionOnSet([i \in Level |-> levels[i].qty], Pending)

\* checkTotalPositionLimit
Fits(position, lots) == position + PendingLots + lots <= TotalLots

Ordered(side, lots) ==
  /\ issued < MaxOrders
  /\ issued' = issued + 1
  /\ orders' = orders \cup {[id |-> issued', side |-> side, lots |-> lots]}

Remember(i, id, ask) ==
  /\ levels' = [levels EXCEPT ![i].state = "pending", ![i].order = id, ![i].qty = ask]
  /\ book' = [book EXCEPT ![id] = i]

\* placeGridLimitOrder: at most LevelLots are ordered, the level remembers what
\* was asked for.  A level that has an order drops it, and a level outside of
\* the grid (0) or a lost response remembers nothing.
PlaceGridLimitOrder(i, side, ask) ==
  LET lots == Smaller(ask, LevelLots)
  IN /\ Deciding
     /\ Ordered(side, lots)
     /\ IF i \in Level THEN Remember(i, issued', ask) ELSE UNCHANGED grid
     /\ \E position \in Positions :
          /\ Fits(position, lots)
          /\ DropUnread(IF i \in Pending THEN {levels[i].order}
                        ELSE IF i \in Level THEN {} ELSE {issued'},
                        position \notin Readings)
     /\ Go
     /\ UNCHANGED <<venue, held, regime, running, listed>>

\* The exchange took the order, the trader did not hear of it.
ResponseLost(side, ask) ==
  LET lots == Smaller(ask, LevelLots)
  IN /\ Deciding
     /\ \E position \in Positions : Fits(position, lots)
     /\ "response" \in Faults
     /\ Ordered(side, lots)
     /\ Drop({issued'})
     /\ Go
     /\ UNCHANGED <<venue, held, grid, regime, running, listed>>

\* cancelGridOrder: the level is found by the order book, which may name a level
\* that has a newer order.
CancelGridOrder(o) ==
  LET i == book[o.id]
  IN /\ Deciding
     /\ orders' = orders \ {o}
     /\ IF i = 0 THEN UNCHANGED grid
        ELSE /\ levels' = [levels EXCEPT ![i] = Emptied(@)]
             /\ book' = [book EXCEPT ![o.id] = 0]
     /\ Drop(IF i \in Pending THEN {levels[i].order} ELSE {})
     /\ Go
     /\ UNCHANGED <<venue, issued, held, regime, running, listed>>

\* close_long and close_short.
ClosePosition(leg, lots) ==
  /\ Deciding
  /\ Close([l \in Legs |-> IF l = leg THEN lots ELSE 0])
  /\ Go
  /\ UNCHANGED <<venue, issued, grid, regime, running, listed, blind>>

\* pause_grid, cancel_all_orders, adjust_grid, resume_grid; the last stands also
\* for a decision that is refused or does nothing.
ChangeGrid ==
  /\ Deciding
  /\ \/ Pause /\ GoTo(<<"cancel">>)
     \/ UNCHANGED regime /\ (GoTo(<<"cancel">>) \/ GoTo(<<"cancel", "reinit">>))
     \/ Go /\ \/ UNCHANGED regime
              \/ regime' = [regime EXCEPT !.paused = FALSE]
  /\ UNCHANGED <<venue, exchange, grid, running, listed, lost, blind>>

Decide ==
  \/ \E side \in {"buy", "sell"}, ask \in Asks :
       \/ \E i \in 0 .. N : PlaceGridLimitOrder(i, side, ask)
       \/ ResponseLost(side, ask)
  \/ \E o \in orders : CancelGridOrder(o)
  \/ \E leg \in Legs : \E lots \in 1 .. held[leg] : ClosePosition(leg, lots)
  \/ ChangeGrid
  \/ StopDeciding

-----------------------------------------------------------------------------
(* What decisions and limits lead to *)

\* cancelAllGridOrders: an adapter that fails for one order still reports success.
CancelAllGridOrders ==
  /\ Now("cancel") /\ Go
  /\ \E survivors \in SUBSET orders :
       /\ orders' = survivors
       /\ survivors # {} => "cancel" \in Faults
       /\ levels' = [i \in Level |-> IF i \in Pending THEN Emptied(levels[i]) ELSE levels[i]]
       /\ book' = [id \in Ids |-> 0]
       /\ Drop(IdsOf(survivors))
  /\ UNCHANGED <<venue, issued, held, regime, running, listed>>

\* The adapter reports the failure: nothing is reset, and nobody asks again.
CancelFails ==
  /\ Now("cancel") /\ Go /\ "cancel" \in Faults
  /\ UNCHANGED <<venue, exchange, grid, regime, running, listed, lost, blind>>

\* emergencyExit, closeAllPositions: the leg a position is closed on is told by
\* its sign; without signs every one looks long.
Called(leg) == IF venue.signed THEN leg ELSE "long"

CloseAll ==
  /\ Now("close") /\ Go
  /\ \E done \in SUBSET {leg \in Legs : held[leg] > 0} :
       /\ "close" \notin Faults => \A leg \in Legs : held[leg] > 0 => leg \in done
       /\ Close([leg \in Legs |-> SumFunctionOnSet(held, {l \in done : Called(l) = leg})])
  /\ UNCHANGED <<venue, issued, grid, regime, running, listed, blind>>

\* adjustGrid starts over; autoAdjustGrid keeps the filled levels, each at the
\* new level closest to it, where the last one stays; a new direction changes
\* the sides.  An adjustment drops the orders whose cancel has failed.
Restored(k) ==
  {[i \in Level |-> IF from[i] = 0 THEN FreshGrid(k)[i]
                    ELSE [levels[from[i]] EXCEPT !.side = FreshGrid(k)[i].side]] :
     from \in {f \in [Level -> Filled \cup {0}] :
                 /\ \A i, j \in Level : f[i] = f[j] /\ f[i] # 0 => i = j
                 /\ Filled # {} => \E i \in Level : f[i] # 0}}

Relevelled(stage, k) ==
  IF stage = "reinit" THEN {FreshGrid(k)}
  ELSE IF stage = "recentre" THEN Restored(k)
  ELSE {[i \in Level |-> [levels[i] EXCEPT !.side = FreshGrid(k)[i].side]]}

Relevel ==
  /\ \E stage \in {"reinit", "recentre", "redirect"}, k \in 0 .. N :
       /\ Now(stage)
       /\ levels' \in Relevelled(stage, k)
  /\ Go
  /\ UNCHANGED <<venue, exchange, book, regime, running, listed>>
  /\ Drop(Tracked \ Tracked')

\* adjustGrid and adjustGridDirection cannot read the price.
NoPrice ==
  /\ \E stage \in {"reinit", "redirect"} : Now(stage)
  /\ Go
  /\ UNCHANGED <<venue, exchange, grid, regime, running, listed, lost, blind>>

-----------------------------------------------------------------------------
(* The end of a cycle: syncGridState *)

\* Mutant: a list that cannot be read is taken for an empty one.
TakenForEmpty == Go /\ listed' = {}

\* An unreadable list ends the cycle, without stop losses.
Unreadable == todo' = <<>> /\ UNCHANGED listed

\* GetOpenOrders
List ==
  /\ Now("list")
  /\ \/ Unreadable
     \/ Go /\ listed' \in {IdsOf(orders)} \cup (IF venue.stale THEN {listed} ELSE {})
  /\ UNCHANGED <<venue, exchange, grid, regime, running, lost, blind>>

Sizes == [i \in Level |-> levels[i].size]
Expected == SumFunctionOnSet(Sizes, Filled)
Gone == {i \in Pending : levels[i].order \notin listed}

\* Orders that are no longer listed have filled if the position is larger than
\* the filled levels explain, and else are cancelled.  The entry of a cancelled
\* order stays in the order book.
Match ==
  /\ Now("match") /\ Go
  /\ \E position \in Positions :
       IF position > Expected
         THEN /\ levels' = [i \in Level |->
                   IF i \in Gone THEN [levels[i] EXCEPT !.state = "filled", !.size = levels[i].qty]
                   ELSE levels[i]]
              /\ book' = [id \in Ids |-> IF \E i \in Gone : levels[i].order = id THEN 0 ELSE book[id]]
         ELSE /\ levels' = [i \in Level |-> IF i \in Gone THEN Emptied(levels[i]) ELSE levels[i]]
              /\ UNCHANGED book
  /\ listed' = {}
  /\ UNCHANGED <<venue, exchange, regime, running, lost, blind>>

\* checkAndExecuteStopLoss: the level's side, not its order's, names the leg.
LegOf(i) == IF levels[i].side = "buy" THEN "long" ELSE "short"

StopLosses ==
  /\ Now("stops") /\ Go
  /\ \E done \in SUBSET Filled :
       /\ levels' = [i \in Level |-> IF i \in done THEN [levels[i] EXCEPT !.state = "stopped"] ELSE levels[i]]
       /\ Close([leg \in Legs |-> SumFunctionOnSet(Sizes, {i \in done : LegOf(i) = leg})])
  /\ UNCHANGED <<venue, issued, book, regime, running, listed, blind>>

\* checkGridSkew
Skewed ==
  LET F(side) == Cardinality({i \in Filled : levels[i].side = side})
      E(side) == Cardinality({i \in Level : levels[i].state = "empty" /\ levels[i].side = side})
      Against(s, t) == \/ F(s) > 0 /\ F(t) = 0 /\ E(t) > SkewAbove
                       \/ F(s) >= 3 * F(t) /\ F(s) > SkewAbove
  IN Against("buy", "sell") \/ Against("sell", "buy")

\* autoAdjustGrid, unless the price is still near the centre.
AutoAdjust ==
  /\ Now("skew")
  /\ \/ todo' = <<>>
     \/ Skewed /\ todo' = <<"cancel", "recentre">>
  /\ UNCHANGED <<venue, exchange, grid, regime, running, listed, lost, blind>>

-----------------------------------------------------------------------------
Cycle ==
  \/ StartCycle \/ CheckBoxBreakout \/ NoRecovery \/ Ask
  \/ \E h \in Histories : Recover(h)
  \/ Decide
  \/ CancelAllGridOrders \/ CancelFails \/ CloseAll \/ Relevel \/ NoPrice
  \/ List \/ Match \/ StopLosses \/ AutoAdjust

Next == Cycle \/ Fill \/ Expire \/ Stop \/ Crash \/ Start

Spec == Init /\ [][Next]_vars

-----------------------------------------------------------------------------
(* Properties *)

Stages == {"box", "recover", "ask", "decide", "list", "match", "stops", "skew",
           "cancel", "close", "reinit", "recentre", "redirect"}

Order == [id : Ids, side : {"buy", "sell"}, lots : Nat \ {0}]
LevelInfo == [state : {"empty", "pending", "filled", "stopped"}, side : {"buy", "sell"},
              order : Ids \cup {NoOrder}, qty : Nat, size : Nat]

TypeOK ==
  /\ venue \in Venues
  /\ orders \subseteq Order
  /\ \A o \in orders : o.id <= issued
  /\ issued \in 0 .. MaxOrders
  /\ held \in [Legs -> Nat]
  /\ levels \in [Level -> LevelInfo]
  /\ book \in [Ids -> 0 .. N]
  /\ regime \in Regime
  /\ running \in BOOLEAN
  /\ todo \in Seq(Stages)
  /\ listed \subseteq Ids /\ lost \subseteq Ids
  /\ blind \in BOOLEAN

\* An order that rests on the exchange is some level's pending order, unless the
\* level was given another one, the order was for no level or its response was
\* lost, its cancel failed, the trader restarted, or the book named its level for
\* another order: matching the levels with a list of open orders, an answer that
\* never comes and a skew never drop one.  A dropped order fills without a level,
\* a stop loss or a place in the limit.
NoOrderForgotten == \A o \in orders : o.id \in Tracked \cup lost

LotsOf(S) == SumFunctionOnSet([o \in S |-> o.lots], S)
Exposure == held["long"] + held["short"] + LotsOf(orders)

\* "Total position should not exceed: TotalInvestment * Leverage": on a one-way
\* venue, while no order is lost and the positions can be read, what is held and
\* what may still fill stay within the limit, however fills, expiries, checks
\* and misjudged orders interleave.
WithinTotalLimit ==
  venue.legs = "one" /\ ~blind => Exposure <= TotalLots

\* The same on every venue.
TotalLimitHolds == ~blind => Exposure <= TotalLots

\* The price is the close of a candle that is in every box, so a breakout is
\* never seen, and the first recovery check that reads the box lifts every
\* pause, whoever asked for it.
PauseEndsAtNextCheck ==
  [][Now("recover") /\ (\E h \in Histories : Recover(h)) => ~regime'.paused]_vars

\* emergencyExit "closes all positions" when no call fails.
ExitFlattens == [][CloseAll => \A leg \in Legs : held'[leg] = 0]_vars

\* autoAdjustGrid is to "preserve filled positions": the levels explain as many
\* lots after it as before.
AdjustKeepsPositions == [][Now("recentre") /\ Relevel => Expected' = Expected]_vars
=============================================================================
