--------------------------- MODULE PositionLedger ---------------------------
(***************************************************************************)
(* The rows of trader_positions and what store/position.go and             *)
(* store/position_builder.go do to them: one operator per store method,    *)
(* from the values the method read (`seen', the row its First(&pos, id)    *)
(* returned) to the row its Updates(...) leaves.  The reads and the writes *)
(* are separate SQL statements, so FillSync runs them as separate steps.   *)
(*                                                                         *)
(* A row opened by the sync carries the exchange_position_id               *)
(* "sync_<symbol>_<side>_<tradeTimeMs>", unique per opening fill, so a row *)
(* is named by the index of the fill that opened it, and rows sort by      *)
(* entry_time as their names do.                                           *)
(*                                                                         *)
(* Data abstracted: quantities are whole lots, well above the 0.0001       *)
(* tolerance and rounding of the code; realized_pnl is the collection of   *)
(* fills whose PnL it contains, with multiplicity; close events are kept   *)
(* as the sum of close_quantity per position; close_reason is reduced to   *)
(* whether it is the generic sync_absent_from_exchange; prices, fees and   *)
(* attribution texts are left out.                                         *)
(***************************************************************************)
EXTENDS Integers, Sequences, FiniteSets

CONSTANTS
  Keys,      \* (symbol, side) pairs of one trader
  MaxFills,  \* bound: trades the exchange account makes
  Window     \* the +-2 minutes within which a late close fill is matched

ASSUME LedgerAssumption == MaxFills \in Nat /\ Window \in Nat

FillId == 1..MaxFills

Fill == [key : Keys, open : BOOLEAN, qty : Nat \ {0}, time : Nat]

Row == [key    : Keys,
        status : {"OPEN", "CLOSED"},
        qty    : Nat,               \* quantity
        entry  : Nat,               \* entry_quantity
        pnl    : [FillId -> Nat],   \* fills summed in realized_pnl
        logged : Nat,               \* SUM(close_quantity) of its close events
        absent : BOOLEAN,           \* close_reason = sync_absent_from_exchange
        exit   : Nat]               \* exit_time

NothingBooked == [f \in FillId |-> 0]

Book(pnl, fs) == [f \in FillId |-> pnl[f] + (IF f \in fs THEN 1 ELSE 0)]

NewRow(k, q) == [key |-> k, status |-> "OPEN", qty |-> q, entry |-> q,
                 pnl |-> NothingBooked, logged |-> 0, absent |-> FALSE, exit |-> 0]

-----------------------------------------------------------------------------
(* Queries *)

OpenRows(rs, k) == {r \in DOMAIN rs : rs[r].key = k /\ rs[r].status = "OPEN"}

NewestOf(S) == {r \in S : \A s \in S : s <= r}

\* Mutant: only rows never reduced are found (quantity = entry_quantity).
UntouchedOpenRow(rs, k) ==
  NewestOf({r \in OpenRows(rs, k) : rs[r].qty = rs[r].entry})

\* ORDER BY entry_time DESC, first row; the empty set when there is none.
GetOpenPositionBySymbol(rs, k) == NewestOf(OpenRows(rs, k))

ClosedNear(rs, k, t) ==
  {r \in DOMAIN rs : /\ rs[r].key = k
                     /\ rs[r].status = "CLOSED"
                     /\ rs[r].exit > 0
                     /\ rs[r].exit >= t - Window
                     /\ rs[r].exit <= t + Window}

LastExit(rs, S) ==
  {r \in S : \A s \in S : rs[s].exit < rs[r].exit \/ (rs[s].exit = rs[r].exit /\ s <= r)}

GetRecentlyClosedSyncAbsentPosition(rs, k, t) ==
  LastExit(rs, {r \in ClosedNear(rs, k, t) : rs[r].absent})

GetRecentlyClosedUnderClosedPosition(rs, k, t) ==
  LastExit(rs, {r \in ClosedNear(rs, k, t) : rs[r].logged < rs[r].entry})

\* handleClose's fallback when no row is open.
LateCloseTarget(rs, k, t) ==
  LET absent == GetRecentlyClosedSyncAbsentPosition(rs, k, t)
  IN IF absent # {} THEN absent ELSE GetRecentlyClosedUnderClosedPosition(rs, k, t)

-----------------------------------------------------------------------------
(* Updates.  `row' is the row as the UPDATE finds it, `seen' as it was read. *)

\* Mutant: entry_quantity grows, quantity does not.
GrowEntryOnly(row, seen, q) == [row EXCEPT !.entry = seen.entry + q]

UpdatePositionQuantityAndPrice(row, seen, q) ==
  [row EXCEPT !.qty = seen.qty + q, !.entry = seen.entry + q]

\* Mutant: a reduction never closes the row.
ReduceOnly(row, seen, q, f, now) ==
  [row EXCEPT !.qty = seen.qty - q, !.pnl = Book(seen.pnl, {f})]

\* Not larger than zero after the reduction: the row is closed.
ReducePositionQuantity(row, seen, q, f, now) ==
  IF seen.qty <= q
  THEN [row EXCEPT !.qty = 0, !.status = "CLOSED", !.exit = now, !.absent = FALSE,
                   !.pnl = Book(seen.pnl, {f})]
  ELSE [row EXCEPT !.qty = seen.qty - q, !.pnl = Book(seen.pnl, {f})]

\* Mutant: the close adds its PnL to the row's current total a second time.
CloseBookingTwice(row, seen, found, f, t) ==
  [row EXCEPT !.qty = seen.entry, !.status = "CLOSED", !.exit = t, !.absent = FALSE,
              !.pnl = Book(Book(found, {f}), {f})]

\* totalPnL was computed by handleClose from the row it `found'; the closed
\* row shows the entry quantity again.
ClosePositionFully(row, seen, found, f, t) ==
  [row EXCEPT !.qty = seen.entry, !.status = "CLOSED", !.exit = t, !.absent = FALSE,
              !.pnl = Book(found, {f})]

\* The whole fill's PnL is added even when only part of it is attributed.
ApplyLateCloseFill(row, seen, f, t) ==
  [row EXCEPT !.pnl = Book(seen.pnl, {f}),
              !.exit = IF seen.exit = 0 \/ t > seen.exit THEN t ELSE row.exit]

\* Mutant: no clamp to what is left to close.
UnclampedLateQty(seen, q) == q

LateCloseQty(seen, q) ==
  IF q > seen.entry - seen.logged THEN seen.entry - seen.logged ELSE q

\* UPDATE ... WHERE id = ? AND status = 'OPEN'
MarkAbsentClosed(row, seen, fs, generic, now) ==
  IF row.status = "OPEN"
  THEN [row EXCEPT !.qty = 0, !.status = "CLOSED", !.exit = now, !.absent = generic,
                   !.pnl = Book(seen.pnl, fs)]
  ELSE row

LogCloseEvent(row, q) == [row EXCEPT !.logged = row.logged + q]
=============================================================================
