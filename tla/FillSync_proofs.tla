-------------------------- MODULE FillSync_proofs --------------------------
(***************************************************************************)
(* Theorems about FillSync, for any keys, any number of trades and lots,   *)
(* any window and any failures.                                            *)
(***************************************************************************)
EXTENDS FillSync, FiniteSetTheorems, TLAPS

\* Booking fills into a realized PnL leaves a realized PnL.
LEMMA BookType ==
  ASSUME NEW pnl \in [FillId -> Nat], NEW fs
  PROVE  Book(pnl, fs) \in [FillId -> Nat]
  BY DEF Book

\* The row handleOpen inserts is a row.
LEMMA NewRowType ==
  ASSUME NEW k \in Keys, NEW q \in Nat
  PROVE  NewRow(k, q) \in Row
  BY DEF NewRow, Row, NothingBooked

\* What a store method writes is a row again.
LEMMA UpdatedType ==
  ASSUME NEW row \in Row, NEW seen \in Columns, NEW found \in [FillId -> Nat],
         NEW q \in Nat, NEW f, NEW t \in Nat
  PROVE  /\ UpdatePositionQuantityAndPrice(row, seen, q) \in Row
         /\ ReducePositionQuantity(row, seen, q, f, t) \in Row
         /\ ClosePositionFully(row, seen, found, f, t) \in Row
         /\ ApplyLateCloseFill(row, seen, f, t) \in Row
         /\ LogCloseEvent(row, q) \in Row
<1>1. Book(seen.pnl, {f}) \in [FillId -> Nat] /\ Book(found, {f}) \in [FillId -> Nat]
  BY BookType DEF Columns
<1>2. UpdatePositionQuantityAndPrice(row, seen, q) \in Row
  <2>1. seen.qty + q \in Nat /\ seen.entry + q \in Nat
    BY DEF Columns
  <2> QED BY <2>1 DEF UpdatePositionQuantityAndPrice, Row
<1>3. ReducePositionQuantity(row, seen, q, f, t) \in Row
  <2>1. ~(seen.qty <= q) => seen.qty - q \in Nat
    BY DEF Columns
  <2>2. CASE seen.qty <= q
    BY <1>1, <2>2 DEF ReducePositionQuantity, Row
  <2>3. CASE ~(seen.qty <= q)
    BY <1>1, <2>1, <2>3 DEF ReducePositionQuantity, Row
  <2> QED BY <2>2, <2>3
<1>4. ClosePositionFully(row, seen, found, f, t) \in Row
  BY <1>1 DEF ClosePositionFully, Row, Columns
<1>5. ApplyLateCloseFill(row, seen, f, t) \in Row
  BY <1>1 DEF ApplyLateCloseFill, Row, Columns
<1>6. LogCloseEvent(row, q) \in Row
  BY DEF LogCloseEvent, Row
<1> QED BY <1>2, <1>3, <1>4, <1>5, <1>6

\* What the sweep writes is a row.
LEMMA MarkAbsentType ==
  ASSUME NEW row \in Row, NEW seen \in Row, NEW fs, NEW generic \in BOOLEAN, NEW t \in Nat
  PROVE  MarkAbsentClosed(row, seen, fs, generic, t) \in Row
<1>1. Book(seen.pnl, fs) \in [FillId -> Nat]
  BY BookType DEF Row
<1> QED BY <1>1 DEF MarkAbsentClosed, Row

\* What a store method loads has the types of its columns.
LEMMA ReadType ==
  ASSUME NEW row \in Row
  PROVE  Read(row) \in Columns
  BY DEF Read, Row, Columns

-----------------------------------------------------------------------------
(* Types and references *)

\* A goroutine's state that refers to fetched trades and to rows of D.
StateOK(st, D) ==
  /\ st \in Loop
  /\ st.todo \subseteq Fetched
  /\ st.pc \notin {"idle", "check"} => st.cur \in Fetched
  /\ st.pc \in {"load", "store", "log"} => st.row \in D /\ st.op # "none"
  /\ st.pc = "store" /\ st.op = "late" => st.seen.logged < st.seen.entry

TypeInv == TypeOK /\ LoopRefs

\* The type invariant, of one goroutine.
LEMMA StateOfLoop ==
  ASSUME TypeInv, NEW l \in Loops
  PROVE  StateOK(loop[l], DOMAIN rows)
  BY DEF TypeInv, TypeOK, LoopRefs, StateOK

\* One goroutine moves to a sound state and the rows it or others refer to stay.
LEMMA GotoOK ==
  ASSUME TypeInv, NEW l \in Loops, NEW st, StateOK(st, DOMAIN rows'),
         Goto(l, st), UNCHANGED fills, DOMAIN rows \subseteq DOMAIN rows'
  PROVE  loop' \in [Loops -> Loop] /\ LoopRefs'
<1>1. loop' \in [Loops -> Loop]
  BY DEF Goto, StateOK, TypeInv, TypeOK
<1>2. Fetched' = Fetched
  BY DEF Fetched
<1>3. ASSUME NEW m \in Loops
      PROVE  StateOK(loop[m], DOMAIN rows)
  BY StateOfLoop
<1>4. \A m \in Loops : loop'[m] = IF m = l THEN st ELSE loop[m]
  BY DEF Goto, TypeInv, TypeOK
<1>5. LoopRefs'
  <2> SUFFICES ASSUME NEW m \in Loops
               PROVE  /\ loop'[m].todo \subseteq Fetched
                      /\ loop'[m].pc \notin {"idle", "check"} => loop'[m].cur \in Fetched
                      /\ loop'[m].pc \in {"load", "store", "log"}
                           => loop'[m].row \in DOMAIN rows' /\ loop'[m].op # "none"
                      /\ loop'[m].pc = "store" /\ loop'[m].op = "late"
                           => loop'[m].seen.logged < loop'[m].seen.entry
    BY <1>2 DEF LoopRefs
  <2>1. CASE m = l
    BY <1>4, <2>1 DEF StateOK
  <2>2. CASE m # l
    BY <1>3, <1>4, <2>2 DEF StateOK
  <2> QED BY <2>1, <2>2
<1> QED BY <1>1, <1>5

\* A goroutine between polls satisfies its part of the type invariant.
LEMMA IdleLoopOK == StateOK(IdleLoop, DOMAIN rows)
  BY DEF StateOK, IdleLoop, Loop, Pc, NothingBooked, NothingSeen, Columns

\* Moving on to the next trade is sound and leaves no row behind.
LEMMA NextTradeOK ==
  ASSUME TypeInv, NEW l \in Loops, NEW D
  PROVE  StateOK(NextTrade(l), D) /\ NextTrade(l).pc \in {"idle", "check"}
<1>1. loop[l].todo \ {loop[l].cur} \subseteq Fetched /\ loop[l].todo \in SUBSET FillId
  BY StateOfLoop DEF StateOK, Loop
<1>2. NothingBooked \in [FillId -> Nat] /\ NothingSeen \in Columns
  BY DEF NothingBooked, NothingSeen, Columns
<1> QED BY <1>1, <1>2 DEF NextTrade, IdleLoop, StateOK, Loop, Pc

\* A fetched trade is a trade of the account.
LEMMA FetchedOK ==
  ASSUME TypeInv
  PROVE  Fetched \subseteq FillId /\ \A f \in Fetched : fills[f] \in Fill
  BY LedgerAssumption DEF TypeInv, TypeOK, Fetched, FillId

\* What the tables hold is untouched by a goroutine that only moves.
LEMMA MoveOK ==
  ASSUME TypeInv, NEW l \in Loops, NEW st, StateOK(st, DOMAIN rows), Goto(l, st),
         UNCHANGED <<exchange, store, sweep>>, faults' \in Nat
  PROVE  TypeInv'
<1>1. UNCHANGED fills /\ DOMAIN rows \subseteq DOMAIN rows' /\ StateOK(st, DOMAIN rows')
  BY DEF exchange, store
<1>2. loop' \in [Loops -> Loop] /\ LoopRefs'
  BY <1>1, GotoOK
<1> QED BY <1>2 DEF TypeInv, TypeOK, exchange, store

\* The type invariant is preserved by a fetch.
LEMMA FetchType == ASSUME TypeInv, NEW l \in Loops, Fetch(l) PROVE TypeInv'
<1>1. PICK S \in SUBSET Fetched : Goto(l, [loop[l] EXCEPT !.pc = "check", !.todo = S])
  BY DEF Fetch, NewIds
<1>2. StateOK([loop[l] EXCEPT !.pc = "check", !.todo = S], DOMAIN rows)
  BY <1>1, StateOfLoop, FetchedOK DEF StateOK, Loop, Pc
<1> QED BY <1>1, <1>2, MoveOK DEF Fetch, TypeInv, TypeOK

\* A trade picked from those to do is a fetched one.
LEMMA PickedOK ==
  ASSUME TypeInv, NEW l \in Loops, NEW f \in Oldest(loop[l].todo)
  PROVE  /\ f \in Fetched
         /\ \A q \in {"record", "lookup"} :
              StateOK([loop[l] EXCEPT !.pc = q, !.cur = f], DOMAIN rows)
         /\ loop[l].pc = "check" => StateOK(SkipTrade(l, f), DOMAIN rows)
<1>1. f \in Fetched /\ f \in FillId
  BY StateOfLoop, FetchedOK DEF StateOK, Oldest
<1>2. \A q \in {"record", "lookup"} :
        StateOK([loop[l] EXCEPT !.pc = q, !.cur = f], DOMAIN rows)
  BY <1>1, StateOfLoop DEF StateOK, Loop, Pc
<1>3. StateOK(SkipTrade(l, f), DOMAIN rows)
  <2>1. loop[l].todo \ {f} \subseteq Fetched /\ loop[l].todo \ {f} \in SUBSET FillId
    BY StateOfLoop, FetchedOK DEF StateOK
  <2> QED BY <2>1, StateOfLoop DEF SkipTrade, StateOK, Loop, Pc
<1> QED BY <1>1, <1>2, <1>3

\* The type invariant is preserved by the existence check.
LEMMA CheckType == ASSUME TypeInv, NEW l \in Loops, CheckExisting(l) PROVE TypeInv'
<1>1. faults' \in Nat
  BY DEF CheckExisting, TypeInv, TypeOK
<1>2. CASE loop[l].todo = {}
  BY <1>1, <1>2, IdleLoopOK, MoveOK DEF CheckExisting
<1>3. CASE loop[l].todo # {}
  <2>1. PICK f \in Oldest(loop[l].todo) :
          Goto(l, IF f \in orders THEN ExistingTrade(l, f)
                                  ELSE [loop[l] EXCEPT !.pc = "record", !.cur = f])
    BY <1>3 DEF CheckExisting
  <2>2. StateOK(IF f \in orders THEN ExistingTrade(l, f)
                                ELSE [loop[l] EXCEPT !.pc = "record", !.cur = f], DOMAIN rows)
    BY <2>1, PickedOK DEF ExistingTrade, CheckExisting
  <2> QED BY <1>1, <2>1, <2>2, MoveOK DEF CheckExisting
<1> QED BY <1>2, <1>3

\* The type invariant is preserved by a failing existence check.
LEMMA CheckFailsType == ASSUME TypeInv, NEW l \in Loops, CheckFails(l) PROVE TypeInv'
<1>1. faults' \in Nat
  BY DEF CheckFails, TypeInv, TypeOK
<1>2. PICK f \in Oldest(loop[l].todo) : Goto(l, [loop[l] EXCEPT !.pc = "record", !.cur = f])
  BY DEF CheckFails
<1> QED BY <1>1, <1>2, PickedOK, MoveOK DEF CheckFails

\* A goroutine that works on a trade may move on to any later stage of it.
LEMMA StageOK ==
  ASSUME TypeInv, NEW l \in Loops, loop[l].pc \notin {"idle", "check"}
  PROVE  /\ \A q \in {"record", "insertOrder", "lookup", "create", "insertRow"} :
              StateOK([loop[l] EXCEPT !.pc = q], DOMAIN rows)
         /\ \A op \in {"merge", "reduce", "full", "late"}, r \in DOMAIN rows :
              StateOK(Apply(l, op, r), DOMAIN rows)
<1>1. \A q \in {"record", "insertOrder", "lookup", "create", "insertRow"} :
        StateOK([loop[l] EXCEPT !.pc = q], DOMAIN rows)
  BY StateOfLoop DEF StateOK, Loop, Pc
<1>2. ASSUME NEW op \in {"merge", "reduce", "full", "late"}, NEW r \in DOMAIN rows
      PROVE  StateOK(Apply(l, op, r), DOMAIN rows)
  <2>1. r \in FillId /\ rows[r].pnl \in [FillId -> Nat]
    BY DEF TypeInv, TypeOK, Row
  <2> QED BY <2>1, StateOfLoop DEF Apply, StateOK, Loop, Pc
<1> QED BY <1>1, <1>2

\* The type invariant is preserved by the check of CreateOrder.
LEMMA RecordType == ASSUME TypeInv, NEW l \in Loops, RecordOrder(l) PROVE TypeInv'
<1>1. PICK q \in {"insertOrder", "lookup"} : Goto(l, [loop[l] EXCEPT !.pc = q])
  BY DEF RecordOrder
<1> QED BY <1>1, StageOK, MoveOK DEF RecordOrder, TypeInv, TypeOK

\* The type invariant is preserved by the INSERT of an order.
LEMMA InsertOrderType == ASSUME TypeInv, NEW l \in Loops, InsertOrder(l) PROVE TypeInv'
<1>1. loop[l].cur \in FillId
  BY StateOfLoop, FetchedOK DEF InsertOrder, StateOK
<1>2. StateOK(IF loop[l].cur \in orders THEN NextTrade(l) ELSE [loop[l] EXCEPT !.pc = "lookup"],
              DOMAIN rows')
  BY StageOK, NextTradeOK DEF InsertOrder
<1>3. loop' \in [Loops -> Loop] /\ LoopRefs'
  BY <1>2, GotoOK DEF InsertOrder, exchange
<1> QED BY <1>1, <1>3 DEF InsertOrder, TypeInv, TypeOK, exchange

\* The type invariant is preserved by handleOpen.
LEMMA HandleOpenType == ASSUME TypeInv, NEW l \in Loops, HandleOpen(l) PROVE TypeInv'
<1>1. PICK st : StateOK(st, DOMAIN rows) /\ Goto(l, st)
  BY StageOK DEF HandleOpen, GetOpenPositionBySymbol, NewestOf, OpenRows
<1> QED BY <1>1, MoveOK DEF HandleOpen, TypeInv, TypeOK

\* The type invariant is preserved by handleClose.
LEMMA HandleCloseType == ASSUME TypeInv, NEW l \in Loops, HandleClose(l) PROVE TypeInv'
<1>1. PICK st : StateOK(st, DOMAIN rows) /\ Goto(l, st)
  BY StageOK, NextTradeOK
  DEF HandleClose, GetOpenPositionBySymbol, NewestOf, OpenRows, LateCloseTarget,
      GetRecentlyClosedSyncAbsentPosition, GetRecentlyClosedUnderClosedPosition,
      LastExit, ClosedNear
<1> QED BY <1>1, MoveOK DEF HandleClose, TypeInv, TypeOK

\* The type invariant is preserved by CreateOpenPosition.
LEMMA CreateType == ASSUME TypeInv, NEW l \in Loops, CreateOpenPosition(l) PROVE TypeInv'
<1>1. PICK st : StateOK(st, DOMAIN rows) /\ Goto(l, st)
  BY StageOK, NextTradeOK
  DEF CreateOpenPosition, GetOpenPositionBySymbol, NewestOf, OpenRows
<1> QED BY <1>1, MoveOK DEF CreateOpenPosition, TypeInv, TypeOK

\* The type invariant is preserved by the INSERT of a row.
LEMMA InsertPositionType == ASSUME TypeInv, NEW l \in Loops, InsertPosition(l) PROVE TypeInv'
<1> DEFINE f == loop[l].cur
<1>1. f \in FillId /\ fills[f] \in Fill
  BY StateOfLoop, FetchedOK DEF InsertPosition, StateOK
<1>2. CASE f \in DOMAIN rows
  <2>1. PICK st : StateOK(st, DOMAIN rows) /\ Goto(l, st)
    BY <1>2, StageOK, NextTradeOK DEF InsertPosition
  <2>2. UNCHANGED store
    BY <1>2 DEF InsertPosition, store
  <2> QED BY <2>1, <2>2, MoveOK DEF InsertPosition, TypeInv, TypeOK
<1>3. CASE f \notin DOMAIN rows
  <2>1. rows' = [r \in DOMAIN rows \cup {f} |->
                   IF r = f THEN NewRow(fills[f].key, fills[f].qty) ELSE rows[r]]
    BY <1>3 DEF InsertPosition, Cur
  <2>2. NewRow(fills[f].key, fills[f].qty) \in Row
    BY <1>1, NewRowType DEF Fill
  <2>3. DOMAIN rows' = DOMAIN rows \cup {f} /\ rows' \in [DOMAIN rows' -> Row]
    BY <2>1, <2>2 DEF TypeInv, TypeOK
  <2>4. Goto(l, NextTrade(l)) /\ StateOK(NextTrade(l), DOMAIN rows')
    BY <1>3, NextTradeOK DEF InsertPosition
  <2>5. loop' \in [Loops -> Loop] /\ LoopRefs'
    BY <2>3, <2>4, GotoOK DEF InsertPosition, exchange
  <2>6. applied' \in [FillId -> Nat]
    BY <1>1, <1>3 DEF InsertPosition, TypeInv, TypeOK
  <2> QED BY <1>1, <2>3, <2>5, <2>6 DEF InsertPosition, TypeInv, TypeOK, exchange
<1> QED BY <1>2, <1>3

\* The type invariant is preserved by the read of a store method.
LEMMA LoadType == ASSUME TypeInv, NEW l \in Loops, LoadRow(l) PROVE TypeInv'
<1>1. Read(rows[loop[l].row]) \in Columns
  BY StateOfLoop, ReadType DEF LoadRow, StateOK, TypeInv, TypeOK
<1>2. CASE NothingLeft(loop[l].op, Read(rows[loop[l].row]))
  BY <1>2, NextTradeOK, MoveOK DEF LoadRow, TypeInv, TypeOK
<1>3. CASE ~NothingLeft(loop[l].op, Read(rows[loop[l].row]))
  <2> DEFINE seen == Read(rows[loop[l].row])
  <2>1. loop[l].op = "late" => seen.logged < seen.entry
    BY <1>1, <1>3 DEF NothingLeft, Columns
  <2>2. StateOK([loop[l] EXCEPT !.pc = "store", !.seen = seen], DOMAIN rows)
    <3> HIDE DEF seen
    <3>1. seen \in Columns
      BY <1>1 DEF seen
    <3> QED BY <2>1, <3>1, StateOfLoop DEF LoadRow, StateOK, Loop, Pc
  <2> QED BY <1>3, <2>2, MoveOK DEF LoadRow, TypeInv, TypeOK
<1> QED BY <1>2, <1>3

\* Rewriting one row keeps the table's type.
LEMMA RewriteOK ==
  ASSUME TypeInv, NEW r \in DOMAIN rows, NEW new \in Row, rows' = [rows EXCEPT ![r] = new]
  PROVE  DOMAIN rows' = DOMAIN rows /\ rows' \in [DOMAIN rows' -> Row]
  BY DEF TypeInv, TypeOK

\* What the type invariant says of a goroutine about to write.
LEMMA StoreFacts ==
  ASSUME TypeInv, NEW l \in Loops, loop[l].pc = "store"
  PROVE  /\ loop[l].row \in DOMAIN rows /\ rows[loop[l].row] \in Row
         /\ loop[l].seen \in Columns /\ loop[l].found \in [FillId -> Nat]
         /\ loop[l].op \in {"merge", "reduce", "full", "late"}
         /\ loop[l].cur \in Fetched /\ loop[l].cur \in FillId
         /\ Cur(l) \in Fill /\ clock \in Nat
  BY StateOfLoop, FetchedOK DEF StateOK, Loop, Cur, TypeInv, TypeOK

\* The quantity of a close event is a number.
LEMMA EventQtyType ==
  ASSUME TypeInv, NEW l \in Loops, loop[l].pc = "store"
  PROVE  EventQty(l) \in Nat
  BY StoreFacts, StateOfLoop DEF StateOK, EventQty, LateCloseQty, Columns, Fill

\* The type invariant is preserved by the UPDATE of a store method.
LEMMA StoreRowType ==
  ASSUME TypeInv, NEW l \in Loops, StoreRow(l)
  PROVE  TypeInv' /\ DOMAIN rows' = DOMAIN rows
<1> DEFINE me == loop[l]
<1>1. me.pc = "store"
  BY DEF StoreRow
<1>2. Updated(l) \in Row
  <2>1. Cur(l).qty \in Nat /\ Cur(l).time \in Nat
    BY <1>1, StoreFacts DEF Fill
  <2> HIDE DEF me
  <2> QED BY <1>1, <2>1, StoreFacts, UpdatedType DEF Updated, me
<1>3. DOMAIN rows' = DOMAIN rows /\ rows' \in [DOMAIN rows' -> Row]
  BY <1>1, <1>2, StoreFacts, RewriteOK DEF StoreRow
<1>4. StateOK([me EXCEPT !.pc = "log", !.event = EventQty(l)], DOMAIN rows)
  BY <1>1, StateOfLoop, EventQtyType DEF StateOK, Loop, Pc
<1>5. loop' \in [Loops -> Loop] /\ LoopRefs'
  BY <1>3, <1>4, NextTradeOK, GotoOK DEF StoreRow, exchange
<1>6. applied' \in [FillId -> Nat]
  BY <1>1, StoreFacts DEF StoreRow, TypeInv, TypeOK
<1> QED BY <1>3, <1>5, <1>6 DEF StoreRow, TypeInv, TypeOK, exchange

\* The type invariant is preserved by the logging of a close event.
LEMMA LogType ==
  ASSUME TypeInv, NEW l \in Loops, LogEvent(l)
  PROVE  TypeInv' /\ DOMAIN rows' = DOMAIN rows
<1>1. /\ loop[l].row \in DOMAIN rows /\ rows[loop[l].row] \in Row
      /\ loop[l].event \in Nat /\ loop[l].cur \in FillId /\ loop[l].row \in FillId
  BY StateOfLoop, FetchedOK DEF LogEvent, StateOK, Loop, TypeInv, TypeOK
<1>2. LogCloseEvent(rows[loop[l].row], loop[l].event) \in Row
  BY <1>1 DEF LogCloseEvent, Row
<1>3. DOMAIN rows' = DOMAIN rows /\ rows' \in [DOMAIN rows' -> Row]
  BY <1>1, <1>2, RewriteOK DEF LogEvent
<1>4. loop' \in [Loops -> Loop] /\ LoopRefs'
  BY <1>3, NextTradeOK, GotoOK DEF LogEvent, exchange
<1>5. links' \subseteq FillId \X FillId
  BY <1>1 DEF LogEvent, TypeInv, TypeOK
<1> QED BY <1>3, <1>4, <1>5 DEF LogEvent, TypeInv, TypeOK, exchange

\* The type invariant is preserved by a failing statement.
LEMMA StepFailsType == ASSUME TypeInv, NEW l \in Loops, StepFails(l) PROVE TypeInv'
<1>1. faults' \in Nat
  BY DEF StepFails, TypeInv, TypeOK
<1> QED BY <1>1, NextTradeOK, MoveOK DEF StepFails

\* The type invariant is preserved by the fetch of the position list.
LEMMA SweepFetchType == ASSUME TypeInv, SweepFetch PROVE TypeInv'
<1>1. UNCHANGED <<clock, fills, live, orders, links, rows, applied, loop>>
  BY DEF SweepFetch, exchange, store
<1>2. faults' \in Nat
  BY DEF SweepFetch, TypeInv, TypeOK
<1>3. /\ sweep'.pc = "list" /\ sweep'.snap \subseteq Keys /\ DOMAIN sweep'.seen = {}
      /\ sweep'.seen \in [DOMAIN sweep'.seen -> Row]
  <2>1. PICK S \in SUBSET Keys : sweep' = [pc |-> "list", snap |-> S, seen |-> <<>>]
    BY DEF SweepFetch
  <2> QED BY <2>1
<1> QED BY <1>1, <1>2, <1>3 DEF TypeInv, TypeOK, LoopRefs, Fetched

\* An idle sweep has the declared types.
LEMMA IdleSweepOK ==
  /\ IdleSweep.pc = "idle" /\ IdleSweep.snap = {} /\ DOMAIN IdleSweep.seen = {}
  /\ IdleSweep.seen \in [DOMAIN IdleSweep.seen -> Row]
  BY DEF IdleSweep

\* The type invariant is preserved by the choice of the absent rows.
LEMMA SweepListType == ASSUME TypeInv, SweepList PROVE TypeInv'
<1>1. UNCHANGED <<clock, fills, live, orders, links, rows, applied, loop, faults>>
  BY DEF SweepList, exchange, store
<1> DEFINE absent == ToClose({r \in AllOpen : rows[r].key \notin sweep.snap})
<1>2. absent \subseteq DOMAIN rows
  BY DEF ToClose, AllOpen
<1>3. CASE absent = {}
  BY <1>1, <1>3, IdleSweepOK DEF SweepList, TypeInv, TypeOK, LoopRefs, Fetched
<1>4. CASE absent # {}
  <2>1. sweep' = [pc |-> "close", snap |-> {}, seen |-> [r \in absent |-> rows[r]]]
    BY <1>4 DEF SweepList
  <2>2. sweep'.pc = "close" /\ sweep'.snap = {} /\ sweep'.seen = [r \in absent |-> rows[r]]
    BY <2>1
  <2> QED BY <1>1, <1>2, <2>2 DEF TypeInv, TypeOK, LoopRefs, Fetched
<1> QED BY <1>3, <1>4

\* A sweep closes one listed row, or finds it already closed.
LEMMA SweepCloseFacts ==
  ASSUME TypeInv, SweepClose
  PROVE  /\ UNCHANGED <<clock, fills, live, orders, links, applied, loop, faults>>
         /\ \E r \in DOMAIN sweep.seen, generic \in BOOLEAN, fs \in SUBSET FillId :
              /\ rows' = [rows EXCEPT ![r] =
                            MarkAbsentClosed(rows[r], sweep.seen[r], fs, generic, clock)]
              /\ \/ sweep' = IdleSweep
                 \/ sweep' = [pc |-> "close", snap |-> {},
                              seen |-> [s \in DOMAIN sweep.seen \ {r} |-> sweep.seen[s]]]
<1>1. UNCHANGED <<clock, fills, live, orders, links, applied, loop, faults>>
  BY DEF SweepClose, exchange
<1>2. PICK r \in NewestOf(DOMAIN sweep.seen) :
        \E generic \in IF CloseOrders(r) = {} THEN {TRUE} ELSE BOOLEAN :
          /\ rows' = [rows EXCEPT ![r] =
                        MarkAbsentClosed(@, sweep.seen[r],
                                         ComputePnlFromFills(r, sweep.seen[r]), generic, clock)]
          /\ sweep' = IF DOMAIN sweep.seen \ {r} = {} THEN IdleSweep
                      ELSE [pc |-> "close", snap |-> {},
                            seen |-> [s \in DOMAIN sweep.seen \ {r} |-> sweep.seen[s]]]
  BY DEF SweepClose
<1>3. r \in DOMAIN sweep.seen
  BY DEF NewestOf
<1>4. PICK generic \in BOOLEAN :
        /\ rows' = [rows EXCEPT ![r] =
                      MarkAbsentClosed(rows[r], sweep.seen[r],
                                       ComputePnlFromFills(r, sweep.seen[r]), generic, clock)]
        /\ sweep' = IF DOMAIN sweep.seen \ {r} = {} THEN IdleSweep
                    ELSE [pc |-> "close", snap |-> {},
                          seen |-> [s \in DOMAIN sweep.seen \ {r} |-> sweep.seen[s]]]
  BY <1>2
<1>5. ComputePnlFromFills(r, sweep.seen[r]) \subseteq FillId
  BY DEF ComputePnlFromFills, CloseOrders, LinkedOrders, OnCloseSide, TypeInv, TypeOK
<1> QED BY <1>1, <1>3, <1>4, <1>5

\* The type invariant is preserved by closing an absent row.
LEMMA SweepCloseType ==
  ASSUME TypeInv, SweepClose
  PROVE  TypeInv' /\ DOMAIN rows' = DOMAIN rows
<1>1. UNCHANGED <<clock, fills, live, orders, links, applied, loop, faults>>
  BY SweepCloseFacts
<1>2. PICK r \in DOMAIN sweep.seen, generic \in BOOLEAN, fs \in SUBSET FillId :
        /\ rows' = [rows EXCEPT ![r] =
                      MarkAbsentClosed(rows[r], sweep.seen[r], fs, generic, clock)]
        /\ \/ sweep' = IdleSweep
           \/ sweep' = [pc |-> "close", snap |-> {},
                        seen |-> [s \in DOMAIN sweep.seen \ {r} |-> sweep.seen[s]]]
  BY SweepCloseFacts
<1>3. r \in DOMAIN rows /\ rows[r] \in Row /\ sweep.seen[r] \in Row /\ clock \in Nat
  BY DEF TypeInv, TypeOK
<1>4. MarkAbsentClosed(rows[r], sweep.seen[r], fs, generic, clock) \in Row
  BY <1>3, MarkAbsentType
<1>5. DOMAIN rows' = DOMAIN rows /\ rows' \in [DOMAIN rows' -> Row]
  BY <1>2, <1>3, <1>4, RewriteOK
<1>6. /\ sweep'.pc \in {"idle", "list", "close"} /\ sweep'.snap \subseteq Keys
      /\ DOMAIN sweep'.seen \subseteq DOMAIN rows'
      /\ sweep'.seen \in [DOMAIN sweep'.seen -> Row]
  <2>1. CASE sweep' = IdleSweep
    BY <2>1, IdleSweepOK
  <2>2. CASE sweep' = [pc |-> "close", snap |-> {},
                       seen |-> [s \in DOMAIN sweep.seen \ {r} |-> sweep.seen[s]]]
    BY <2>2, <1>5 DEF TypeInv, TypeOK
  <2> QED BY <1>2, <2>1, <2>2
<1> QED BY <1>1, <1>5, <1>6 DEF TypeInv, TypeOK, LoopRefs, Fetched

\* The type invariant is preserved by a crash.
LEMMA CrashType == ASSUME TypeInv, Crash PROVE TypeInv'
<1>1. UNCHANGED <<clock, fills, live, orders, links, rows, applied>> /\ faults' \in Nat
  BY DEF Crash, exchange, store, TypeInv, TypeOK
<1>2. loop' = [l \in Loops |-> IdleLoop] /\ sweep' = IdleSweep
  BY DEF Crash
<1>3. loop' \in [Loops -> Loop] /\ LoopRefs'
  BY <1>2, IdleLoopOK DEF StateOK, LoopRefs, IdleLoop
<1> QED BY <1>1, <1>2, <1>3, IdleSweepOK DEF TypeInv, TypeOK

\* The type invariant is preserved by a trade of the account.
LEMMA TradeType ==
  ASSUME TypeInv, NEW k \in Keys, NEW open \in BOOLEAN, NEW q \in 1..MaxQty, Trade(k, open, q)
  PROVE  TypeInv' /\ Fetched \subseteq Fetched' /\ \A f \in Fetched : fills'[f] = fills[f]
<1> DEFINE new == [key |-> k, open |-> open, qty |-> q, time |-> clock + 1]
<1>1. new \in Fill /\ q \in Nat /\ clock' \in Nat
  BY SyncAssumption DEF Trade, Fill, TypeInv, TypeOK
<1>2. fills' = Append(fills, new) /\ fills \in Seq(Fill) /\ Len(fills) < MaxFills
  BY DEF Trade, TypeInv, TypeOK
<1>3. /\ fills' \in Seq(Fill) /\ Len(fills') = Len(fills) + 1 /\ Len(fills) \in Nat
      /\ \A f \in 1..Len(fills) : fills'[f] = fills[f]
  BY <1>1, <1>2
<1>4. Len(fills') <= MaxFills /\ Fetched \subseteq Fetched'
  BY <1>2, <1>3, LedgerAssumption DEF Fetched
<1>5. live' \in [Keys -> Nat]
  <2>1. live[k] \in Nat /\ (open \/ q <= live[k])
    BY DEF Trade, TypeInv, TypeOK
  <2>2. (IF open THEN live[k] + q ELSE live[k] - q) \in Nat
    BY <1>1, <2>1
  <2> QED BY <2>2 DEF Trade, TypeInv, TypeOK
<1>6. UNCHANGED <<orders, links, rows, applied, loop, sweep, faults>>
  BY DEF Trade, store
<1>7. LoopRefs'
  BY <1>4, <1>6 DEF TypeInv, LoopRefs
<1> QED BY <1>1, <1>3, <1>4, <1>5, <1>6, <1>7 DEF TypeInv, TypeOK, Fetched

\* The type invariant is preserved by the passing of time.
LEMMA TickType == ASSUME TypeInv, Tick PROVE TypeInv'
  BY DEF Tick, store, TypeInv, TypeOK, LoopRefs, Fetched

\* The type invariant holds initially.
LEMMA InitType == Init => TypeInv
<1> SUFFICES ASSUME Init PROVE TypeInv
  OBVIOUS
<1>1. loop \in [Loops -> Loop] /\ LoopRefs
  BY IdleLoopOK DEF Init, StateOK, LoopRefs, IdleLoop
<1>2. fills \in Seq(Fill) /\ Len(fills) <= MaxFills
  BY LedgerAssumption DEF Init
<1>3. DOMAIN rows = {} /\ rows \in [DOMAIN rows -> Row]
  BY DEF Init
<1> QED BY <1>1, <1>2, <1>3, IdleSweepOK DEF Init, TypeInv, TypeOK

\* Every step preserves the type invariant.
LEMMA TypeStep == TypeInv /\ [Next]_vars => TypeInv'
<1> SUFFICES ASSUME TypeInv, [Next]_vars PROVE TypeInv'
  OBVIOUS
<1>1. ASSUME NEW k \in Keys, NEW open \in BOOLEAN, NEW q \in 1..MaxQty, Trade(k, open, q)
      PROVE  TypeInv'
  BY <1>1, TradeType
<1>2. CASE Tick
  BY <1>2, TickType
<1>3. ASSUME NEW l \in Loops, LoopStep(l) PROVE TypeInv'
  BY <1>3, FetchType, CheckType, RecordType, InsertOrderType, HandleOpenType,
     HandleCloseType, CreateType, InsertPositionType, LoadType, StoreRowType, LogType
  DEF LoopStep
<1>4. ASSUME NEW l \in Loops, CheckFails(l) \/ StepFails(l) PROVE TypeInv'
  BY <1>4, CheckFailsType, StepFailsType
<1>5. CASE SweepStep
  BY <1>5, SweepFetchType, SweepListType, SweepCloseType DEF SweepStep
<1>6. CASE Crash
  BY <1>6, CrashType
<1>7. CASE UNCHANGED vars
  BY <1>7 DEF vars, TypeInv, TypeOK, LoopRefs, Fetched
<1> QED BY <1>1, <1>2, <1>3, <1>4, <1>5, <1>6, <1>7 DEF Next

\* Every state of the sync has the declared types, and what a goroutine holds
\* refers to fetched trades and existing rows, whatever fails.
THEOREM TypeCorrect == Spec => [](TypeOK /\ LoopRefs)
<1>1. TypeInv <=> TypeOK /\ LoopRefs
  BY DEF TypeInv
<1> QED BY <1>1, InitType, TypeStep, PTL DEF Spec

-----------------------------------------------------------------------------
(* No position is closed for more than was opened in it *)

\* With a single goroutine, the state of that one decides ClosesFit.
LEMMA OnlyLoop ==
  ASSUME SingleLoop, NEW l \in Loops,
         \A r \in DOMAIN rows : Fits(rows[r], 0),
         loop[l].pc \in {"load", "store"} => WriteFits(l),
         loop[l].pc = "log" => Fits(rows[loop[l].row], loop[l].event)
  PROVE  ClosesFit
<1>1. \A m \in Loops : m = l
  BY DEF SingleLoop
<1> QED BY <1>1 DEF ClosesFit

\* A goroutine that is not about to write leaves ClosesFit to the rows.
LEMMA RestFits ==
  ASSUME SingleLoop, TypeInv, ClosesFit, NEW l \in Loops, NEW st, Goto(l, st), UNCHANGED rows,
         st.pc \notin {"load", "store", "log"}
  PROVE  ClosesFit'
<1>1. loop'[l] = st
  BY DEF Goto, TypeInv, TypeOK
<1>2. \A m \in Loops : m = l
  BY DEF SingleLoop
<1> QED BY <1>1, <1>2 DEF ClosesFit, Fits

\* Choosing an open row, or a closed one for a late fill, promises a fitting write.
LEMMA ApplyFits ==
  ASSUME SingleLoop, TypeInv, ClosesFit, NEW l \in Loops, loop[l].pc \notin {"idle", "check"},
         NEW op, NEW r \in DOMAIN rows, Goto(l, Apply(l, op, r)), UNCHANGED <<rows, fills>>,
         \/ op = "late" /\ rows[r].status = "CLOSED"
         \/ op \in {"merge", "full"} /\ rows[r].status = "OPEN"
         \/ op = "reduce" /\ rows[r].status = "OPEN" /\ Cur(l).qty < rows[r].qty
  PROVE  ClosesFit'
<1>1. loop'[l] = Apply(l, op, r)
  BY DEF Goto, TypeInv, TypeOK
<1>2. loop[l] \in Loop /\ loop[l].cur \in Fetched
  BY StateOfLoop DEF StateOK
<1>3. /\ loop'[l].pc = "load" /\ loop'[l].op = op /\ loop'[l].row = r
      /\ loop'[l].cur = loop[l].cur
  BY <1>1, <1>2 DEF Apply, Loop
<1>4. rows[r] \in Row /\ Cur(l).qty \in Nat
  BY <1>2, FetchedOK DEF Cur, Fill, TypeInv, TypeOK
<1>5. Fits(rows[r], 0)
  BY DEF ClosesFit
<1>6. rows[r].status = "OPEN" => rows[r].qty + rows[r].logged <= rows[r].entry
  BY <1>4, <1>5 DEF Fits, Row
<1>7. Cur(l)' = Cur(l)
  BY <1>3 DEF Cur
<1>8. op = "reduce" => Cur(l).qty + rows[r].logged <= rows[r].entry
  BY <1>4, <1>6 DEF Row
<1>9. WriteFits(l)'
  BY <1>3, <1>6, <1>7, <1>8 DEF WriteFits
<1>10. \A m \in Loops : m = l
  BY DEF SingleLoop
<1> QED BY <1>3, <1>9, <1>10 DEF ClosesFit, Fits

\* ClosesFit is preserved by a fetch.
LEMMA FetchFits == ASSUME SingleLoop, TypeInv, ClosesFit, NEW l \in Loops, Fetch(l) PROVE ClosesFit'
<1>1. PICK S : Goto(l, [loop[l] EXCEPT !.pc = "check", !.todo = S])
  BY DEF Fetch, NewIds
<1>2. [loop[l] EXCEPT !.pc = "check", !.todo = S].pc = "check"
  BY DEF TypeInv, TypeOK, Loop
<1> QED BY <1>1, <1>2, RestFits DEF Fetch, store

\* ClosesFit is preserved by the existence check.
LEMMA CheckFits ==
  ASSUME SingleLoop, TypeInv, ClosesFit, NEW l \in Loops, CheckExisting(l) \/ CheckFails(l)
  PROVE  ClosesFit'
<1>1. loop[l] \in Loop /\ UNCHANGED rows
  BY DEF CheckExisting, CheckFails, store, TypeInv, TypeOK
<1>2. CASE Goto(l, IdleLoop)
  BY <1>1, <1>2, RestFits DEF IdleLoop
<1>3. ASSUME NEW f, NEW q \in {"record", "lookup"},
             Goto(l, [loop[l] EXCEPT !.pc = q, !.cur = f])
      PROVE  ClosesFit'
  <2>1. [loop[l] EXCEPT !.pc = q, !.cur = f].pc = q
    BY <1>1 DEF Loop
  <2> QED BY <1>1, <1>3, <2>1, RestFits
<1>4. ASSUME NEW f, Goto(l, SkipTrade(l, f))
      PROVE  ClosesFit'
  <2>1. SkipTrade(l, f).pc \in {"idle", "check"}
    BY <1>1 DEF SkipTrade, Loop
  <2> QED BY <1>1, <1>4, <2>1, RestFits
<1>5. CASE CheckFails(l)
  BY <1>3, <1>5 DEF CheckFails
<1>6. CASE CheckExisting(l) /\ loop[l].todo = {}
  BY <1>2, <1>6 DEF CheckExisting
<1>7. CASE CheckExisting(l) /\ loop[l].todo # {}
  <2>1. PICK f \in Oldest(loop[l].todo) :
          Goto(l, IF f \in orders THEN ExistingTrade(l, f)
                                  ELSE [loop[l] EXCEPT !.pc = "record", !.cur = f])
    BY <1>7 DEF CheckExisting
  <2> QED BY <1>3, <1>4, <2>1 DEF ExistingTrade
<1> QED BY <1>5, <1>6, <1>7

\* ClosesFit is preserved by the check of CreateOrder.
LEMMA RecordFits ==
  ASSUME SingleLoop, TypeInv, ClosesFit, NEW l \in Loops,
         RecordOrder(l) \/ InsertOrder(l) \/ StepFails(l)
  PROVE  ClosesFit'
<1>1. loop[l] \in Loop /\ UNCHANGED rows
  BY DEF RecordOrder, InsertOrder, StepFails, store, TypeInv, TypeOK
<1>2. NextTrade(l).pc \notin {"load", "store", "log"}
  BY NextTradeOK
<1>3. \A q \in {"insertOrder", "lookup"} : [loop[l] EXCEPT !.pc = q].pc = q
  BY <1>1 DEF Loop
<1>4. PICK st \in {NextTrade(l)} \cup {[loop[l] EXCEPT !.pc = q] : q \in {"insertOrder", "lookup"}} :
        Goto(l, st)
  BY DEF RecordOrder, InsertOrder, StepFails
<1> QED BY <1>1, <1>2, <1>3, <1>4, RestFits

\* ClosesFit is preserved by handleOpen.
LEMMA HandleOpenFits ==
  ASSUME SingleLoop, TypeInv, ClosesFit, NEW l \in Loops, HandleOpen(l) PROVE ClosesFit'
<1>1. UNCHANGED <<rows, fills>> /\ loop[l].pc = "lookup"
  BY DEF HandleOpen, exchange, store
<1>2. CASE Goto(l, [loop[l] EXCEPT !.pc = "create"])
  <2>1. [loop[l] EXCEPT !.pc = "create"].pc = "create"
    BY DEF TypeInv, TypeOK, Loop
  <2> QED BY <1>1, <1>2, <2>1, RestFits
<1>3. ASSUME NEW r \in GetOpenPositionBySymbol(rows, Cur(l).key), Goto(l, Apply(l, "merge", r))
      PROVE  ClosesFit'
  <2>1. r \in DOMAIN rows /\ rows[r].status = "OPEN"
    BY DEF GetOpenPositionBySymbol, NewestOf, OpenRows
  <2> QED BY <1>1, <1>3, <2>1, ApplyFits
<1> QED BY <1>2, <1>3 DEF HandleOpen

\* ClosesFit is preserved by handleClose.
LEMMA HandleCloseFits ==
  ASSUME SingleLoop, TypeInv, ClosesFit, NEW l \in Loops, HandleClose(l) PROVE ClosesFit'
<1>1. UNCHANGED <<rows, fills>> /\ loop[l].pc = "lookup"
  BY DEF HandleClose, exchange, store
<1>2. CASE Goto(l, NextTrade(l))
  BY <1>1, <1>2, NextTradeOK, RestFits
<1>3. ASSUME NEW r \in GetOpenPositionBySymbol(rows, Cur(l).key),
             Goto(l, Apply(l, IF Cur(l).qty < rows[r].qty THEN "reduce" ELSE "full", r))
      PROVE  ClosesFit'
  <2>1. r \in DOMAIN rows /\ rows[r].status = "OPEN"
    BY DEF GetOpenPositionBySymbol, NewestOf, OpenRows
  <2>2. CASE Cur(l).qty < rows[r].qty
    BY <1>1, <1>3, <2>1, <2>2, ApplyFits
  <2>3. CASE ~(Cur(l).qty < rows[r].qty)
    BY <1>1, <1>3, <2>1, <2>3, ApplyFits
  <2> QED BY <2>2, <2>3
<1>4. ASSUME NEW r \in LateCloseTarget(rows, Cur(l).key, Cur(l).time),
             Goto(l, Apply(l, "late", r))
      PROVE  ClosesFit'
  <2>1. r \in DOMAIN rows /\ rows[r].status = "CLOSED"
    BY DEF LateCloseTarget, GetRecentlyClosedSyncAbsentPosition,
           GetRecentlyClosedUnderClosedPosition, LastExit, ClosedNear
  <2> QED BY <1>1, <1>4, <2>1, ApplyFits
<1> QED BY <1>2, <1>3, <1>4 DEF HandleClose

\* ClosesFit is preserved by CreateOpenPosition.
LEMMA CreateFits ==
  ASSUME SingleLoop, TypeInv, ClosesFit, NEW l \in Loops, CreateOpenPosition(l) PROVE ClosesFit'
<1>1. UNCHANGED <<rows, fills>> /\ loop[l].pc = "create"
  BY DEF CreateOpenPosition, exchange, store
<1>2. CASE Goto(l, NextTrade(l))
  BY <1>1, <1>2, NextTradeOK, RestFits
<1>3. CASE Goto(l, [loop[l] EXCEPT !.pc = "insertRow"])
  <2>1. [loop[l] EXCEPT !.pc = "insertRow"].pc = "insertRow"
    BY DEF TypeInv, TypeOK, Loop
  <2> QED BY <1>1, <1>3, <2>1, RestFits
<1>4. ASSUME NEW r \in DOMAIN rows, rows[r].status = "OPEN", Goto(l, Apply(l, "merge", r))
      PROVE  ClosesFit'
  BY <1>1, <1>4, ApplyFits
<1> QED BY <1>2, <1>3, <1>4
        DEF CreateOpenPosition, GetOpenPositionBySymbol, NewestOf, OpenRows

\* ClosesFit is preserved by the INSERT of a row.
LEMMA InsertPositionFits ==
  ASSUME SingleLoop, TypeInv, ClosesFit, NEW l \in Loops, InsertPosition(l) PROVE ClosesFit'
<1> DEFINE f == loop[l].cur
<1>1. UNCHANGED fills /\ loop[l].pc = "insertRow"
  BY DEF InsertPosition, exchange
<1>2. CASE f \in DOMAIN rows
  <2>1. UNCHANGED rows
    BY <1>2 DEF InsertPosition
  <2>2. CASE Goto(l, NextTrade(l))
    BY <1>1, <2>1, <2>2, NextTradeOK, RestFits
  <2>3. CASE rows[f].status = "OPEN" /\ Goto(l, Apply(l, "merge", f))
    BY <1>1, <1>2, <2>1, <2>3, ApplyFits
  <2> QED BY <1>2, <2>2, <2>3 DEF InsertPosition
<1>3. CASE f \notin DOMAIN rows
  <2>1. rows' = [r \in DOMAIN rows \cup {f} |->
                   IF r = f THEN NewRow(Cur(l).key, Cur(l).qty) ELSE rows[r]]
    BY <1>3 DEF InsertPosition
  <2>2. Cur(l).qty \in Nat
    BY <1>1, StateOfLoop, FetchedOK DEF StateOK, Cur, Fill
  <2>3. Fits(NewRow(Cur(l).key, Cur(l).qty), 0)
    BY <2>2 DEF Fits, NewRow
  <2>4. \A r \in DOMAIN rows' : Fits(rows'[r], 0)
    BY <2>1, <2>3 DEF ClosesFit
  <2>5. loop'[l] = NextTrade(l)
    BY <1>3 DEF InsertPosition, Goto, TypeInv, TypeOK
  <2>6. loop'[l].pc \in {"idle", "check"}
    BY <2>5, NextTradeOK
  <2>7. \A m \in Loops : m = l
    BY DEF SingleLoop
  <2> QED BY <2>4, <2>6, <2>7 DEF ClosesFit
<1> QED BY <1>2, <1>3

\* ClosesFit is preserved by the read of a store method.
LEMMA LoadFits ==
  ASSUME SingleLoop, TypeInv, ClosesFit, NEW l \in Loops, LoadRow(l) PROVE ClosesFit'
<1> DEFINE me == loop[l]
<1> DEFINE seen == Read(rows[me.row])
<1>1. me \in Loop /\ me.pc = "load" /\ UNCHANGED <<rows, fills>>
  BY DEF LoadRow, exchange, store, TypeInv, TypeOK
<1>2. CASE Goto(l, NextTrade(l))
  BY <1>1, <1>2, NextTradeOK, RestFits
<1>3. CASE Goto(l, [me EXCEPT !.pc = "store", !.seen = seen])
  <2>1. loop'[l] = [me EXCEPT !.pc = "store", !.seen = seen]
    BY <1>3 DEF Goto, TypeInv, TypeOK
  <2>2. /\ loop'[l].pc = "store" /\ loop'[l].seen = seen /\ loop'[l].op = me.op
        /\ loop'[l].row = me.row /\ loop'[l].cur = me.cur
    BY <1>1, <2>1 DEF Loop
  <2>3. /\ seen.qty = rows[me.row].qty /\ seen.entry = rows[me.row].entry
        /\ seen.logged = rows[me.row].logged
    BY DEF Read
  <2>4. WriteFits(l)
    BY <1>1 DEF ClosesFit
  <2>5. Cur(l)' = Cur(l)
    BY <1>1, <2>2 DEF Cur
  <2> HIDE DEF seen
  <2>6. WriteFits(l)'
    BY <1>1, <2>2, <2>3, <2>4, <2>5 DEF WriteFits
  <2>7. \A m \in Loops : m = l
    BY DEF SingleLoop
  <2> QED BY <1>1, <2>2, <2>6, <2>7 DEF ClosesFit, Fits
<1> QED BY <1>2, <1>3 DEF LoadRow

\* The written row still fits with the event that is logged next.
LEMMA UpdatedFits ==
  ASSUME TypeInv, ClosesFit, NEW l \in Loops, loop[l].pc = "store"
  PROVE  Fits(Updated(l), EventQty(l))
<1> DEFINE me == loop[l]
<1> DEFINE row == rows[me.row]
<1>1. /\ row \in Row /\ me.seen \in Columns /\ me.found \in [FillId -> Nat]
      /\ Cur(l).qty \in Nat /\ clock \in Nat
      /\ me.op \in {"merge", "reduce", "full", "late"}
  BY StoreFacts DEF Fill
<1>2. WriteFits(l) /\ Fits(row, 0)
  BY StoreFacts DEF ClosesFit
<1>3. /\ row.qty \in Nat /\ row.entry \in Nat /\ row.logged \in Nat
      /\ me.seen.qty \in Nat /\ me.seen.entry \in Nat /\ me.seen.logged \in Nat
      /\ me.seen.entry = row.entry /\ me.seen.logged = row.logged
      /\ row.logged <= row.entry
  BY <1>1, <1>2 DEF Row, Columns, WriteFits, Fits
<1>4. CASE me.op = "merge"
  <2>1. Updated(l) = [row EXCEPT !.qty = me.seen.qty + Cur(l).qty,
                                 !.entry = me.seen.entry + Cur(l).qty] /\ EventQty(l) = 0
    BY <1>4 DEF Updated, EventQty, UpdatePositionQuantityAndPrice
  <2>2. /\ Updated(l).qty = me.seen.qty + Cur(l).qty /\ Updated(l).logged = row.logged
        /\ Updated(l).entry = me.seen.entry + Cur(l).qty
    BY <1>1, <2>1 DEF Row
  <2>3. me.seen.qty + me.seen.logged <= me.seen.entry
    BY <1>2, <1>4 DEF WriteFits
  <2> QED BY <1>1, <1>3, <2>1, <2>2, <2>3 DEF Fits
<1>5. CASE me.op = "reduce"
  <2>1. EventQty(l) = Cur(l).qty
    BY <1>5 DEF EventQty
  <2>2. /\ Cur(l).qty + row.logged <= row.entry
        /\ me.seen.qty + me.seen.logged <= me.seen.entry
    BY <1>2, <1>5 DEF WriteFits
  <2>3. /\ Updated(l).logged = row.logged /\ Updated(l).entry = row.entry
        /\ \/ Updated(l).status = "CLOSED"
           \/ ~(me.seen.qty <= Cur(l).qty) /\ Updated(l).qty = me.seen.qty - Cur(l).qty
    BY <1>1, <1>5 DEF Updated, ReducePositionQuantity, Row
  <2> QED BY <1>1, <1>3, <2>1, <2>2, <2>3 DEF Fits
<1>6. CASE me.op = "full"
  <2>1. EventQty(l) = me.seen.qty /\ me.seen.qty + me.seen.logged <= me.seen.entry
    BY <1>2, <1>6 DEF EventQty, WriteFits
  <2>2. /\ Updated(l).logged = row.logged /\ Updated(l).entry = row.entry
        /\ Updated(l).status = "CLOSED"
    BY <1>1, <1>6 DEF Updated, ClosePositionFully, Row
  <2> QED BY <1>1, <1>3, <2>1, <2>2 DEF Fits
<1>7. CASE me.op = "late"
  <2>1. EventQty(l) = LateCloseQty(me.seen, Cur(l).qty) /\ row.status = "CLOSED"
    BY <1>2, <1>7 DEF EventQty, WriteFits
  <2>2. EventQty(l) \in Nat /\ row.logged + EventQty(l) <= row.entry
    BY <1>1, <1>3, <2>1, EventQtyType DEF LateCloseQty
  <2>3. /\ Updated(l).logged = row.logged /\ Updated(l).entry = row.entry
        /\ Updated(l).status = "CLOSED"
    BY <1>1, <1>7, <2>1 DEF Updated, ApplyLateCloseFill, Row
  <2> QED BY <2>2, <2>3 DEF Fits
<1> QED BY <1>1, <1>4, <1>5, <1>6, <1>7

\* ClosesFit is preserved by the UPDATE of a store method.
LEMMA StoreFits ==
  ASSUME SingleLoop, TypeInv, ClosesFit, NEW l \in Loops, StoreRow(l) PROVE ClosesFit'
<1> DEFINE me == loop[l]
<1>1. /\ me.pc = "store" /\ me \in Loop /\ rows \in [DOMAIN rows -> Row]
      /\ rows' = [rows EXCEPT ![me.row] = Updated(l)]
  BY DEF StoreRow, TypeInv, TypeOK
<1>2. me.row \in DOMAIN rows /\ EventQty(l) \in Nat
  BY <1>1, StoreFacts, EventQtyType
<1>3. Fits(Updated(l), EventQty(l)) /\ rows'[me.row] = Updated(l) /\ Updated(l) \in Row
  BY <1>1, <1>2, UpdatedFits, StoreRowType DEF TypeInv, TypeOK
<1>4. Fits(Updated(l), 0)
  BY <1>2, <1>3 DEF Fits, Row
<1>5. \A r \in DOMAIN rows' : Fits(rows'[r], 0)
  BY <1>1, <1>3, <1>4 DEF ClosesFit
<1>6. \A m \in Loops : m = l
  BY DEF SingleLoop
<1>7. CASE EventQty(l) = 0
  <2>1. loop'[l] = NextTrade(l)
    BY <1>7 DEF StoreRow, Goto, TypeInv, TypeOK
  <2>2. loop'[l].pc \in {"idle", "check"}
    BY <2>1, NextTradeOK
  <2> QED BY <1>5, <1>6, <2>2 DEF ClosesFit
<1>8. CASE EventQty(l) # 0
  <2>1. loop'[l] = [me EXCEPT !.pc = "log", !.event = EventQty(l)]
    BY <1>8 DEF StoreRow, Goto, TypeInv, TypeOK
  <2>2. loop'[l].pc = "log" /\ loop'[l].row = me.row /\ loop'[l].event = EventQty(l)
    BY <1>1, <2>1 DEF Loop
  <2> QED BY <1>3, <1>5, <1>6, <2>2 DEF ClosesFit
<1> QED BY <1>7, <1>8

\* ClosesFit is preserved by the logging of a close event.
LEMMA LogFits ==
  ASSUME SingleLoop, TypeInv, ClosesFit, NEW l \in Loops, LogEvent(l) PROVE ClosesFit'
<1> DEFINE me == loop[l]
<1> DEFINE row == rows[me.row]
<1>1. /\ me.pc = "log" /\ rows' = [rows EXCEPT ![me.row] = LogCloseEvent(row, me.event)]
      /\ me.row \in DOMAIN rows /\ row \in Row /\ me.event \in Nat
      /\ loop'[l] = NextTrade(l)
  BY StateOfLoop DEF LogEvent, StateOK, Loop, Goto, TypeInv, TypeOK
<1>2. Fits(row, me.event)
  BY <1>1 DEF ClosesFit
<1>3. Fits(LogCloseEvent(row, me.event), 0)
  <2> DEFINE new == LogCloseEvent(row, me.event)
  <2>1. /\ new.logged = row.logged + me.event /\ new.entry = row.entry /\ new.qty = row.qty
        /\ new.status = row.status
    BY <1>1 DEF LogCloseEvent, Row
  <2>2. row.logged \in Nat /\ row.entry \in Nat /\ row.qty \in Nat
    BY <1>1 DEF Row
  <2> HIDE DEF new
  <2>3. Fits(new, 0)
    BY <1>1, <1>2, <2>1, <2>2 DEF Fits
  <2> QED BY <2>3 DEF new
<1>4. \A r \in DOMAIN rows' : Fits(rows'[r], 0)
  BY <1>1, <1>3 DEF ClosesFit
<1>5. loop'[l].pc \in {"idle", "check"}
  BY <1>1, NextTradeOK
<1>6. \A m \in Loops : m = l
  BY DEF SingleLoop
<1> QED BY <1>4, <1>5, <1>6 DEF ClosesFit

\* The sweep only ever closes rows: it neither grows one nor adds events.
LEMMA SweepCloseFits == ASSUME TypeInv, ClosesFit, SweepClose PROVE ClosesFit'
<1>1. PICK r \in DOMAIN sweep.seen, generic \in BOOLEAN, fs \in SUBSET FillId :
        rows' = [rows EXCEPT ![r] =
                   MarkAbsentClosed(rows[r], sweep.seen[r], fs, generic, clock)]
  BY SweepCloseFacts
<1>2. UNCHANGED <<fills, loop>> /\ DOMAIN rows' = DOMAIN rows
  BY SweepCloseFacts, SweepCloseType
<1>3. ASSUME NEW s \in DOMAIN rows
      PROVE  /\ rows[s] \in Row /\ rows'[s] \in Row
             /\ rows'[s].entry = rows[s].entry /\ rows'[s].logged = rows[s].logged
             /\ rows'[s] = rows[s] \/ (rows'[s].status = "CLOSED" /\ rows'[s].qty = 0)
  <2>1. rows[s] \in Row /\ rows'[s] \in Row
    BY <1>2, SweepCloseType DEF TypeInv, TypeOK
  <2>2. rows'[s] = IF s = r THEN MarkAbsentClosed(rows[r], sweep.seen[r], fs, generic, clock)
                            ELSE rows[s]
    BY <1>1
  <2> QED BY <2>1, <2>2 DEF MarkAbsentClosed, Row
<1>4. ASSUME NEW s \in DOMAIN rows, NEW e \in Nat, Fits(rows[s], e)
      PROVE  Fits(rows'[s], e)
  BY <1>3, <1>4 DEF Fits, Row
<1>5. ASSUME NEW l \in Loops, loop[l].pc \in {"load", "store"}, WriteFits(l)
      PROVE  WriteFits(l)'
  <2>1. loop[l].row \in DOMAIN rows /\ Cur(l)' = Cur(l) /\ loop'[l] = loop[l]
    BY <1>2, <1>5, StateOfLoop DEF StateOK, Cur
  <2>2. rows[loop[l].row].logged <= rows[loop[l].row].entry
    BY <1>3, <2>1 DEF ClosesFit, Fits, Row
  <2> QED BY <1>3, <1>5, <2>1, <2>2 DEF WriteFits, Row
<1>6. ASSUME NEW l \in Loops
      PROVE  loop[l].event \in Nat /\ (loop[l].pc = "log" => loop[l].row \in DOMAIN rows)
  BY StateOfLoop DEF StateOK, Loop
<1> QED BY <1>2, <1>4, <1>5, <1>6 DEF ClosesFit

\* ClosesFit is preserved by a crash.
LEMMA CrashFits == ASSUME ClosesFit, Crash PROVE ClosesFit'
<1>1. UNCHANGED rows /\ \A l \in Loops : loop'[l] = IdleLoop
  BY DEF Crash, store
<1> QED BY <1>1 DEF ClosesFit, Fits, IdleLoop

\* What leaves the tables, the goroutines and the fetched trades alone.
LEMMA StillFits ==
  ASSUME TypeInv, ClosesFit, UNCHANGED <<rows, loop>>, \A f \in Fetched : fills'[f] = fills[f]
  PROVE  ClosesFit'
<1>1. ASSUME NEW l \in Loops, loop[l].pc \in {"load", "store"}
      PROVE  Cur(l)' = Cur(l)
  BY <1>1, StateOfLoop DEF StateOK, Cur
<1>2. ASSUME NEW l \in Loops, loop[l].pc \in {"load", "store"}, WriteFits(l)
      PROVE  WriteFits(l)'
  BY <1>1, <1>2 DEF WriteFits
<1> QED BY <1>2 DEF ClosesFit, Fits

\* ClosesFit holds initially.
LEMMA InitFits == Init => ClosesFit
  BY DEF Init, IdleLoop, ClosesFit

\* Every step of a single loop preserves ClosesFit.
LEMMA FitsStep == SingleLoop /\ TypeInv /\ ClosesFit /\ [Next]_vars => ClosesFit'
<1> SUFFICES ASSUME SingleLoop, TypeInv, ClosesFit, [Next]_vars PROVE ClosesFit'
  OBVIOUS
<1>1. ASSUME NEW k \in Keys, NEW open \in BOOLEAN, NEW q \in 1..MaxQty, Trade(k, open, q)
      PROVE  ClosesFit'
  BY <1>1, TradeType, StillFits DEF Trade, store
<1>2. CASE Tick
  BY <1>2, StillFits DEF Tick, store
<1>3. ASSUME NEW l \in Loops, LoopStep(l) PROVE ClosesFit'
  BY <1>3, FetchFits, CheckFits, RecordFits, HandleOpenFits, HandleCloseFits, CreateFits,
     InsertPositionFits, LoadFits, StoreFits, LogFits DEF LoopStep
<1>4. ASSUME NEW l \in Loops, CheckFails(l) \/ StepFails(l) PROVE ClosesFit'
  BY <1>4, CheckFits, RecordFits
<1>5. CASE SweepFetch \/ SweepList
  BY <1>5, StillFits DEF SweepFetch, SweepList, exchange, store
<1>6. CASE SweepClose
  BY <1>6, SweepCloseFits
<1>7. CASE Crash
  BY <1>7, CrashFits
<1>8. CASE UNCHANGED vars
  BY <1>8, StillFits DEF vars
<1> QED BY <1>1, <1>2, <1>3, <1>4, <1>5, <1>6, <1>7, <1>8 DEF Next, SweepStep

\* With one sync goroutine per trader, a position's close events never account
\* for more than was opened in it: whatever trades the account makes, whichever
\* adapter, however the sweep interleaves, and whatever fails or restarts
\* (logCloseEvent's callers, ApplyLateCloseFillToClosedPosition's clamp).
THEOREM OverclosingExcluded == SingleLoop => (Spec => []NeverOverclosed)
<1> SUFFICES ASSUME SingleLoop PROVE Spec => []NeverOverclosed
  OBVIOUS
<1>1. Init => TypeInv /\ ClosesFit
  BY InitType, InitFits
<1>2. TypeInv /\ ClosesFit /\ [Next]_vars => (TypeInv /\ ClosesFit)'
  BY TypeStep, FitsStep
<1>3. TypeInv /\ ClosesFit => NeverOverclosed
  <2> SUFFICES ASSUME TypeInv, ClosesFit, NEW r \in DOMAIN rows
               PROVE  rows[r].logged <= rows[r].entry
    BY DEF NeverOverclosed
  <2>1. rows[r].logged \in Nat /\ Fits(rows[r], 0)
    BY DEF TypeInv, TypeOK, Row, ClosesFit
  <2> QED BY <2>1 DEF Fits
<1> QED BY <1>1, <1>2, <1>3, PTL DEF Spec

-----------------------------------------------------------------------------
(* One open row: with one sync goroutine per trader, there is at most one   *)
(* OPEN row per (trader, symbol, side), although looking one up, finding    *)
(* none and inserting one are separate statements with the sweep between.   *)

\* The goroutine that is about to insert a row has seen that its key has none.
InsertSafe == \A l \in Loops : loop[l].pc = "insertRow" => OpenRows(rows, Cur(l).key) = {}

OpenInv == OneOpenRowPerKey /\ InsertSafe

\* No row is opened, and none changes its key.
NoneOpened ==
  /\ DOMAIN rows' = DOMAIN rows
  /\ \A r \in DOMAIN rows : /\ rows'[r].key = rows[r].key
                            /\ rows'[r].status = "OPEN" => rows[r].status = "OPEN"

\* A step that opens no row leaves no key with more open rows.
LEMMA NoneOpenedShrinks ==
  ASSUME NoneOpened, NEW k
  PROVE  OpenRows(rows, k)' \subseteq OpenRows(rows, k)
  BY DEF NoneOpened, OpenRows

\* Such a step keeps at most one open row per key.
LEMMA OneOpenKept ==
  ASSUME NoneOpened, OneOpenRowPerKey
  PROVE  OneOpenRowPerKey'
  BY NoneOpenedShrinks DEF OneOpenRowPerKey

\* A step that leaves the rows alone opens none.
LEMMA SameRows == ASSUME UNCHANGED rows PROVE NoneOpened
  BY DEF NoneOpened

\* What the goroutine does outside an insertion keeps OpenInv.
LEMMA ElsewhereOpen ==
  ASSUME SingleLoop, TypeInv, OpenInv, NEW l \in Loops, NoneOpened, loop'[l].pc # "insertRow"
  PROVE  OpenInv'
<1>1. \A m \in Loops : m = l
  BY DEF SingleLoop
<1>2. OneOpenRowPerKey'
  BY OneOpenKept DEF OpenInv
<1> QED BY <1>1, <1>2 DEF OpenInv, InsertSafe

\* Looking for the newest of the open rows of a key finds one if there is one.
LEMMA NewestFound ==
  ASSUME TypeInv, OneOpenRowPerKey, NEW k \in Keys, GetOpenPositionBySymbol(rows, k) = {}
  PROVE  OpenRows(rows, k) = {}
<1> SUFFICES ASSUME NEW r \in OpenRows(rows, k) PROVE FALSE
  OBVIOUS
<1>1. \A s \in OpenRows(rows, k) : s = r
  BY DEF OneOpenRowPerKey
<1>2. r \in Nat
  BY LedgerAssumption DEF OpenRows, TypeInv, TypeOK, FillId
<1>3. r \in NewestOf(OpenRows(rows, k))
  BY <1>1, <1>2 DEF NewestOf
<1> QED BY <1>3 DEF GetOpenPositionBySymbol

\* The steps that leave the table alone, but for the one that decides to insert.
LEMMA MoveOpen ==
  ASSUME SingleLoop, TypeInv, OpenInv, NEW l \in Loops,
         \/ Fetch(l) \/ CheckExisting(l) \/ CheckFails(l) \/ RecordOrder(l) \/ InsertOrder(l)
         \/ HandleOpen(l) \/ HandleClose(l) \/ LoadRow(l) \/ StepFails(l)
  PROVE  OpenInv'
<1>1. loop[l] \in Loop /\ UNCHANGED rows
  BY DEF Fetch, CheckExisting, CheckFails, RecordOrder, InsertOrder, HandleOpen, HandleClose,
         LoadRow, StepFails, store, TypeInv, TypeOK
<1>2. ASSUME NEW st, Goto(l, st), st.pc # "insertRow"
      PROVE  OpenInv'
  <2>1. loop'[l] = st
    BY <1>2 DEF Goto, TypeInv, TypeOK
  <2> QED BY <1>1, <1>2, <2>1, SameRows, ElsewhereOpen
<1>3. CASE Goto(l, IdleLoop) \/ Goto(l, NextTrade(l))
  BY <1>2, <1>3, NextTradeOK DEF IdleLoop
<1>4. ASSUME NEW f, Goto(l, SkipTrade(l, f)) PROVE OpenInv'
  <2>1. SkipTrade(l, f).pc # "insertRow"
    BY <1>1 DEF SkipTrade, Loop
  <2> QED BY <1>2, <1>4, <2>1
<1>5. ASSUME NEW q \in Pc \ {"insertRow"}, Goto(l, [loop[l] EXCEPT !.pc = q]) PROVE OpenInv'
  <2>1. [loop[l] EXCEPT !.pc = q].pc = q
    BY <1>1 DEF Loop
  <2> QED BY <1>2, <1>5, <2>1
<1>6. ASSUME NEW q \in Pc \ {"insertRow"}, NEW f, Goto(l, [loop[l] EXCEPT !.pc = q, !.cur = f])
      PROVE  OpenInv'
  <2>1. [loop[l] EXCEPT !.pc = q, !.cur = f].pc = q
    BY <1>1 DEF Loop
  <2> QED BY <1>2, <1>6, <2>1
<1>7. ASSUME NEW op, NEW r, Goto(l, Apply(l, op, r)) PROVE OpenInv'
  <2>1. Apply(l, op, r).pc = "load"
    BY <1>1 DEF Apply, Loop
  <2> QED BY <1>2, <1>7, <2>1
<1>8. CASE Fetch(l)
  <2>1. PICK S : Goto(l, [loop[l] EXCEPT !.pc = "check", !.todo = S])
    BY <1>8 DEF Fetch
  <2>2. [loop[l] EXCEPT !.pc = "check", !.todo = S].pc = "check"
    BY <1>1 DEF Loop
  <2> QED BY <1>2, <2>1, <2>2
<1>9. CASE CheckExisting(l)
  <2>1. CASE loop[l].todo = {}
    BY <1>3, <1>9, <2>1 DEF CheckExisting
  <2>2. CASE loop[l].todo # {}
    <3>1. PICK f \in Oldest(loop[l].todo) :
            Goto(l, IF f \in orders THEN ExistingTrade(l, f)
                                    ELSE [loop[l] EXCEPT !.pc = "record", !.cur = f])
      BY <1>9, <2>2 DEF CheckExisting
    <3> QED BY <1>4, <1>6, <3>1 DEF ExistingTrade, Pc
  <2> QED BY <2>1, <2>2
<1>10. CASE CheckFails(l)
  BY <1>6, <1>10 DEF CheckFails, Pc
<1>11. CASE RecordOrder(l)
  BY <1>5, <1>11 DEF RecordOrder, Pc
<1>12. CASE InsertOrder(l)
  BY <1>3, <1>5, <1>12 DEF InsertOrder, Pc
<1>13. CASE HandleOpen(l)
  BY <1>5, <1>7, <1>13 DEF HandleOpen, Pc
<1>14. CASE HandleClose(l)
  BY <1>3, <1>7, <1>14 DEF HandleClose
<1>15. CASE LoadRow(l)
  <2>1. PICK x : Goto(l, NextTrade(l)) \/ Goto(l, [loop[l] EXCEPT !.pc = "store", !.seen = x])
    BY <1>15 DEF LoadRow
  <2>2. [loop[l] EXCEPT !.pc = "store", !.seen = x].pc = "store"
    BY <1>1 DEF Loop
  <2> QED BY <1>2, <1>3, <2>1, <2>2
<1>16. CASE StepFails(l)
  BY <1>3, <1>16 DEF StepFails
<1> QED BY <1>8, <1>9, <1>10, <1>11, <1>12, <1>13, <1>14, <1>15, <1>16

\* The invariant of the open rows is preserved by CreateOpenPosition.
LEMMA CreateOpen ==
  ASSUME SingleLoop, TypeInv, OpenInv, NEW l \in Loops, CreateOpenPosition(l)
  PROVE  OpenInv'
<1>1. /\ loop[l] \in Loop /\ UNCHANGED <<rows, fills>> /\ loop[l].pc = "create"
      /\ \A st : Goto(l, st) => loop'[l] = st
  BY DEF CreateOpenPosition, Goto, exchange, store, TypeInv, TypeOK
<1>2. Cur(l).key \in Keys
  BY <1>1, StateOfLoop, FetchedOK DEF StateOK, Cur, Fill
<1>3. CASE loop'[l].pc # "insertRow"
  BY <1>1, <1>3, SameRows, ElsewhereOpen
<1>4. CASE loop'[l].pc = "insertRow"
  <2>1. NextTrade(l).pc # "insertRow" /\ \A op, r : Apply(l, op, r).pc # "insertRow"
    BY <1>1, NextTradeOK DEF Apply, Loop
  <2>2. GetOpenPositionBySymbol(rows, Cur(l).key) = {}
        /\ Goto(l, [loop[l] EXCEPT !.pc = "insertRow"])
    BY <1>1, <1>4, <2>1 DEF CreateOpenPosition
  <2>3. OpenRows(rows, Cur(l).key) = {}
    BY <1>2, <2>2, NewestFound DEF OpenInv
  <2>4. Cur(l)' = Cur(l)
    <3>1. loop'[l].cur = loop[l].cur
      BY <1>1, <2>2 DEF Loop
    <3> QED BY <1>1, <3>1 DEF Cur
  <2>5. OneOpenRowPerKey'
    BY <1>1, SameRows, OneOpenKept DEF OpenInv
  <2>6. \A m \in Loops : m = l
    BY DEF SingleLoop
  <2> QED BY <1>1, <2>3, <2>4, <2>5, <2>6 DEF OpenInv, InsertSafe, OpenRows
<1> QED BY <1>3, <1>4

\* The invariant of the open rows is preserved by the INSERT of a row.
LEMMA InsertPositionOpen ==
  ASSUME SingleLoop, TypeInv, OpenInv, NEW l \in Loops, InsertPosition(l)
  PROVE  OpenInv'
<1> DEFINE f == loop[l].cur
<1>1. /\ loop[l] \in Loop /\ loop[l].pc = "insertRow"
      /\ \A st : Goto(l, st) => loop'[l] = st
  BY DEF InsertPosition, Goto, TypeInv, TypeOK
<1>2. loop'[l].pc # "insertRow"
  <2>1. NextTrade(l).pc # "insertRow" /\ \A op, r : Apply(l, op, r).pc # "insertRow"
    BY <1>1, NextTradeOK DEF Apply, Loop
  <2> QED BY <1>1, <2>1 DEF InsertPosition
<1>3. CASE f \in DOMAIN rows
  <2>1. UNCHANGED rows
    BY <1>3 DEF InsertPosition
  <2> QED BY <1>2, <2>1, SameRows, ElsewhereOpen
<1>4. CASE f \notin DOMAIN rows
  <2>1. PICK k : k = Cur(l).key
    OBVIOUS
  <2>2. rows' = [r \in DOMAIN rows \cup {f} |->
                   IF r = f THEN NewRow(k, Cur(l).qty) ELSE rows[r]]
    BY <1>4, <2>1 DEF InsertPosition
  <2>3. OpenRows(rows, k) = {}
    BY <1>1, <2>1 DEF OpenInv, InsertSafe
  <2>4. NewRow(k, Cur(l).qty).key = k
    BY DEF NewRow
  <2>5. OpenRows(rows', k) \subseteq {f}
    BY <2>2, <2>3 DEF OpenRows
  <2>6. \A x \in Keys \ {k} : OpenRows(rows', x) \subseteq OpenRows(rows, x)
    BY <2>2, <2>4 DEF OpenRows
  <2>7. OneOpenRowPerKey'
    <3> SUFFICES ASSUME NEW x \in Keys, NEW r \in OpenRows(rows', x), NEW s \in OpenRows(rows', x)
                 PROVE  r = s
      BY DEF OneOpenRowPerKey
    <3> QED BY <2>5, <2>6 DEF OpenInv, OneOpenRowPerKey
  <2>8. \A m \in Loops : m = l
    BY DEF SingleLoop
  <2> QED BY <1>2, <2>7, <2>8 DEF OpenInv, InsertSafe
<1> QED BY <1>3, <1>4

\* The invariant of the open rows is preserved by the UPDATE of a store method.
LEMMA StoreOpen ==
  ASSUME SingleLoop, TypeInv, OpenInv, NEW l \in Loops, StoreRow(l)
  PROVE  OpenInv'
<1> DEFINE row == rows[loop[l].row]
<1>1. /\ loop[l].pc = "store" /\ loop[l] \in Loop /\ rows \in [DOMAIN rows -> Row]
      /\ rows' = [rows EXCEPT ![loop[l].row] = Updated(l)]
      /\ \A st : Goto(l, st) => loop'[l] = st
  BY DEF StoreRow, Goto, TypeInv, TypeOK
<1>2. row \in Row /\ loop[l].op \in {"merge", "reduce", "full", "late"}
  BY <1>1, StoreFacts
<1>3. Updated(l).key = row.key /\ (Updated(l).status = "OPEN" => row.status = "OPEN")
  <2>1. CASE loop[l].op = "merge"
    BY <1>2, <2>1 DEF Updated, UpdatePositionQuantityAndPrice, Row
  <2>2. CASE loop[l].op = "reduce"
    BY <1>2, <2>2 DEF Updated, ReducePositionQuantity, Row
  <2>3. CASE loop[l].op = "full"
    BY <1>2, <2>3 DEF Updated, ClosePositionFully, Row
  <2>4. CASE loop[l].op = "late"
    BY <1>2, <2>4 DEF Updated, ApplyLateCloseFill, Row
  <2> QED BY <1>2, <2>1, <2>2, <2>3, <2>4
<1>4. NoneOpened
  BY <1>1, <1>3 DEF NoneOpened
<1>5. loop'[l].pc # "insertRow"
  <2>1. NextTrade(l).pc # "insertRow"
        /\ [loop[l] EXCEPT !.pc = "log", !.event = EventQty(l)].pc = "log"
    BY <1>1, NextTradeOK DEF Loop
  <2> QED BY <1>1, <2>1 DEF StoreRow
<1> QED BY <1>4, <1>5, ElsewhereOpen

\* The invariant of the open rows is preserved by the logging of a close event.
LEMMA LogOpen ==
  ASSUME SingleLoop, TypeInv, OpenInv, NEW l \in Loops, LogEvent(l)
  PROVE  OpenInv'
<1> DEFINE row == rows[loop[l].row]
<1>1. /\ row \in Row /\ rows' = [rows EXCEPT ![loop[l].row] = LogCloseEvent(row, loop[l].event)]
      /\ loop'[l] = NextTrade(l)
  BY StateOfLoop DEF LogEvent, StateOK, Goto, TypeInv, TypeOK
<1>2. /\ LogCloseEvent(row, loop[l].event).key = row.key
      /\ LogCloseEvent(row, loop[l].event).status = row.status
  BY <1>1 DEF LogCloseEvent, Row
<1>3. NoneOpened
  BY <1>1, <1>2 DEF NoneOpened
<1> QED BY <1>1, <1>3, NextTradeOK, ElsewhereOpen

\* Steps of others: the goroutine is where it was, or back at the start.
LEMMA OthersOpen ==
  ASSUME TypeInv, OpenInv, NoneOpened,
         \/ UNCHANGED loop /\ \A f \in Fetched : fills'[f] = fills[f]
         \/ \A l \in Loops : loop'[l] = IdleLoop
  PROVE  OpenInv'
<1>1. OneOpenRowPerKey'
  BY OneOpenKept DEF OpenInv
<1>2. ASSUME NEW l \in Loops, loop'[l].pc = "insertRow"
      PROVE  OpenRows(rows, Cur(l).key)' = {}
  <2>1. UNCHANGED loop /\ \A f \in Fetched : fills'[f] = fills[f]
    BY <1>2 DEF IdleLoop
  <2>2. loop[l].pc = "insertRow"
    BY <1>2, <2>1
  <2>3. Cur(l)' = Cur(l)
    BY <2>1, <2>2, StateOfLoop DEF StateOK, Cur
  <2>4. OpenRows(rows, Cur(l).key) = {}
    BY <2>2 DEF OpenInv, InsertSafe
  <2> QED BY <2>3, <2>4 DEF NoneOpened, OpenRows
<1> QED BY <1>1, <1>2 DEF OpenInv, InsertSafe

\* The invariant of the open rows is preserved by closing an absent row.
LEMMA SweepCloseOpen == ASSUME TypeInv, OpenInv, SweepClose PROVE OpenInv'
<1>1. PICK r \in DOMAIN sweep.seen, generic \in BOOLEAN, fs \in SUBSET FillId :
        rows' = [rows EXCEPT ![r] =
                   MarkAbsentClosed(rows[r], sweep.seen[r], fs, generic, clock)]
  BY SweepCloseFacts
<1>2. rows[r] \in Row /\ rows \in [DOMAIN rows -> Row]
  BY DEF TypeInv, TypeOK
<1>3. /\ MarkAbsentClosed(rows[r], sweep.seen[r], fs, generic, clock).key = rows[r].key
      /\ MarkAbsentClosed(rows[r], sweep.seen[r], fs, generic, clock).status = "CLOSED"
  BY <1>2 DEF MarkAbsentClosed, Row
<1>4. NoneOpened
  BY <1>1, <1>2, <1>3 DEF NoneOpened
<1> QED BY <1>4, SweepCloseFacts, OthersOpen

\* The invariant of the open rows holds initially.
LEMMA InitOpen == Init => OpenInv
<1> SUFFICES ASSUME Init PROVE OpenInv
  OBVIOUS
<1>1. DOMAIN rows = {} /\ \A l \in Loops : loop[l] = IdleLoop
  BY DEF Init
<1>2. \A k : OpenRows(rows, k) = {}
  BY <1>1 DEF OpenRows
<1> QED BY <1>2 DEF OpenInv, OneOpenRowPerKey, InsertSafe

\* Every step of a single loop preserves the inductive invariant.
LEMMA OpenStep == SingleLoop /\ TypeInv /\ OpenInv /\ [Next]_vars => OpenInv'
<1> SUFFICES ASSUME SingleLoop, TypeInv, OpenInv, [Next]_vars PROVE OpenInv'
  OBVIOUS
<1>1. ASSUME NEW k \in Keys, NEW open \in BOOLEAN, NEW q \in 1..MaxQty, Trade(k, open, q)
      PROVE  OpenInv'
  BY <1>1, TradeType, SameRows, OthersOpen DEF Trade, store
<1>2. CASE Tick
  BY <1>2, SameRows, OthersOpen DEF Tick, store
<1>3. ASSUME NEW l \in Loops, LoopStep(l) \/ CheckFails(l) \/ StepFails(l) PROVE OpenInv'
  BY <1>3, MoveOpen, CreateOpen, InsertPositionOpen, StoreOpen, LogOpen DEF LoopStep
<1>4. CASE SweepFetch \/ SweepList
  BY <1>4, SameRows, OthersOpen DEF SweepFetch, SweepList, exchange, store
<1>5. CASE SweepClose
  BY <1>5, SweepCloseOpen
<1>6. CASE Crash
  <2>1. UNCHANGED rows /\ \A l \in Loops : loop'[l] = IdleLoop
    BY <1>6 DEF Crash, store
  <2> QED BY <2>1, SameRows, OthersOpen
<1>7. CASE UNCHANGED vars
  BY <1>7, SameRows, OthersOpen DEF vars
<1> QED BY <1>1, <1>2, <1>3, <1>4, <1>5, <1>6, <1>7 DEF Next, SweepStep

\* With one sync goroutine per trader there is at most one OPEN row per
\* (trader, symbol, side), whatever adapter, trades, sweeps, failures and
\* restarts: the comment of store/position.go:1316 holds of CreateOpenPosition
\* although its lookup and its INSERT are separate statements.
THEOREM OneOpenRow == SingleLoop => (Spec => []OneOpenRowPerKey)
<1> SUFFICES ASSUME SingleLoop PROVE Spec => []OneOpenRowPerKey
  OBVIOUS
<1>1. Init => TypeInv /\ OpenInv
  BY InitType, InitOpen
<1>2. TypeInv /\ OpenInv /\ [Next]_vars => (TypeInv /\ OpenInv)'
  BY TypeStep, OpenStep
<1>3. OpenInv => OneOpenRowPerKey
  BY DEF OpenInv
<1> QED BY <1>1, <1>2, <1>3, PTL DEF Spec

-----------------------------------------------------------------------------
(* What the order in which trades are taken, recorded and applied is worth: *)
(* no trade is applied or booked twice, none is left behind, none is booked *)
(* to a later position; and, when nothing fails halfway, FillSync           *)
(* implements Ledger.                                                       *)


\* The goroutine works on a trade; the trade is recorded; it is not applied yet.
Working(l)  == loop[l].pc \notin {"idle", "check"}
Recorded(l) == Working(l) /\ loop[l].pc \notin {"record", "insertOrder"}
Applying(l) == Recorded(l) /\ loop[l].pc # "log"

SameSymbol(f, g) == SymbolOf[fills[f].key] = SymbolOf[fills[g].key]

\* Newer than everything recorded of its symbol.
Fresh(f) == \A g \in orders : SameSymbol(g, f) => g < f

\* Trades are taken oldest first, recorded, and then applied; a row is named by
\* the trade that opened it.
TurnInv ==
  /\ orders \subseteq Fetched
  /\ \A f \in FillId : applied[f] > 0 => f \in orders
  /\ \A r \in DOMAIN rows : applied[r] > 0
  /\ \A l \in Loops : /\ Working(l) => loop[l].cur \in Oldest(loop[l].todo)
                      /\ Recorded(l) => loop[l].cur \in orders

\* What is older than a fetched trade of its symbol is recorded or fetched too.
LeftInv ==
  /\ NoTradeLeftBehind
  /\ \A l \in Loops : \A g \in loop[l].todo : \A f \in 1..g :
       SameSymbol(f, g) => f \in orders \cup loop[l].todo

\* A trade that is recorded is not taken up again: one goroutine, an adapter
\* that skips what exists, and no existence check whose failure would matter.
SkipsRecorded == SingleLoop /\ ~RetryExisting /\ ("read" \in Faults => Incremental)

\* What the goroutine has not recorded yet is new.
Pending(l) == IF Recorded(l) THEN loop[l].todo \ {loop[l].cur} ELSE loop[l].todo

NewInv ==
  \A l \in Loops : /\ Incremental => \A f \in Pending(l) : Fresh(f)
                   /\ Working(l) /\ ~Recorded(l) => loop[l].cur \notin orders

OnceInv == AppliedAtMostOnce /\ \A l \in Loops : Applying(l) => applied[loop[l].cur] = 0

\* Nobody else writes the row the goroutine has found.
BookInv ==
  /\ BookedAtMostOnce /\ sweep.pc = "idle"
  /\ \A r \in DOMAIN rows, f \in FillId : rows[r].pnl[f] > 0 => applied[f] > 0
  /\ \A l \in Loops :
       /\ loop[l].pc \in {"load", "store"} => loop[l].found = rows[loop[l].row].pnl
       /\ loop[l].pc = "store" => loop[l].seen = Read(rows[loop[l].row])

\* Each key a symbol of its own, and trades of a symbol recorded in their order.
InSymbolOrder ==
  /\ SkipsRecorded
  /\ \A j, k \in Keys : SymbolOf[j] = SymbolOf[k] => j = k
  /\ "step" \in Faults => Incremental

LatestInv ==
  \A l \in Loops :
    /\ Working(l) /\ ~Recorded(l) => Fresh(loop[l].cur)
    /\ Recorded(l) => \A g \in orders : SameSymbol(g, loop[l].cur) => g <= loop[l].cur

\* A PnL of the row that trade r opened contains closes of its key after it.
After(fs, pnl, r) ==
  \A f \in FillId : pnl[f] > 0 => f \in 1..Len(fs) /\ r < f /\ fs[f].key = fs[r].key

EarlierLoop(st, fs) ==
  /\ st.pc \in {"create", "insertRow"} => fs[st.cur].open
  /\ st.pc \in {"load", "store", "log"} =>
       /\ fs[st.cur].key = fs[st.row].key
       /\ fs[st.cur].open <=> st.op = "merge"
  /\ st.pc \in {"load", "store"} => After(fs, st.found, st.row)
  /\ st.pc = "store" => After(fs, st.seen.pnl, st.row)
  /\ st.pc = "log" => st.op # "merge"

EarlierInv ==
  /\ \A r \in DOMAIN rows : /\ rows[r].key = fills[r].key /\ fills[r].open
                            /\ After(fills, rows[r].pnl, r)
  /\ \A r \in DOMAIN sweep.seen : After(fills, sweep.seen[r].pnl, r)
  /\ \A p \in links : p[1] \in Fetched /\ p[2] < p[1] /\ fills[p[1]].key = fills[p[2]].key
  /\ \A l \in Loops : EarlierLoop(loop[l], fills)

\* Nothing but the exchange, the clock and one goroutine that skips what is recorded.
InOrder == SkipsRecorded /\ ~Sweeping /\ Faults \cap {"step", "crash"} = {}

\* h[i] is the account's position after its first i trades.
Balance(h) ==
  /\ h \in [0..Len(fills) -> [Keys -> Nat]]
  /\ h[0] = [k \in Keys |-> 0] /\ h[Len(fills)] = live
  /\ \A i \in Fetched :
       LET t == fills[i]
       IN IF t.open THEN h[i] = [h[i - 1] EXCEPT ![t.key] = @ + t.qty]
          ELSE t.qty <= h[i - 1][t.key] /\ h[i] = [h[i - 1] EXCEPT ![t.key] = @ - t.qty]

\* The rows show position p.
Shows(p) ==
  \A k \in Keys : /\ OpenRows(rows, k) = {} => p[k] = 0
                  /\ \A r \in OpenRows(rows, k) : rows[r].qty = p[k] /\ p[k] > 0

\* The first d trades are applied, and recorded with the one being applied.
Prefix(d) ==
  /\ d \in 0..Len(fills)
  /\ Applied = 1..d
  /\ orders = IF \E l \in Loops : Applying(l) THEN 1..(d + 1) ELSE 1..d
  /\ \A f \in 1..d : ~fills[f].open => \E r \in DOMAIN rows : rows[r].pnl[f] > 0
  /\ \A l \in Loops :
      /\ \A g \in loop[l].todo : \A f \in 1..g : f \in orders \cup loop[l].todo
      /\ loop[l].pc \in {"create", "insertRow"} => Cur(l).open /\ OpenRows(rows, Cur(l).key) = {}
      /\ loop[l].pc \in {"load", "store"} =>
           /\ loop[l].row \in OpenRows(rows, Cur(l).key)
           /\ loop[l].op = IF Cur(l).open THEN "merge"
                           ELSE IF Cur(l).qty < rows[loop[l].row].qty THEN "reduce" ELSE "full"

OrderInv == \E d \in Nat : \E h : Prefix(d) /\ Balance(h) /\ Shows(h[d])

-----------------------------------------------------------------------------
(* The steps of a goroutine, by what they do *)

Unmoved(l) == loop'[l].todo = loop[l].todo /\ loop'[l].cur = loop[l].cur

\* Done with the trade at hand.
Leaves(l) == /\ loop'[l].pc \in {"idle", "check"}
             /\ loop'[l].todo = loop[l].todo \ {loop[l].cur}

Fetches(l) == /\ loop[l].pc = "idle" /\ loop'[l].pc = "check" /\ UNCHANGED store
              /\ loop'[l].todo = IF Incremental THEN NewIds ELSE Fetched

Skips(l) == /\ loop[l].pc = "check" /\ loop'[l].pc \in {"idle", "check"} /\ UNCHANGED store
            /\ \/ loop'[l].todo = {} /\ loop[l].todo = {}
               \/ \E f \in Oldest(loop[l].todo) \cap orders : loop'[l].todo = loop[l].todo \ {f}

Takes(l) == /\ loop[l].pc = "check" /\ UNCHANGED store /\ loop'[l].todo = loop[l].todo
            /\ loop'[l].cur \in Oldest(loop[l].todo)
            /\ \/ loop'[l].pc = "record" /\ (loop'[l].cur \notin orders \/ "read" \in Faults)
               \/ loop'[l].pc = "lookup" /\ loop'[l].cur \in orders /\ RetryExisting

Records(l) == /\ loop[l].pc = "record" /\ UNCHANGED store /\ Unmoved(l)
              /\ loop'[l].pc = IF loop[l].cur \in orders THEN "lookup" ELSE "insertOrder"

InsertsOrder(l) == /\ loop[l].pc = "insertOrder" /\ UNCHANGED <<links, rows, applied>>
                   /\ orders' = orders \cup {loop[l].cur}
                   /\ \/ loop[l].cur \in orders /\ Leaves(l)
                      \/ loop[l].cur \notin orders /\ Unmoved(l) /\ loop'[l].pc = "lookup"

\* No row to apply the trade to is found.
FindsNone(l) ==
  /\ UNCHANGED store /\ Unmoved(l)
  /\ GetOpenPositionBySymbol(rows, Cur(l).key) = {}
  /\ \/ loop[l].pc = "lookup" /\ loop'[l].pc = "create" /\ Cur(l).open
     \/ loop[l].pc = "create" /\ loop'[l].pc = "insertRow"

\* A row and what to do to it are found.
Finds(l) ==
  /\ loop[l].pc \in {"lookup", "create", "insertRow"} /\ loop'[l].pc = "load"
  /\ UNCHANGED store /\ Unmoved(l)
  /\ loop'[l].row \in DOMAIN rows /\ loop'[l].found = rows[loop'[l].row].pnl
  /\ \/ /\ loop[l].pc = "lookup" => Cur(l).open
        /\ loop'[l].op = "merge"
        /\ \/ loop'[l].row \in GetOpenPositionBySymbol(rows, Cur(l).key)
           \/ loop'[l].row = loop[l].cur
     \/ /\ loop[l].pc = "lookup" /\ ~Cur(l).open
        /\ \/ /\ loop'[l].row \in GetOpenPositionBySymbol(rows, Cur(l).key)
              /\ loop'[l].op = IF Cur(l).qty < rows[loop'[l].row].qty THEN "reduce" ELSE "full"
           \/ /\ rows[loop'[l].row].key = Cur(l).key /\ loop'[l].op = "late"
              /\ GetOpenPositionBySymbol(rows, Cur(l).key) = {}

\* The trade is given up unapplied.
Drops(l) ==
  /\ Working(l) /\ Leaves(l) /\ UNCHANGED store
  /\ \/ "step" \in Faults
     \/ /\ loop[l].pc = "lookup" /\ ~Cur(l).open
        /\ GetOpenPositionBySymbol(rows, Cur(l).key) = {}
     \/ loop[l].pc \in {"create", "insertRow"} /\ loop[l].cur \in DOMAIN rows
     \/ loop[l].pc = "load" /\ loop[l].op = "late"

InsertsRow(l) ==
  /\ loop[l].pc = "insertRow" /\ loop[l].cur \notin DOMAIN rows /\ Leaves(l)
  /\ rows' = [r \in DOMAIN rows \cup {loop[l].cur} |->
                IF r = loop[l].cur THEN NewRow(Cur(l).key, Cur(l).qty) ELSE rows[r]]
  /\ applied' = [applied EXCEPT ![loop[l].cur] = @ + 1]
  /\ UNCHANGED <<orders, links>>

Loads(l) ==
  /\ loop[l].pc = "load" /\ loop'[l].pc = "store" /\ UNCHANGED store /\ Unmoved(l)
  /\ loop'[l].row = loop[l].row /\ loop'[l].op = loop[l].op /\ loop'[l].found = loop[l].found
  /\ loop'[l].seen = Read(rows[loop[l].row])

Writes(l) ==
  /\ loop[l].pc = "store" /\ UNCHANGED <<orders, links>>
  /\ rows' = [rows EXCEPT ![loop[l].row] = Updated(l)]
  /\ applied' = [applied EXCEPT ![loop[l].cur] = @ + 1]
  /\ \/ Leaves(l)
     \/ /\ loop'[l].pc = "log" /\ Unmoved(l) /\ loop[l].op # "merge"
        /\ loop'[l].row = loop[l].row /\ loop'[l].op = loop[l].op

Logs(l) ==
  /\ loop[l].pc = "log" /\ Leaves(l) /\ UNCHANGED <<orders, applied>>
  /\ rows' = [rows EXCEPT ![loop[l].row] = LogCloseEvent(@, loop[l].event)]
  /\ links' = links \/ links' = links \cup {<<loop[l].cur, loop[l].row>>}

Moves(l) ==
  /\ \A m \in Loops \ {l} : loop'[m] = loop[m]
  /\ UNCHANGED <<exchange, sweep>>
  /\ \/ Fetches(l) \/ Skips(l) \/ Takes(l) \/ Records(l) \/ InsertsOrder(l)
     \/ FindsNone(l) \/ Finds(l) \/ Drops(l) \/ InsertsRow(l) \/ Loads(l)
     \/ Writes(l) \/ Logs(l)

\* Where a goroutine is after Goto.
LEMMA Went ==
  ASSUME TypeInv, NEW l \in Loops, NEW st, Goto(l, st)
  PROVE  loop'[l] = st /\ \A m \in Loops \ {l} : loop'[m] = loop[m]
  BY DEF Goto, TypeInv, TypeOK

\* Where NextTrade leaves it.
LEMMA Left ==
  ASSUME TypeInv, NEW l \in Loops, Goto(l, NextTrade(l))
  PROVE  Leaves(l)
<1>1. loop'[l] = NextTrade(l)
  BY Went
<1> QED BY <1>1 DEF NextTrade, IdleLoop, Leaves

\* Where Apply leaves it.
LEMMA Applies ==
  ASSUME TypeInv, NEW l \in Loops, NEW op, NEW r, Goto(l, Apply(l, op, r))
  PROVE  /\ loop'[l].pc = "load" /\ loop'[l].op = op /\ loop'[l].row = r
         /\ loop'[l].found = rows[r].pnl /\ Unmoved(l)
<1>1. loop'[l] = Apply(l, op, r) /\ loop[l] \in Loop
  BY Went DEF TypeInv, TypeOK
<1> QED BY <1>1 DEF Apply, Loop, Unmoved

\* Where a change of place alone leaves it.
LEMMA Goes ==
  ASSUME TypeInv, NEW l \in Loops, NEW q, Goto(l, [loop[l] EXCEPT !.pc = q])
  PROVE  loop'[l].pc = q /\ Unmoved(l)
<1>1. loop'[l] = [loop[l] EXCEPT !.pc = q] /\ loop[l] \in Loop
  BY Went DEF TypeInv, TypeOK
<1> QED BY <1>1 DEF Loop, Unmoved

\* Where taking up a trade leaves it.
LEMMA Took ==
  ASSUME TypeInv, NEW l \in Loops, NEW q, NEW f, Goto(l, [loop[l] EXCEPT !.pc = q, !.cur = f])
  PROVE  loop'[l].pc = q /\ loop'[l].cur = f /\ loop'[l].todo = loop[l].todo
<1>1. loop'[l] = [loop[l] EXCEPT !.pc = q, !.cur = f] /\ loop[l] \in Loop
  BY Went DEF TypeInv, TypeOK
<1> QED BY <1>1 DEF Loop

\* The existence check, answered or not.
LEMMA CheckKind ==
  ASSUME TypeInv, NEW l \in Loops, CheckExisting(l) \/ CheckFails(l)
  PROVE  Skips(l) \/ Takes(l)
<1>1. loop[l].pc = "check" /\ UNCHANGED store /\ loop[l] \in Loop
  BY DEF CheckExisting, CheckFails, TypeInv, TypeOK
<1>2. CASE CheckFails(l)
  <2>1. PICK f \in Oldest(loop[l].todo) : Goto(l, [loop[l] EXCEPT !.pc = "record", !.cur = f])
    BY <1>2 DEF CheckFails
  <2> QED BY <1>1, <1>2, <2>1, Took DEF CheckFails, Takes
<1>3. CASE CheckExisting(l) /\ loop[l].todo = {}
  <2>1. loop'[l] = IdleLoop
    BY <1>3, Went DEF CheckExisting
  <2> QED BY <1>1, <1>3, <2>1 DEF Skips, IdleLoop
<1>4. CASE CheckExisting(l) /\ loop[l].todo # {}
  <2>1. PICK f \in Oldest(loop[l].todo) :
          Goto(l, IF f \in orders THEN ExistingTrade(l, f)
                                  ELSE [loop[l] EXCEPT !.pc = "record", !.cur = f])
    BY <1>4 DEF CheckExisting
  <2>2. CASE f \notin orders
    BY <1>1, <2>1, <2>2, Took DEF Takes
  <2>3. CASE f \in orders /\ Retries(f)
    <3>1. Goto(l, [loop[l] EXCEPT !.pc = "lookup", !.cur = f])
      BY <2>1, <2>3 DEF ExistingTrade
    <3>2. RetryExisting
      BY <2>3 DEF Retries
    <3>3. loop'[l].pc = "lookup" /\ loop'[l].cur = f /\ loop'[l].todo = loop[l].todo
      BY <3>1, Took
    <3> QED BY <1>1, <2>1, <2>3, <3>2, <3>3 DEF Takes
  <2>4. CASE f \in orders /\ ~Retries(f)
    <3>1. loop'[l] = SkipTrade(l, f)
      BY <2>1, <2>4, Went DEF ExistingTrade
    <3>2. loop'[l].pc \in {"idle", "check"} /\ loop'[l].todo = loop[l].todo \ {f}
      BY <1>1, <3>1 DEF SkipTrade, Loop
    <3> QED BY <1>1, <2>1, <2>4, <3>2 DEF Skips
  <2> QED BY <2>2, <2>3, <2>4
<1> QED BY <1>2, <1>3, <1>4

\* The lookups of a row.
LEMMA LookupKind ==
  ASSUME TypeInv, NEW l \in Loops, HandleOpen(l) \/ HandleClose(l) \/ CreateOpenPosition(l)
  PROVE  FindsNone(l) \/ Finds(l) \/ Drops(l)
<1> DEFINE existing == GetOpenPositionBySymbol(rows, Cur(l).key)
<1>1. UNCHANGED store /\ existing \subseteq DOMAIN rows
  BY DEF HandleOpen, HandleClose, CreateOpenPosition, GetOpenPositionBySymbol, NewestOf, OpenRows
<1>2. CASE HandleOpen(l)
  <2>1. CASE existing = {}
    BY <1>1, <1>2, <2>1, Goes DEF HandleOpen, FindsNone
  <2>2. CASE existing # {}
    <3>1. PICK r \in existing : Goto(l, Apply(l, "merge", r))
      BY <1>2, <2>2 DEF HandleOpen
    <3> QED BY <1>1, <1>2, <3>1, Applies DEF HandleOpen, Finds
  <2> QED BY <2>1, <2>2
<1>3. CASE HandleClose(l)
  <2> DEFINE fallback == LateCloseTarget(rows, Cur(l).key, Cur(l).time)
  <2>1. \A r \in fallback : r \in DOMAIN rows /\ rows[r].key = Cur(l).key
    BY DEF LateCloseTarget, GetRecentlyClosedSyncAbsentPosition,
           GetRecentlyClosedUnderClosedPosition, LastExit, ClosedNear
  <2>2. CASE existing # {}
    <3>1. PICK r \in existing :
            Goto(l, Apply(l, IF Cur(l).qty < rows[r].qty THEN "reduce" ELSE "full", r))
      BY <1>3, <2>2 DEF HandleClose
    <3> QED BY <1>1, <1>3, <3>1, Applies DEF HandleClose, Finds
  <2>3. CASE existing = {} /\ fallback # {}
    <3>1. PICK r \in fallback : Goto(l, Apply(l, "late", r))
      BY <1>3, <2>3 DEF HandleClose
    <3> HIDE DEF fallback
    <3> QED BY <1>1, <1>3, <2>1, <2>3, <3>1, Applies DEF HandleClose, Finds
  <2>4. CASE existing = {} /\ fallback = {}
    <3>1. Goto(l, NextTrade(l))
      BY <1>3, <2>4 DEF HandleClose
    <3> QED BY <1>1, <1>3, <2>4, <3>1, Left DEF HandleClose, Drops, Working
  <2> QED BY <2>2, <2>3, <2>4
<1>4. CASE CreateOpenPosition(l)
  <2>1. CASE loop[l].cur \in DOMAIN rows /\ rows[loop[l].cur].status = "OPEN"
    <3>1. Goto(l, Apply(l, "merge", loop[l].cur))
      BY <1>4, <2>1 DEF CreateOpenPosition
    <3> QED BY <1>1, <1>4, <2>1, <3>1, Applies DEF CreateOpenPosition, Finds
  <2>2. CASE loop[l].cur \in DOMAIN rows /\ rows[loop[l].cur].status # "OPEN"
    <3>1. Goto(l, NextTrade(l))
      BY <1>4, <2>2 DEF CreateOpenPosition
    <3> QED BY <1>1, <1>4, <2>2, <3>1, Left DEF CreateOpenPosition, Drops, Working
  <2>3. CASE loop[l].cur \notin DOMAIN rows /\ existing # {}
    <3>1. PICK r \in existing : Goto(l, Apply(l, "merge", r))
      BY <1>4, <2>3 DEF CreateOpenPosition
    <3> QED BY <1>1, <1>4, <3>1, Applies DEF CreateOpenPosition, Finds
  <2>4. CASE loop[l].cur \notin DOMAIN rows /\ existing = {}
    <3>1. Goto(l, [loop[l] EXCEPT !.pc = "insertRow"])
      BY <1>4, <2>4 DEF CreateOpenPosition
    <3> QED BY <1>1, <1>4, <2>4, <3>1, Goes DEF CreateOpenPosition, FindsNone
  <2> QED BY <2>1, <2>2, <2>3, <2>4
<1> QED BY <1>2, <1>3, <1>4

\* The statements that change a row.
LEMMA WriteKind ==
  ASSUME TypeInv, NEW l \in Loops,
         InsertPosition(l) \/ LoadRow(l) \/ StoreRow(l) \/ LogEvent(l)
  PROVE  Finds(l) \/ Drops(l) \/ InsertsRow(l) \/ Loads(l) \/ Writes(l) \/ Logs(l)
<1>1. loop[l] \in Loop
  BY DEF TypeInv, TypeOK
<1>2. CASE InsertPosition(l)
  <2> DEFINE f == loop[l].cur
  <2>1. CASE f \in DOMAIN rows /\ rows[f].status = "OPEN"
    <3>1. Goto(l, Apply(l, "merge", f)) /\ UNCHANGED store /\ loop[l].pc = "insertRow"
      BY <1>2, <2>1 DEF InsertPosition, store
    <3> QED BY <2>1, <3>1, Applies DEF Finds
  <2>2. CASE f \in DOMAIN rows /\ rows[f].status # "OPEN"
    <3>1. Goto(l, NextTrade(l)) /\ UNCHANGED store /\ loop[l].pc = "insertRow"
      BY <1>2, <2>2 DEF InsertPosition, store
    <3> QED BY <2>2, <3>1, Left DEF Drops, Working
  <2>3. CASE f \notin DOMAIN rows
    <3>1. Goto(l, NextTrade(l))
      BY <1>2, <2>3 DEF InsertPosition
    <3> QED BY <1>2, <2>3, <3>1, Left DEF InsertPosition, InsertsRow
  <2> QED BY <2>1, <2>2, <2>3
<1>3. CASE LoadRow(l)
  <2> DEFINE seen == Read(rows[loop[l].row])
  <2>1. CASE NothingLeft(loop[l].op, seen)
    <3>1. Goto(l, NextTrade(l))
      BY <1>3, <2>1 DEF LoadRow
    <3> QED BY <1>3, <2>1, <3>1, Left DEF LoadRow, NothingLeft, Drops, Working
  <2>2. CASE ~NothingLeft(loop[l].op, seen)
    <3>1. Goto(l, [loop[l] EXCEPT !.pc = "store", !.seen = seen])
      BY <1>3, <2>2 DEF LoadRow
    <3>2. loop'[l] = [loop[l] EXCEPT !.pc = "store", !.seen = seen]
      BY <3>1, Went
    <3> HIDE DEF seen
    <3>3. /\ loop'[l].pc = "store" /\ Unmoved(l) /\ loop'[l].seen = seen
          /\ loop'[l].row = loop[l].row /\ loop'[l].op = loop[l].op
          /\ loop'[l].found = loop[l].found
      BY <1>1, <3>2 DEF Loop, Unmoved
    <3> QED BY <1>3, <3>3 DEF LoadRow, Loads, seen
  <2> QED BY <2>1, <2>2
<1>4. CASE StoreRow(l)
  <2>1. CASE EventQty(l) = 0
    <3>1. Goto(l, NextTrade(l))
      BY <1>4, <2>1 DEF StoreRow
    <3> QED BY <1>4, <3>1, Left DEF StoreRow, Writes
  <2>2. CASE EventQty(l) # 0
    <3>1. loop'[l] = [loop[l] EXCEPT !.pc = "log", !.event = EventQty(l)]
      BY <1>4, <2>2, Went DEF StoreRow
    <3>2. /\ loop'[l].pc = "log" /\ Unmoved(l)
          /\ loop'[l].row = loop[l].row /\ loop'[l].op = loop[l].op
      BY <1>1, <3>1 DEF Loop, Unmoved
    <3>3. loop[l].op # "merge"
      BY <2>2 DEF EventQty
    <3> QED BY <1>4, <3>2, <3>3 DEF StoreRow, Writes
  <2> QED BY <2>1, <2>2
<1>5. CASE LogEvent(l)
  BY <1>5, Left DEF LogEvent, Logs
<1> QED BY <1>2, <1>3, <1>4, <1>5

\* Every step of a goroutine is one of these.
LEMMA MoveKinds ==
  ASSUME TypeInv, NEW l \in Loops, LoopStep(l) \/ CheckFails(l) \/ StepFails(l)
  PROVE  Moves(l)
<1>1. \A m \in Loops \ {l} : loop'[m] = loop[m]
  BY DEF LoopStep, Fetch, CheckExisting, RecordOrder, InsertOrder, HandleOpen, HandleClose,
         CreateOpenPosition, InsertPosition, LoadRow, StoreRow, LogEvent, CheckFails, StepFails,
         Goto, TypeInv, TypeOK
<1>2. UNCHANGED <<exchange, sweep>>
  BY DEF LoopStep, Fetch, CheckExisting, RecordOrder, InsertOrder, HandleOpen, HandleClose,
         CreateOpenPosition, InsertPosition, LoadRow, StoreRow, LogEvent, CheckFails, StepFails
<1>3. CASE Fetch(l)
  <2>1. PICK S : /\ S = IF Incremental THEN NewIds ELSE Fetched
                 /\ loop'[l] = [loop[l] EXCEPT !.pc = "check", !.todo = S]
    BY <1>3, Went DEF Fetch
  <2>2. loop[l] \in Loop
    BY DEF TypeInv, TypeOK
  <2>3. loop'[l].pc = "check" /\ loop'[l].todo = S
    BY <2>1, <2>2 DEF Loop
  <2> QED BY <1>1, <1>2, <1>3, <2>1, <2>3 DEF Fetch, Fetches, Moves
<1>4. CASE RecordOrder(l)
  <2>1. Records(l)
    BY <1>4, Goes DEF RecordOrder, Records
  <2> QED BY <1>1, <1>2, <2>1 DEF Moves
<1>5. CASE InsertOrder(l)
  <2>1. InsertsOrder(l)
    BY <1>5, Goes, Left DEF InsertOrder, InsertsOrder
  <2> QED BY <1>1, <1>2, <2>1 DEF Moves
<1>6. CASE StepFails(l)
  <2>1. Drops(l)
    BY <1>6, Left DEF StepFails, Drops, Working
  <2> QED BY <1>1, <1>2, <2>1 DEF Moves
<1> QED BY <1>1, <1>2, <1>3, <1>4, <1>5, <1>6, CheckKind, LookupKind, WriteKind DEF Moves, LoopStep

\* A step of anyone else: what is recorded and applied stays, the trades made so
\* far stay, and the goroutines stay where they are or start again.
Still ==
  /\ UNCHANGED <<orders, links, applied>> /\ DOMAIN rows' = DOMAIN rows
  /\ Fetched \subseteq Fetched' /\ \A f \in Fetched : fills'[f] = fills[f]
  /\ UNCHANGED loop \/ \A l \in Loops : loop'[l] = IdleLoop

\* A trade, the time, the sweep, a crash and a stutter are such steps.
LEMMA StillKinds ==
  ASSUME TypeInv,
         \/ \E k \in Keys, open \in BOOLEAN, q \in 1..MaxQty : Trade(k, open, q)
         \/ Tick \/ SweepStep \/ Crash \/ UNCHANGED vars
  PROVE  Still
<1>1. ASSUME NEW k \in Keys, NEW open \in BOOLEAN, NEW q \in 1..MaxQty, Trade(k, open, q)
      PROVE  Still
  BY <1>1, TradeType DEF Trade, store, Still
<1>2. CASE Tick \/ SweepFetch \/ SweepList \/ UNCHANGED vars
  BY <1>2 DEF Tick, SweepFetch, SweepList, vars, exchange, store, Still, Fetched
<1>3. CASE SweepClose
  BY <1>3, SweepCloseFacts, SweepCloseType DEF Still, Fetched
<1>4. CASE Crash
  BY <1>4 DEF Crash, exchange, store, Still, Fetched
<1> QED BY <1>1, <1>2, <1>3, <1>4 DEF SweepStep

\* Every step is a move of one goroutine or leaves them all alone.
LEMMA StepKinds ==
  ASSUME TypeInv, [Next]_vars
  PROVE  Still \/ \E l \in Loops : Moves(l)
  BY StillKinds, MoveKinds DEF Next

\* What a goroutine works on and has still to do are trades of the account.
LEMMA InHand ==
  ASSUME TypeInv, NEW l \in Loops
  PROVE  /\ loop[l].todo \subseteq Fetched /\ Fetched \subseteq FillId
         /\ Fetched \subseteq Nat /\ FillId \subseteq Nat
         /\ Working(l) => loop[l].cur \in Fetched
  BY StateOfLoop, FetchedOK DEF StateOK, Working, FillId

\* A goroutine back at the start works on nothing.
LEMMA StartsAgain ==
  ASSUME NEW l, loop'[l] = IdleLoop
  PROVE  /\ ~Working(l)' /\ ~Recorded(l)' /\ ~Applying(l)' /\ loop'[l].todo = {}
         /\ loop'[l].pc = "idle"
  BY DEF IdleLoop, Working, Recorded, Applying

\* Where a moving goroutine is before and after, by kind.
LEMMA Places ==
  ASSUME TypeInv, NEW l \in Loops, Moves(l)
  PROVE  /\ Fetches(l) \/ Skips(l) => ~Working(l) /\ ~Working(l)'
         /\ Takes(l) => ~Working(l) /\ Working(l)'
         /\ Takes(l) /\ ~RetryExisting => ~Recorded(l)' /\ loop'[l].pc = "record"
         /\ Records(l) => Working(l) /\ ~Recorded(l) /\ Working(l)'
         /\ Records(l) /\ loop[l].cur \notin orders => ~Recorded(l)'
         /\ InsertsOrder(l) => Working(l) /\ ~Recorded(l)
         /\ InsertsOrder(l) /\ loop[l].cur \notin orders => Applying(l)' /\ Recorded(l)'
         /\ FindsNone(l) \/ Finds(l) \/ Loads(l) => Applying(l) /\ Applying(l)' /\ Unmoved(l)
         /\ Drops(l) => Working(l)
         /\ Drops(l) /\ "step" \notin Faults => Applying(l)
         /\ InsertsRow(l) \/ Writes(l) => Applying(l) /\ ~Applying(l)'
         /\ Writes(l) => Leaves(l) \/ (Unmoved(l) /\ Recorded(l)')
         /\ Logs(l) => Recorded(l) /\ ~Applying(l)
         /\ Leaves(l) => ~Working(l)'
         /\ Applying(l) => Recorded(l)
         /\ Recorded(l) => Working(l)
         /\ Applying(l)' => Recorded(l)'
         /\ Recorded(l)' => Working(l)'
  BY DEF Fetches, Skips, Takes, Records, InsertsOrder, FindsNone, Finds, Drops, InsertsRow, Loads,
         Writes, Logs, Leaves, Working, Recorded, Applying

-----------------------------------------------------------------------------
(* Trades are taken oldest first *)

\* A goroutine's step keeps the order in which trades are taken.
LEMMA TurnMoves ==
  ASSUME TypeInv, TurnInv, NEW l \in Loops, Moves(l)
  PROVE  TurnInv'
<1> DEFINE f == loop[l].cur
<1>1. /\ UNCHANGED <<clock, fills, live, sweep>> /\ Fetched' = Fetched
      /\ \A m \in Loops \ {l} : loop'[m] = loop[m]
  BY DEF Moves, exchange, Fetched
<1>2. Working(l) => f \in Fetched /\ f \in FillId
  BY InHand
<1>3. orders \subseteq orders' /\ orders' \subseteq Fetched'
  <2>1. CASE InsertsOrder(l)
    BY <1>1, <1>2, <2>1, Places DEF InsertsOrder, TurnInv
  <2>2. CASE ~InsertsOrder(l)
    BY <1>1, <2>2 DEF Moves, Fetches, Skips, Takes, Records, FindsNone, Finds, Drops, InsertsRow,
                      Loads, Writes, Logs, store, TurnInv
  <2> QED BY <2>1, <2>2
<1>4. /\ \A g \in FillId : applied'[g] > 0 => g \in orders'
      /\ \A r \in DOMAIN rows' : applied'[r] > 0
  <2>1. CASE InsertsRow(l) \/ Writes(l)
    <3>1. f \in orders /\ f \in FillId
      BY <1>2, <2>1, Places DEF TurnInv
    <3>2. applied' = [applied EXCEPT ![f] = @ + 1] /\ applied \in [FillId -> Nat]
      BY <2>1 DEF InsertsRow, Writes, TypeInv, TypeOK
    <3>3. \A g \in FillId : applied'[g] = IF g = f THEN applied[g] + 1 ELSE applied[g]
      BY <3>1, <3>2
    <3>4. DOMAIN rows' \subseteq DOMAIN rows \cup {f} /\ DOMAIN rows \subseteq FillId
      BY <2>1 DEF InsertsRow, Writes, TypeInv, TypeOK
    <3> QED BY <1>3, <3>1, <3>2, <3>3, <3>4 DEF TurnInv
  <2>2. CASE ~(InsertsRow(l) \/ Writes(l))
    <3>1. UNCHANGED applied /\ DOMAIN rows' = DOMAIN rows
      BY <2>2 DEF Moves, Fetches, Skips, Takes, Records, InsertsOrder, FindsNone, Finds, Drops,
                  Loads, Logs, store
    <3> QED BY <1>3, <3>1 DEF TurnInv
  <2> QED BY <2>1, <2>2
<1>5. /\ Working(l)' => loop'[l].cur \in Oldest(loop'[l].todo)
      /\ Recorded(l)' => loop'[l].cur \in orders'
  <2>1. CASE ~Working(l)'
    BY <2>1, Places
  <2>2. CASE Takes(l)
    BY <1>3, <2>2 DEF Takes, Oldest, Recorded
  <2>3. CASE Working(l)' /\ ~Takes(l)
    <3>1. Working(l) /\ Unmoved(l)
      BY <2>3, Places
      DEF Moves, Records, InsertsOrder, FindsNone, Finds, Drops, InsertsRow, Loads, Writes, Logs
    <3>2. Recorded(l)' => f \in orders'
      <4>1. CASE Recorded(l)
        BY <1>3, <4>1 DEF TurnInv
      <4>2. CASE Records(l)
        BY <1>3, <4>2, Places DEF Records
      <4>3. CASE InsertsOrder(l)
        BY <4>3 DEF InsertsOrder
      <4>4. CASE Drops(l)
        BY <2>3, <4>4, Places DEF Drops
      <4> QED BY <2>3, <3>1, <4>1, <4>2, <4>3, <4>4, Places DEF Moves
    <3> QED BY <3>1, <3>2 DEF Unmoved, TurnInv, Oldest
  <2> QED BY <2>1, <2>2, <2>3
<1>6. ASSUME NEW m \in Loops \ {l}
      PROVE  /\ Working(m)' => loop'[m].cur \in Oldest(loop'[m].todo)
             /\ Recorded(m)' => loop'[m].cur \in orders'
  BY <1>1, <1>3, <1>6 DEF TurnInv, Working, Recorded, Oldest
<1> QED BY <1>3, <1>4, <1>5, <1>6 DEF TurnInv, Oldest

\* So does a step of anyone else.
LEMMA TurnStill == ASSUME TypeInv, TurnInv, Still PROVE TurnInv'
<1>1. ASSUME NEW l \in Loops
      PROVE  /\ Working(l)' => loop'[l].cur \in Oldest(loop'[l].todo)
             /\ Recorded(l)' => loop'[l].cur \in orders'
  <2>1. CASE loop'[l] = IdleLoop
    BY <2>1, StartsAgain
  <2>2. CASE loop'[l] = loop[l]
    BY <2>2 DEF Still, TurnInv, Working, Recorded, Oldest
  <2> QED BY <2>1, <2>2 DEF Still
<1> QED BY <1>1 DEF Still, TurnInv, Oldest

\* Every step keeps it.
LEMMA TurnStep == TypeInv /\ TurnInv /\ [Next]_vars => TurnInv'
  BY StepKinds, TurnMoves, TurnStill

\* It holds at first.
LEMMA TurnInit == Init => TurnInv
<1> SUFFICES ASSUME Init PROVE TurnInv
  OBVIOUS
<1>1. \A l \in Loops : loop[l] = IdleLoop
  BY DEF Init
<1>2. \A l \in Loops : ~Working(l) /\ ~Recorded(l)
  BY <1>1 DEF IdleLoop, Working, Recorded
<1> QED BY <1>2 DEF Init, TurnInv

\* It always holds, whatever the constants.
LEMMA TurnAlways == Spec => [](TypeInv /\ TurnInv)
<1>1. Init => TypeInv /\ TurnInv
  BY InitType, TurnInit
<1>2. TypeInv /\ TurnInv /\ [Next]_vars => (TypeInv /\ TurnInv)'
  BY TypeStep, TurnStep
<1> QED BY <1>1, <1>2, PTL DEF Spec

-----------------------------------------------------------------------------
(* No trade is left behind *)

\* What a poll fetches leaves nothing older of a symbol unfetched and unrecorded.
LEMMA LeftFetch ==
  ASSUME TypeInv, TurnInv, LeftInv, NEW l \in Loops, Fetches(l), UNCHANGED fills,
         NEW g \in loop'[l].todo, NEW f \in 1..g, SameSymbol(f, g)
  PROVE  f \in orders \cup loop'[l].todo
<1>1. g \in Fetched /\ Len(fills) \in Nat
  BY DEF Fetches, NewIds, TypeInv, TypeOK
<1>2. f \in Fetched /\ g \in Nat /\ f \in Nat
  BY <1>1 DEF Fetched
<1>3. CASE ~Incremental
  BY <1>2, <1>3 DEF Fetches
<1>4. CASE Incremental /\ f \notin orders
  <2>1. g \in NewIds
    BY <1>4 DEF Fetches
  <2>2. ASSUME NEW h \in orders, SymbolOf[fills[h].key] = SymbolOf[fills[f].key]
        PROVE  h < f
    <3>1. h < g /\ h \in Nat
      BY <2>1, <2>2, <1>1, <1>2 DEF NewIds, SameSymbol, TurnInv, Fetched
    <3>2. f <= h => f \in orders
      <4>1. f <= h => f \in 1..h
        BY <1>2, <3>1
      <4> QED BY <2>2, <4>1 DEF LeftInv, NoTradeLeftBehind
    <3> QED BY <1>2, <1>4, <3>1, <3>2
  <2>3. f \in NewIds
    BY <1>2, <2>2 DEF NewIds
  <2> QED BY <1>4, <2>3 DEF Fetches
<1> QED BY <1>3, <1>4

\* What is to be done shrinks by what is recorded, but for a fetch.
LEMMA TodoMoves ==
  ASSUME "step" \notin Faults, TypeInv, TurnInv, NEW l \in Loops, Moves(l)
  PROVE  /\ \/ orders' = orders
            \/ orders' = orders \cup {loop[l].cur} /\ Working(l)
         /\ \/ Fetches(l)
            \/ loop'[l].todo \subseteq loop[l].todo /\ loop[l].todo \subseteq loop'[l].todo \cup orders'
<1> DEFINE f == loop[l].cur
<1>1. \/ orders' = orders
      \/ orders' = orders \cup {f} /\ Working(l)
  <2>1. CASE InsertsOrder(l)
    BY <2>1, Places DEF InsertsOrder
  <2>2. CASE ~InsertsOrder(l)
    BY <2>2 DEF Moves, Fetches, Skips, Takes, Records, FindsNone, Finds, Drops, InsertsRow,
                Loads, Writes, Logs, store
  <2> QED BY <2>1, <2>2
<1>2. CASE Skips(l)
  BY <1>1, <1>2 DEF Skips
<1>3. CASE Takes(l)
  BY <1>1, <1>3 DEF Takes
<1>4. CASE Leaves(l) /\ Recorded(l)
  <2>1. f \in orders
    BY <1>4 DEF TurnInv
  <2> QED BY <1>1, <1>4, <2>1 DEF Leaves
<1>5. CASE Unmoved(l)
  BY <1>1, <1>5 DEF Unmoved
<1>6. CASE InsertsOrder(l)
  BY <1>1, <1>6 DEF InsertsOrder, Unmoved, Leaves
<1> QED BY <1>1, <1>2, <1>3, <1>4, <1>5, <1>6, Places
        DEF Moves, Records, FindsNone, Finds, Drops, InsertsRow, Loads, Writes, Logs

\* A goroutine's step leaves nothing behind.
LEMMA LeftMoves ==
  ASSUME "step" \notin Faults, TypeInv, TurnInv, LeftInv, NEW l \in Loops, Moves(l)
  PROVE  LeftInv'
<1> DEFINE f == loop[l].cur
<1>1. UNCHANGED fills /\ \A m \in Loops \ {l} : loop'[m] = loop[m]
  BY DEF Moves, exchange
<1>2. Working(l) => f \in Oldest(loop[l].todo) /\ f \in Nat
  BY InHand DEF TurnInv
<1>3. \/ orders' = orders
      \/ orders' = orders \cup {f} /\ Working(l)
  BY TodoMoves
<1>4. NoTradeLeftBehind'
  <2>1. CASE orders' = orders
    BY <1>1, <2>1 DEF LeftInv, NoTradeLeftBehind
  <2>2. CASE orders' = orders \cup {f} /\ Working(l)
    <3>1. ASSUME NEW h \in 1..f, SymbolOf[fills[h].key] = SymbolOf[fills[f].key]
          PROVE  h \in orders'
      <4>1. f \in loop[l].todo /\ SameSymbol(h, f)
        BY <1>2, <2>2, <3>1 DEF Oldest, SameSymbol
      <4>2. h \in orders \cup loop[l].todo
        BY <4>1 DEF LeftInv
      <4>3. h \in loop[l].todo => h = f
        BY <1>2, <2>2 DEF Oldest
      <4> QED BY <2>2, <4>2, <4>3
    <3> QED BY <1>1, <2>2, <3>1 DEF LeftInv, NoTradeLeftBehind
  <2> QED BY <1>3, <2>1, <2>2
<1>5. ASSUME NEW m \in Loops, NEW g \in loop'[m].todo, NEW h \in 1..g, SameSymbol(h, g)
      PROVE  h \in orders' \cup loop'[m].todo
  <2>1. CASE m # l
    BY <1>1, <1>3, <1>5, <2>1 DEF LeftInv
  <2>2. CASE m = l /\ Fetches(l)
    BY <1>1, <1>3, <1>5, <2>2, LeftFetch
  <2>3. CASE m = l /\ ~Fetches(l)
    <3>1. loop'[l].todo \subseteq loop[l].todo /\ loop[l].todo \subseteq loop'[l].todo \cup orders'
      BY <2>3, TodoMoves
    <3>2. h \in orders \cup loop[l].todo
      BY <1>5, <2>3, <3>1 DEF LeftInv
    <3> QED BY <1>3, <2>3, <3>1, <3>2
  <2> QED BY <2>1, <2>2, <2>3
<1> QED BY <1>1, <1>4, <1>5 DEF LeftInv, SameSymbol

\* Nor does a step of anyone else.
LEMMA LeftStill == ASSUME TypeInv, TurnInv, LeftInv, Still PROVE LeftInv'
<1>1. Len(fills) \in Nat
  BY DEF TypeInv, TypeOK
<1>2. ASSUME NEW g \in Fetched, NEW f \in 1..g
      PROVE  f \in Fetched /\ fills'[f] = fills[f] /\ fills'[g] = fills[g]
  BY <1>1, <1>2 DEF Fetched, Still
<1>3. NoTradeLeftBehind'
  BY <1>2 DEF Still, LeftInv, NoTradeLeftBehind, TurnInv
<1>4. ASSUME NEW l \in Loops, NEW g \in loop'[l].todo, NEW f \in 1..g, SameSymbol(f, g)'
      PROVE  f \in orders' \cup loop'[l].todo
  <2>1. loop'[l] = loop[l]
    BY <1>4, StartsAgain DEF Still
  <2>2. g \in Fetched /\ g \in loop[l].todo
    BY <1>4, <2>1, InHand
  <2>3. SameSymbol(f, g)
    BY <1>2, <1>4, <2>2 DEF SameSymbol
  <2> QED BY <2>1, <2>2, <2>3 DEF LeftInv, Still
<1> QED BY <1>3, <1>4 DEF LeftInv, SameSymbol

\* There is nothing to leave behind at first.
LEMMA LeftInit == Init => LeftInv
  BY DEF Init, LeftInv, NoTradeLeftBehind, IdleLoop

\* No step leaves anything behind.
LEMMA LeftStep ==
  "step" \notin Faults /\ TypeInv /\ TurnInv /\ LeftInv /\ [Next]_vars => LeftInv'
  BY StepKinds, LeftMoves, LeftStill

\* Unless a statement fails, no trade is left behind, for any adapter, any number
\* of goroutines, and whatever crashes or sweeps: the incremental fetch of Binance
\* (fromId = largest recorded id + 1) never jumps over a trade it has not recorded.
THEOREM NothingLeftBehind == "step" \notin Faults => (Spec => []NoTradeLeftBehind)
<1> SUFFICES ASSUME "step" \notin Faults PROVE Spec => []NoTradeLeftBehind
  OBVIOUS
<1>1. Init => TypeInv /\ TurnInv /\ LeftInv
  BY InitType, TurnInit, LeftInit
<1>2. TypeInv /\ TurnInv /\ LeftInv /\ [Next]_vars => (TypeInv /\ TurnInv /\ LeftInv)'
  BY TypeStep, TurnStep, LeftStep
<1>3. LeftInv => NoTradeLeftBehind
  BY DEF LeftInv
<1> QED BY <1>1, <1>2, <1>3, PTL DEF Spec

-----------------------------------------------------------------------------
(* No trade is applied twice *)

\* A fresh trade is not recorded.
LEMMA FreshIsNew ==
  ASSUME TypeInv, NEW f \in Fetched, Fresh(f)
  PROVE  f \notin orders
<1>1. f \in Nat
  BY DEF Fetched
<1> QED BY <1>1 DEF Fresh, SameSymbol

\* Of a single goroutine.
LEMMA NewOfOne ==
  ASSUME SingleLoop, NEW l \in Loops,
         Incremental => \A f \in Pending(l) : Fresh(f),
         Working(l) /\ ~Recorded(l) => loop[l].cur \notin orders
  PROVE  NewInv
<1>1. \A m \in Loops : m = l
  BY DEF SingleLoop
<1> QED BY <1>1 DEF NewInv

\* What the goroutine has still to record stays new when it moves.
LEMMA NewMoves ==
  ASSUME SkipsRecorded, TypeInv, TurnInv, NewInv, NEW l \in Loops, Moves(l)
  PROVE  NewInv'
<1> DEFINE f == loop[l].cur
<1>1. UNCHANGED fills /\ \A m \in Loops : m = l
  BY DEF Moves, exchange, SkipsRecorded, SingleLoop
<1>2. Working(l) => f \in Oldest(loop[l].todo) /\ f \in Nat
  BY InHand DEF TurnInv
<1>3. Incremental => \A g \in Pending(l)' : Fresh(g)'
  <2> SUFFICES ASSUME Incremental, NEW g \in Pending(l)' PROVE Fresh(g)'
    OBVIOUS
  <2>1. CASE Fetches(l)
    <3>1. g \in NewIds
      BY <2>1 DEF Fetches, Pending, Recorded, Working
    <3> QED BY <1>1, <2>1, <3>1 DEF NewIds, Fresh, SameSymbol, Fetches, store
  <2>2. CASE InsertsOrder(l)
    <3>1. f \notin orders /\ Recorded(l)' /\ Unmoved(l)
      BY <2>2, Places DEF NewInv, InsertsOrder
    <3>2. g \in loop[l].todo \ {f}
      BY <3>1 DEF Pending, Unmoved
    <3>3. Fresh(g)
      BY <2>2, <3>2, Places DEF NewInv, Pending
    <3>4. f < g
      BY <1>2, <2>2, <3>2, InHand, Places DEF Oldest
    <3> QED BY <1>1, <2>2, <3>3, <3>4 DEF InsertsOrder, Fresh, SameSymbol
  <2>3. CASE ~Fetches(l) /\ ~InsertsOrder(l)
    <3>1. UNCHANGED orders
      BY <2>3 DEF Moves, Skips, Takes, Records, FindsNone, Finds, Drops, InsertsRow, Loads,
                  Writes, Logs, store
    <3>2. g \in Pending(l)
      <4>1. CASE Skips(l) \/ Takes(l)
        BY <4>1, Places DEF Skips, Takes, Pending, SkipsRecorded
      <4>2. CASE Records(l)
        BY <4>2, Places DEF NewInv, Records, Unmoved, Pending
      <4>3. CASE Leaves(l)
        BY <4>3, Places DEF Leaves, Pending
      <4>4. CASE Recorded(l) /\ Recorded(l)' /\ Unmoved(l)
        BY <4>4 DEF Pending, Unmoved
      <4> QED BY <2>3, <4>1, <4>2, <4>3, <4>4, Places DEF Moves, Drops, InsertsRow, Writes, Logs
    <3> QED BY <1>1, <3>1, <3>2 DEF NewInv, Fresh, SameSymbol
  <2> QED BY <2>1, <2>2, <2>3
<1>4. Working(l)' /\ ~Recorded(l)' => loop'[l].cur \notin orders'
  <2> SUFFICES ASSUME Working(l)', ~Recorded(l)' PROVE loop'[l].cur \notin orders'
    OBVIOUS
  <2>1. CASE Takes(l)
    <3> DEFINE g == loop'[l].cur
    <3>1. g \in loop[l].todo /\ g \in Fetched /\ (g \notin orders \/ "read" \in Faults)
      BY <2>1, InHand DEF Takes, Oldest, SkipsRecorded
    <3>2. "read" \in Faults => Fresh(g)
      BY <2>1, <3>1, Places DEF NewInv, Pending, SkipsRecorded
    <3> QED BY <2>1, <3>1, <3>2, FreshIsNew DEF Takes, store
  <2>2. CASE Records(l)
    BY <2>2, Places DEF NewInv, Records, Unmoved, store
  <2> QED BY <2>1, <2>2, Places DEF Moves, NewInv, Drops, InsertsRow, InsertsOrder, Writes, Logs
<1>5. SingleLoop'
  BY DEF SkipsRecorded, SingleLoop
<1> QED BY <1>1, <1>3, <1>4 DEF NewInv

\* It stays new when anyone else moves.
LEMMA NewStill == ASSUME TypeInv, TurnInv, NewInv, Still PROVE NewInv'
<1>1. ASSUME NEW l \in Loops
      PROVE  /\ Incremental => \A f \in Pending(l)' : Fresh(f)'
             /\ Working(l)' /\ ~Recorded(l)' => loop'[l].cur \notin orders'
  <2>1. CASE loop'[l] = IdleLoop
    BY <2>1, StartsAgain DEF Pending
  <2>2. CASE loop'[l] = loop[l]
    <3>1. /\ Pending(l)' = Pending(l) /\ Working(l)' = Working(l) /\ Recorded(l)' = Recorded(l)
          /\ Pending(l) \subseteq Fetched
      BY <2>2, InHand DEF Pending, Working, Recorded
    <3>2. \A f \in Fetched : Fresh(f) => Fresh(f)'
      BY DEF Still, Fresh, SameSymbol, TurnInv
    <3> QED BY <2>2, <3>1, <3>2 DEF NewInv, Still
  <2> QED BY <2>1, <2>2 DEF Still
<1> QED BY <1>1 DEF NewInv

\* There is nothing to record at first.
LEMMA NewInit == Init => NewInv
  BY DEF Init, NewInv, IdleLoop, Pending, Working, Recorded

\* Every step keeps it new.
LEMMA NewStep == SkipsRecorded /\ TypeInv /\ TurnInv /\ NewInv /\ [Next]_vars => NewInv'
  BY StepKinds, NewMoves, NewStill

\* A goroutine that moves applies no trade a second time.
LEMMA OnceMoves ==
  ASSUME SkipsRecorded, TypeInv, TurnInv, NewInv, OnceInv, NEW l \in Loops, Moves(l)
  PROVE  OnceInv'
<1> DEFINE f == loop[l].cur
<1>1. (\A m \in Loops : m = l) /\ (Working(l) => f \in FillId) /\ applied \in [FillId -> Nat]
  BY InHand DEF SkipsRecorded, SingleLoop, TypeInv, TypeOK
<1>2. CASE InsertsRow(l) \/ Writes(l)
  <2>1. applied' = [applied EXCEPT ![f] = @ + 1] /\ applied[f] = 0 /\ f \in FillId
    BY <1>1, <1>2, Places DEF InsertsRow, Writes, OnceInv
  <2>2. \A g \in FillId : applied'[g] = IF g = f THEN 1 ELSE applied[g]
    BY <1>1, <2>1
  <2> QED BY <1>1, <1>2, <2>2, Places DEF OnceInv, AppliedAtMostOnce
<1>3. CASE ~(InsertsRow(l) \/ Writes(l))
  <2>1. UNCHANGED applied
    BY <1>3 DEF Moves, Fetches, Skips, Takes, Records, InsertsOrder, FindsNone, Finds, Drops,
                Loads, Logs, store
  <2>2. ASSUME Applying(l)'
        PROVE  applied[loop'[l].cur] = 0
    <3>1. CASE InsertsOrder(l)
      <4>1. f \in FillId /\ f \notin orders /\ loop'[l].cur = f
        BY <1>1, <2>2, <3>1, Places DEF InsertsOrder, Unmoved
      <4> QED BY <1>1, <4>1 DEF TurnInv
    <3>2. CASE FindsNone(l) \/ Finds(l) \/ Loads(l)
      BY <3>2, Places DEF Unmoved, OnceInv
    <3>3. CASE Records(l)
      BY <2>2, <3>3, Places DEF NewInv
    <3> QED BY <1>3, <2>2, <3>1, <3>2, <3>3, Places DEF Moves, Drops, Logs, SkipsRecorded
  <2> QED BY <1>1, <2>1, <2>2 DEF OnceInv, AppliedAtMostOnce
<1> QED BY <1>2, <1>3

\* Nobody else applies a trade.
LEMMA OnceStill == ASSUME OnceInv, Still PROVE OnceInv'
<1>1. ASSUME NEW l \in Loops, Applying(l)' PROVE applied'[loop'[l].cur] = 0
  <2>1. loop'[l] = loop[l]
    BY <1>1, StartsAgain DEF Still
  <2> QED BY <1>1, <2>1 DEF Still, OnceInv, Applying, Recorded, Working
<1> QED BY <1>1 DEF Still, OnceInv, AppliedAtMostOnce

\* Nothing is applied at first.
LEMMA OnceInit == Init => OnceInv
  BY DEF Init, OnceInv, AppliedAtMostOnce, IdleLoop, Applying, Recorded, Working

\* No step applies a trade twice.
LEMMA OnceStep ==
  SkipsRecorded /\ TypeInv /\ TurnInv /\ NewInv /\ OnceInv /\ [Next]_vars => OnceInv'
  BY StepKinds, OnceMoves, OnceStill

SyncInv == TypeInv /\ TurnInv /\ NewInv /\ OnceInv

\* The order of the trades, what is new and what is applied, at first.
LEMMA SyncInit == Init => SyncInv
  BY InitType, TurnInit, NewInit, OnceInit DEF SyncInv

\* The three together are inductive.
LEMMA SyncStep == SkipsRecorded /\ SyncInv /\ [Next]_vars => SyncInv'
  BY TypeStep, TurnStep, NewStep, OnceStep DEF SyncInv

\* With one goroutine and an adapter that skips what is recorded, no trade changes
\* the ledger twice: not when statements fail halfway, not when the process
\* crashes and polls the same trades again, and, with the incremental fetch, not
\* even when the existence check itself fails.
THEOREM AppliedOnce == SkipsRecorded => (Spec => []AppliedAtMostOnce)
<1> SUFFICES ASSUME SkipsRecorded PROVE Spec => []AppliedAtMostOnce
  OBVIOUS
<1>1. SyncInv /\ [Next]_vars => SyncInv'
  BY SyncStep
<1>2. SyncInv => AppliedAtMostOnce
  BY DEF SyncInv, OnceInv
<1> QED BY <1>1, <1>2, SyncInit, PTL DEF Spec

-----------------------------------------------------------------------------
(* No close is booked twice *)

\* What the UPDATE of a store method leaves of the key, the name and the PnL.
LEMMA UpdatedPnl ==
  ASSUME TypeInv, NEW l \in Loops, loop[l].pc = "store"
  PROVE  /\ Updated(l).key = rows[loop[l].row].key
         /\ loop[l].op = "merge" => Updated(l).pnl = rows[loop[l].row].pnl
         /\ loop[l].op = "full" => Updated(l).pnl = Book(loop[l].found, {loop[l].cur})
         /\ loop[l].op \in {"reduce", "late"} =>
              Updated(l).pnl = Book(loop[l].seen.pnl, {loop[l].cur})
         /\ loop[l].op \in {"merge", "full", "reduce", "late"}
<1>1. rows[loop[l].row] \in Row /\ loop[l].op \in {"merge", "full", "reduce", "late"}
  BY StoreFacts
<1>2. CASE loop[l].op = "merge"
  BY <1>1, <1>2 DEF Updated, UpdatePositionQuantityAndPrice, Row
<1>3. CASE loop[l].op = "reduce"
  BY <1>1, <1>3 DEF Updated, ReducePositionQuantity, Row
<1>4. CASE loop[l].op = "full"
  BY <1>1, <1>4 DEF Updated, ClosePositionFully, Row
<1>5. CASE loop[l].op = "late"
  BY <1>1, <1>5 DEF Updated, ApplyLateCloseFill, Row
<1> QED BY <1>1, <1>2, <1>3, <1>4, <1>5

\* The row a goroutine works on exists.
LEMMA RowInHand ==
  ASSUME TypeInv, NEW l \in Loops, loop[l].pc \in {"load", "store", "log"}
  PROVE  loop[l].row \in DOMAIN rows /\ loop[l].row \in FillId
  BY StateOfLoop DEF StateOK, TypeInv, TypeOK

\* How the rows change when a goroutine moves: one is inserted, one gets a new
\* value, or none.
LEMMA RowsMove ==
  ASSUME TypeInv, NEW l \in Loops, Moves(l)
  PROVE  /\ InsertsRow(l) =>
              /\ DOMAIN rows' = DOMAIN rows \cup {loop[l].cur}
              /\ rows'[loop[l].cur].key = Cur(l).key
              /\ rows'[loop[l].cur].pnl = NothingBooked
              /\ \A r \in DOMAIN rows : rows'[r] = rows[r]
         /\ Writes(l) => /\ DOMAIN rows' = DOMAIN rows /\ rows'[loop[l].row] = Updated(l)
                         /\ \A r \in DOMAIN rows \ {loop[l].row} : rows'[r] = rows[r]
         /\ Logs(l) => /\ DOMAIN rows' = DOMAIN rows
                       /\ \A r \in DOMAIN rows : /\ rows'[r].key = rows[r].key
                                                 /\ rows'[r].pnl = rows[r].pnl
         /\ ~(InsertsRow(l) \/ Writes(l) \/ Logs(l)) => UNCHANGED rows
<1>1. rows \in [DOMAIN rows -> Row]
  BY DEF TypeInv, TypeOK
<1>2. ASSUME InsertsRow(l)
      PROVE  /\ DOMAIN rows' = DOMAIN rows \cup {loop[l].cur}
             /\ rows'[loop[l].cur] = NewRow(Cur(l).key, Cur(l).qty)
             /\ \A r \in DOMAIN rows : rows'[r] = rows[r]
  BY <1>2 DEF InsertsRow
<1>3. /\ NewRow(Cur(l).key, Cur(l).qty).key = Cur(l).key
      /\ NewRow(Cur(l).key, Cur(l).qty).pnl = NothingBooked
  BY DEF NewRow
<1>4. ASSUME Writes(l)
      PROVE  /\ DOMAIN rows' = DOMAIN rows /\ rows'[loop[l].row] = Updated(l)
             /\ \A r \in DOMAIN rows \ {loop[l].row} : rows'[r] = rows[r]
  BY <1>1, <1>4, RowInHand DEF Writes
<1>5. ASSUME Logs(l)
      PROVE  /\ DOMAIN rows' = DOMAIN rows
             /\ \A r \in DOMAIN rows : /\ rows'[r].key = rows[r].key
                                       /\ rows'[r].pnl = rows[r].pnl
  BY <1>1, <1>5, RowInHand DEF Logs, LogCloseEvent, Row
<1>6. ~(InsertsRow(l) \/ Writes(l) \/ Logs(l)) => UNCHANGED rows
  BY DEF Moves, Fetches, Skips, Takes, Records, InsertsOrder, FindsNone, Finds, Drops, Loads, store
<1> QED BY <1>2, <1>3, <1>4, <1>5, <1>6

\* With nothing to sweep the rows and the sweep stay as they are.
LEMMA NoSweep ==
  ASSUME ~Sweeping, sweep.pc = "idle",
         \/ \E k \in Keys, open \in BOOLEAN, q \in 1..MaxQty : Trade(k, open, q)
         \/ Tick \/ SweepStep \/ Crash \/ UNCHANGED vars
  PROVE  UNCHANGED rows /\ sweep'.pc = "idle"
<1>1. ~SweepStep
  BY DEF SweepStep, SweepFetch, SweepList, SweepClose
<1>2. CASE Crash
  BY <1>2 DEF Crash, IdleSweep, store
<1> QED BY <1>1, <1>2 DEF Trade, Tick, vars, store

\* The PnL of the row that is written, and whose it is.
LEMMA BookWrites ==
  ASSUME SyncInv, BookInv, NEW l \in Loops, Moves(l), Writes(l), NEW g \in FillId
  PROVE  rows'[loop[l].row].pnl[g] =
           IF g = loop[l].cur /\ loop[l].op # "merge" THEN 1 ELSE rows[loop[l].row].pnl[g]
<1> DEFINE f == loop[l].cur
           r == loop[l].row
<1>1. /\ loop[l].pc = "store" /\ rows'[r] = Updated(l) /\ TypeInv
      /\ r \in DOMAIN rows /\ f \in FillId
  BY RowsMove, RowInHand, StoreFacts DEF Writes, SyncInv
<1>2. applied[f] = 0
  BY Places DEF SyncInv, OnceInv
<1>3. rows[r].pnl[f] = 0 /\ rows[r].pnl \in [FillId -> Nat]
  <2>1. rows[r].pnl \in [FillId -> Nat]
    BY <1>1 DEF TypeInv, TypeOK, Row
  <2>2. ~(rows[r].pnl[f] > 0)
    BY <1>1, <1>2 DEF BookInv
  <2> QED BY <1>1, <2>1, <2>2
<1>4. loop[l].found = rows[r].pnl /\ loop[l].seen.pnl = rows[r].pnl
  <2>1. loop[l].found = rows[r].pnl /\ loop[l].seen = Read(rows[r])
    BY <1>1 DEF BookInv
  <2>2. Read(rows[r]).pnl = rows[r].pnl
    BY DEF Read
  <2> QED BY <2>1, <2>2
<1>5. Updated(l).pnl = IF loop[l].op = "merge" THEN rows[r].pnl ELSE Book(rows[r].pnl, {f})
  <2> HIDE DEF r, f
  <2>1. loop[l].op \in {"reduce", "late"} => Updated(l).pnl = Book(rows[r].pnl, {f})
    BY <1>1, <1>4, UpdatedPnl DEF f
  <2>2. loop[l].op = "full" => Updated(l).pnl = Book(rows[r].pnl, {f})
    BY <1>1, <1>4, UpdatedPnl DEF f
  <2>3. loop[l].op = "merge" => Updated(l).pnl = rows[r].pnl
    BY <1>1, UpdatedPnl DEF r
  <2> QED BY <1>1, <2>1, <2>2, <2>3, UpdatedPnl
<1>6. Book(rows[r].pnl, {f})[g] = IF g = f THEN 1 ELSE rows[r].pnl[g]
  BY <1>3 DEF Book
<1> QED BY <1>1, <1>5, <1>6

\* The goroutine books the trade to the row it found, which nobody else has touched.
LEMMA BookMoves ==
  ASSUME SkipsRecorded, SyncInv, BookInv, NEW l \in Loops, Moves(l)
  PROVE  BookInv'
<1> DEFINE f == loop[l].cur
<1>1. /\ \A m \in Loops : m = l
      /\ sweep'.pc = "idle"
      /\ \A r \in DOMAIN rows : rows[r].pnl \in [FillId -> Nat]
      /\ TypeInv /\ Applying(l) => f \in FillId /\ applied[f] = 0
  BY InHand, Places DEF SkipsRecorded, SingleLoop, Moves, BookInv, SyncInv, OnceInv, TypeInv, TypeOK, Row
<1>2. TypeInv /\ applied \in [FillId -> Nat]
  BY DEF SyncInv, TypeInv, TypeOK
<1>3. /\ loop'[l].pc \in {"load", "store"} => loop'[l].found = rows'[loop'[l].row].pnl
      /\ loop'[l].pc = "store" => loop'[l].seen = Read(rows'[loop'[l].row])
  <2>1. CASE Finds(l)
    BY <2>1 DEF Finds, store
  <2>2. CASE Loads(l)
    BY <2>2 DEF Loads, store, BookInv
  <2> QED BY <2>1, <2>2
          DEF Moves, Fetches, Skips, Takes, Records, InsertsOrder, FindsNone, Drops, InsertsRow,
              Writes, Logs, Leaves
<1>4. CASE ~(InsertsRow(l) \/ Writes(l))
  <2>1. UNCHANGED applied
    BY <1>4 DEF Moves, Fetches, Skips, Takes, Records, InsertsOrder, FindsNone, Finds, Drops,
                Loads, Logs, store
  <2>2. DOMAIN rows' = DOMAIN rows /\ \A r \in DOMAIN rows : rows'[r].pnl = rows[r].pnl
    BY <1>2, <1>4, RowsMove
  <2> QED BY <1>1, <1>3, <2>1, <2>2 DEF BookInv, BookedAtMostOnce
<1>5. CASE InsertsRow(l) \/ Writes(l)
  <2>1. f \in FillId /\ applied[f] = 0
    BY <1>2, <1>5, InHand, Places DEF SyncInv, OnceInv
  <2>2. \A g \in FillId : applied'[g] = IF g = f THEN 1 ELSE applied[g]
    BY <1>2, <1>5, <2>1 DEF InsertsRow, Writes
  <2>3. \A r \in DOMAIN rows : rows[r].pnl[f] = 0
    BY <1>1, <2>1 DEF BookInv
  <2>4. CASE InsertsRow(l)
    <3>1. /\ DOMAIN rows' = DOMAIN rows \cup {f} /\ f \notin DOMAIN rows
          /\ \A g \in FillId : rows'[f].pnl[g] = 0
          /\ \A r \in DOMAIN rows : rows'[r] = rows[r]
      <4>1. rows'[f].pnl = NothingBooked /\ DOMAIN rows' = DOMAIN rows \cup {f}
            /\ \A r \in DOMAIN rows : rows'[r] = rows[r]
        BY <1>2, <2>4, RowsMove
      <4>2. \A g \in FillId : NothingBooked[g] = 0
        BY DEF NothingBooked
      <4> QED BY <2>4, <4>1, <4>2 DEF InsertsRow
    <3>2. BookedAtMostOnce'
      BY <3>1 DEF BookInv, BookedAtMostOnce
    <3>3. \A r \in DOMAIN rows', g \in FillId : rows'[r].pnl[g] > 0 => applied'[g] > 0
      BY <2>2, <3>1 DEF BookInv
    <3> QED BY <1>1, <1>3, <3>2, <3>3 DEF BookInv
  <2>5. CASE Writes(l)
    <3> DEFINE w == loop[l].row
    <3>1. /\ DOMAIN rows' = DOMAIN rows /\ w \in DOMAIN rows
          /\ \A r \in DOMAIN rows \ {w} : rows'[r] = rows[r]
      BY <1>2, <2>5, RowsMove, RowInHand DEF Writes
    <3>2. \A g \in FillId : rows'[w].pnl[g] = rows[w].pnl[g] \/ (g = f /\ rows'[w].pnl[g] = 1)
      BY <2>5, BookWrites
    <3> HIDE DEF w
    <3>3. BookedAtMostOnce'
      <4> SUFFICES ASSUME NEW g \in FillId, NEW r \in DOMAIN rows
                   PROVE  /\ rows'[r].pnl[g] <= 1
                          /\ \A s \in DOMAIN rows \ {r} :
                               rows'[r].pnl[g] = 0 \/ rows'[s].pnl[g] = 0
        BY <3>1 DEF BookedAtMostOnce
      <4>1. /\ rows[r].pnl[g] <= 1
            /\ \A s \in DOMAIN rows \ {r} : rows[r].pnl[g] = 0 \/ rows[s].pnl[g] = 0
        BY DEF BookInv, BookedAtMostOnce
      <4>2. rows'[r].pnl[g] <= 1
        BY <3>1, <3>2, <4>1
      <4>3. ASSUME NEW s \in DOMAIN rows \ {r}
            PROVE  rows'[r].pnl[g] = 0 \/ rows'[s].pnl[g] = 0
        <5>1. CASE g = f
          BY <2>3, <3>1, <5>1
        <5>2. CASE g # f
          BY <3>1, <3>2, <4>1, <5>2
        <5> QED BY <5>1, <5>2
      <4> QED BY <4>2, <4>3
    <3>4. \A r \in DOMAIN rows', g \in FillId : rows'[r].pnl[g] > 0 => applied'[g] > 0
      <4> SUFFICES ASSUME NEW r \in DOMAIN rows, NEW g \in FillId, rows'[r].pnl[g] > 0
                   PROVE  applied'[g] > 0
        BY <3>1
      <4>1. CASE g = f
        BY <2>1, <2>2, <4>1
      <4>2. CASE g # f
        <5>1. rows[r].pnl[g] > 0
          BY <3>1, <3>2, <4>2
        <5> QED BY <2>2, <4>2, <5>1 DEF BookInv
      <4> QED BY <4>1, <4>2
    <3> QED BY <1>1, <1>3, <3>3, <3>4 DEF BookInv
  <2> QED BY <1>5, <2>4, <2>5
<1> QED BY <1>4, <1>5

\* Without the sweep's closes, nobody else writes that row.
LEMMA BookStill ==
  ASSUME BookInv, Still, UNCHANGED rows, sweep'.pc = "idle"
  PROVE  BookInv'
<1>1. ASSUME NEW l \in Loops
      PROVE  /\ loop'[l].pc \in {"load", "store"} => loop'[l].found = rows'[loop'[l].row].pnl
             /\ loop'[l].pc = "store" => loop'[l].seen = Read(rows'[loop'[l].row])
  <2>1. CASE loop'[l] = IdleLoop
    BY <2>1 DEF IdleLoop
  <2>2. CASE loop'[l] = loop[l]
    BY <2>2 DEF BookInv
  <2> QED BY <2>1, <2>2 DEF Still
<1> QED BY <1>1 DEF Still, BookInv, BookedAtMostOnce

\* No row is found at first.
LEMMA BookInit == Init => BookInv
  BY DEF Init, BookInv, BookedAtMostOnce, IdleLoop, IdleSweep

\* Every step keeps the row found as it was.
LEMMA BookStep ==
  SkipsRecorded /\ ~Sweeping /\ SyncInv /\ BookInv /\ [Next]_vars => BookInv'
<1> SUFFICES ASSUME SkipsRecorded, ~Sweeping, SyncInv, BookInv, [Next]_vars PROVE BookInv'
  OBVIOUS
<1>1. ASSUME NEW l \in Loops, LoopStep(l) \/ CheckFails(l) \/ StepFails(l) PROVE BookInv'
  BY <1>1, MoveKinds, BookMoves DEF SyncInv
<1>2. CASE \/ \E k \in Keys, open \in BOOLEAN, q \in 1..MaxQty : Trade(k, open, q)
           \/ Tick \/ SweepStep \/ Crash \/ UNCHANGED vars
  BY <1>2, StillKinds, NoSweep, BookStill DEF SyncInv, BookInv
<1> QED BY <1>1, <1>2 DEF Next

\* Where nothing is swept, the PnL of a close enters the realized PnL of at most one
\* row, once, whatever statement fails and wherever the process crashes: handleClose
\* computes the total from the row it found and writes it two statements later.
THEOREM BookedOnce == SkipsRecorded /\ ~Sweeping => (Spec => []BookedAtMostOnce)
<1> SUFFICES ASSUME SkipsRecorded, ~Sweeping PROVE Spec => []BookedAtMostOnce
  OBVIOUS
<1>1. Init => SyncInv /\ BookInv
  BY SyncInit, BookInit
<1>2. SyncInv /\ BookInv /\ [Next]_vars => (SyncInv /\ BookInv)'
  BY SyncStep, BookStep
<1>3. BookInv => BookedAtMostOnce
  BY DEF BookInv
<1> QED BY <1>1, <1>2, <1>3, PTL DEF Spec

-----------------------------------------------------------------------------
(* No close is booked to a later position *)

\* Where a statement may fail, the fetch is incremental and what is fetched new;
\* elsewhere no older trade is missing.
LEMMA LatestMoves ==
  ASSUME InSymbolOrder, SyncInv, "step" \notin Faults => LeftInv, LatestInv,
         NEW l \in Loops, Moves(l)
  PROVE  LatestInv'
<1> DEFINE f == loop[l].cur
<1>1. UNCHANGED fills /\ (\A m \in Loops : m = l) /\ TypeInv /\ SkipsRecorded
  BY DEF Moves, exchange, InSymbolOrder, SkipsRecorded, SingleLoop, SyncInv
<1>2. CASE Takes(l)
  <2> DEFINE g == loop'[l].cur
  <2>1. /\ UNCHANGED orders /\ ~Recorded(l)' /\ g \in loop[l].todo /\ g \in Fetched
        /\ g \in Pending(l) /\ Working(l)'
    BY <1>1, <1>2, Places, InHand DEF Takes, store, Oldest, Pending, SkipsRecorded
  <2>2. CASE Incremental
    BY <1>1, <2>1, <2>2 DEF SyncInv, NewInv, LatestInv, Fresh, SameSymbol
  <2>3. CASE ~Incremental
    <3>1. g \notin orders /\ LeftInv
      BY <1>1, <1>2, <2>3 DEF Takes, InSymbolOrder, SkipsRecorded
    <3>2. ASSUME NEW h \in orders, SameSymbol(h, g)
          PROVE  h < g
      <4>1. h \in Nat /\ g \in Nat
        BY <2>1, InHand, <1>1 DEF SyncInv, TurnInv
      <4>2. SymbolOf[fills[g].key] = SymbolOf[fills[h].key]
        BY <3>2 DEF SameSymbol
      <4>3. g \in 1..h => g \in orders
        BY <3>1, <4>2 DEF LeftInv, NoTradeLeftBehind
      <4>4. g >= 1
        BY <2>1 DEF Fetched
      <4> QED BY <3>1, <4>1, <4>3, <4>4
    <3> QED BY <1>1, <2>1, <3>2 DEF LatestInv, Fresh, SameSymbol
  <2> QED BY <2>2, <2>3
<1>3. CASE Records(l)
  <2>1. f \notin orders
    BY <1>3, Places, <1>1 DEF SyncInv, NewInv
  <2> QED BY <1>1, <1>3, <2>1, Places DEF LatestInv, Records, Unmoved, store, Fresh, SameSymbol
<1>4. CASE InsertsOrder(l)
  <2>1. f \notin orders /\ f \in Nat
    BY <1>1, <1>4, Places, InHand DEF SyncInv, NewInv
  <2>2. Recorded(l)' /\ loop'[l].cur = f /\ orders' = orders \cup {f} /\ Fresh(f)
    BY <1>1, <1>4, <2>1, Places DEF InsertsOrder, Unmoved, LatestInv
  <2>3. orders \subseteq Nat
    BY <1>1, InHand DEF SyncInv, TurnInv
  <2>4. \A g \in orders' : SameSymbol(g, f) => g <= f
    BY <2>1, <2>2, <2>3 DEF Fresh
  <2> QED BY <1>1, <2>2, <2>4 DEF LatestInv, SameSymbol
<1>5. CASE Recorded(l) /\ Unmoved(l) /\ Recorded(l)' /\ UNCHANGED orders
  BY <1>1, <1>5 DEF LatestInv, Unmoved, SameSymbol
<1>6. CASE ~Working(l)'
  BY <1>1, <1>6, Places DEF LatestInv
<1>7. FindsNone(l) \/ Finds(l) \/ Loads(l) \/ Writes(l) => UNCHANGED orders
  BY DEF FindsNone, Finds, Loads, Writes, store
<1> QED BY <1>1, <1>2, <1>3, <1>4, <1>5, <1>6, <1>7, Places DEF Moves, Drops, InsertsRow, Logs

\* Only a goroutine applies or records what the latest trades are.
LEMMA LatestStill == ASSUME SyncInv, LatestInv, Still PROVE LatestInv'
<1> SUFFICES ASSUME NEW l \in Loops
             PROVE  /\ (Working(l) /\ ~Recorded(l) => Fresh(loop[l].cur))'
                    /\ (Recorded(l) => \A g \in orders :
                           SameSymbol(g, loop[l].cur) => g <= loop[l].cur)'
  BY DEF LatestInv
<1>1. CASE ~Working(l)'
  BY <1>1 DEF Recorded
<1>2. CASE Working(l)'
  <2>1. loop'[l] = loop[l]
    BY <1>2, StartsAgain DEF Still
  <2>2. Working(l) /\ (Recorded(l)' = Recorded(l)) /\ loop[l].cur \in Fetched
    BY <1>2, <2>1, InHand DEF Working, Recorded, SyncInv
  <2> QED BY <2>1, <2>2 DEF Still, LatestInv, Fresh, SameSymbol, SyncInv, TurnInv
<1> QED BY <1>1, <1>2

\* There is no latest trade at first.
LEMMA LatestInit == Init => LatestInv
  BY DEF Init, LatestInv, IdleLoop, Working, Recorded

\* A row of the goroutine's key is older than the trade it is closed with.
LEMMA RowIsEarlier ==
  ASSUME SyncInv, LatestInv, EarlierInv, NEW l \in Loops, Recorded(l), ~Cur(l).open,
         NEW r \in DOMAIN rows, fills[r].key = Cur(l).key
  PROVE  r < loop[l].cur
<1>1. r \in orders /\ r \in Nat /\ loop[l].cur \in Nat
  BY InHand, Places DEF SyncInv, TurnInv, TypeInv, TypeOK, Recorded
<1>2. r <= loop[l].cur
  BY <1>1 DEF LatestInv, SameSymbol, Cur
<1>3. r # loop[l].cur
  BY DEF EarlierInv, Cur
<1> QED BY <1>1, <1>2, <1>3

\* Booking a later close of its key.
LEMMA BookAfter ==
  ASSUME NEW fs, NEW pnl \in [FillId -> Nat], NEW r, After(fs, pnl, r), NEW F \in SUBSET FillId,
         \A f \in F : f \in 1..Len(fs) /\ r < f /\ fs[f].key = fs[r].key
  PROVE  After(fs, Book(pnl, F), r)
<1> SUFFICES ASSUME NEW f \in FillId, Book(pnl, F)[f] > 0
             PROVE  f \in 1..Len(fs) /\ r < f /\ fs[f].key = fs[r].key
  BY DEF After
<1>1. f \notin F => pnl[f] > 0
  BY DEF Book
<1> QED BY <1>1 DEF After

\* A goroutine books a trade to a row opened before it.
LEMMA EarlierMoves ==
  ASSUME InSymbolOrder, SyncInv, LatestInv, EarlierInv, NEW l \in Loops, Moves(l)
  PROVE  EarlierInv'
<1> DEFINE f == loop[l].cur
           r == loop[l].row
<1>1. /\ UNCHANGED <<fills, sweep>> /\ Fetched' = Fetched /\ (\A m \in Loops : m = l)
      /\ TypeInv /\ SkipsRecorded /\ \A x \in DOMAIN rows : rows[x].pnl \in [FillId -> Nat]
  BY DEF Moves, exchange, Fetched, InSymbolOrder, SkipsRecorded, SingleLoop, SyncInv, TypeInv,
         TypeOK, Row
<1>2. Working(l) => f \in Fetched /\ f \in FillId
  BY <1>1, InHand
<1>3. loop[l].pc \in {"load", "store", "log"} => r \in DOMAIN rows /\ Recorded(l)
  BY <1>1, RowInHand DEF Recorded, Working
<1>4. \A x \in DOMAIN rows' : /\ rows'[x].key = fills[x].key /\ fills[x].open
                              /\ After(fills, rows'[x].pnl, x)
  <2>1. CASE InsertsRow(l)
    <3>1. /\ DOMAIN rows' = DOMAIN rows \cup {f} /\ rows'[f].key = fills[f].key
          /\ rows'[f].pnl = NothingBooked /\ \A x \in DOMAIN rows : rows'[x] = rows[x]
          /\ f \notin DOMAIN rows
      <4>1. /\ DOMAIN rows' = DOMAIN rows \cup {f} /\ rows'[f].key = Cur(l).key
            /\ rows'[f].pnl = NothingBooked /\ \A x \in DOMAIN rows : rows'[x] = rows[x]
        BY <1>1, <2>1, RowsMove
      <4> QED BY <2>1, <4>1 DEF InsertsRow, Cur
    <3>2. fills[f].open /\ After(fills, NothingBooked, f)
      BY <2>1 DEF InsertsRow, EarlierInv, EarlierLoop, After, NothingBooked
    <3> QED BY <3>1, <3>2 DEF EarlierInv
  <2>2. CASE Writes(l)
    <3>1. /\ DOMAIN rows' = DOMAIN rows /\ rows'[r] = Updated(l) /\ loop[l].pc = "store"
          /\ \A x \in DOMAIN rows \ {r} : rows'[x] = rows[x]
      BY <1>1, <2>2, RowsMove DEF Writes
    <3>2. /\ EarlierLoop(loop[l], fills) /\ r \in DOMAIN rows
          /\ loop[l].found \in [FillId -> Nat] /\ loop[l].seen.pnl \in [FillId -> Nat]
      BY <1>1, <3>1, StoreFacts DEF EarlierInv, Columns
    <3>3. loop[l].op # "merge" => f \in 1..Len(fills) /\ r < f /\ fills[f].key = fills[r].key
      <4>1. loop[l].op # "merge" => ~Cur(l).open /\ fills[f].key = fills[r].key
        BY <3>1, <3>2 DEF EarlierLoop, Cur
      <4> QED BY <1>2, <1>3, <3>1, <3>2, <4>1, RowIsEarlier DEF Cur, Fetched, Recorded
    <3> HIDE DEF f, r
    <3>4. After(fills, rows'[r].pnl, r)
      <4>1. CASE loop[l].op = "merge"
        BY <1>1, <3>1, <3>2, <4>1, UpdatedPnl DEF EarlierInv, r
      <4>2. CASE loop[l].op = "full"
        <5>1. After(fills, loop[l].found, r)
          BY <3>1, <3>2 DEF EarlierLoop, r
        <5>2. After(fills, Book(loop[l].found, {f}), r)
          BY <1>2, <1>3, <3>1, <3>2, <3>3, <4>2, <5>1, BookAfter DEF Recorded
        <5> QED BY <1>1, <3>1, <4>2, <5>2, UpdatedPnl DEF f
      <4>3. CASE loop[l].op \in {"reduce", "late"}
        <5>1. After(fills, loop[l].seen.pnl, r)
          BY <3>1, <3>2 DEF EarlierLoop, r
        <5>2. After(fills, Book(loop[l].seen.pnl, {f}), r)
          BY <1>2, <1>3, <3>1, <3>2, <3>3, <4>3, <5>1, BookAfter DEF Recorded
        <5> QED BY <1>1, <3>1, <4>3, <5>2, UpdatedPnl DEF f
      <4> QED BY <1>1, <3>1, <4>1, <4>2, <4>3, UpdatedPnl
    <3>5. rows'[r].key = fills[r].key
      BY <1>1, <3>1, <3>2, UpdatedPnl DEF EarlierInv, r
    <3> QED BY <3>1, <3>2, <3>4, <3>5 DEF EarlierInv
  <2>3. CASE ~(InsertsRow(l) \/ Writes(l))
    <3>1. DOMAIN rows' = DOMAIN rows
          /\ \A x \in DOMAIN rows : rows'[x].key = rows[x].key /\ rows'[x].pnl = rows[x].pnl
      BY <1>1, <2>3, RowsMove
    <3> QED BY <3>1 DEF EarlierInv
  <2> QED BY <2>1, <2>2, <2>3
<1>5. \A p \in links' : p[1] \in Fetched /\ p[2] < p[1] /\ fills[p[1]].key = fills[p[2]].key
  <2>1. CASE Logs(l)
    <3>1. loop[l].pc = "log" /\ f \in Fetched /\ r \in DOMAIN rows /\ Recorded(l)
      BY <1>1, <1>2, <1>3, <2>1, Places DEF Logs
    <3>2. fills[f].key = fills[r].key /\ ~Cur(l).open
      BY <3>1 DEF EarlierInv, EarlierLoop, Cur
    <3>3. r < f
      BY <3>1, <3>2, RowIsEarlier DEF Cur
    <3>4. links' \subseteq links \cup {<<f, r>>}
      BY <2>1 DEF Logs
    <3>5. \A p \in links' : p \in links \/ (p[1] = f /\ p[2] = r)
      BY <3>4
    <3> HIDE DEF f, r
    <3> QED BY <3>1, <3>2, <3>3, <3>5 DEF EarlierInv
  <2>2. CASE ~Logs(l)
    <3>1. UNCHANGED links
      BY <2>2 DEF Moves, Fetches, Skips, Takes, Records, InsertsOrder, FindsNone, Finds, Drops,
                  InsertsRow, Loads, Writes, store
    <3> QED BY <3>1 DEF EarlierInv
  <2> QED BY <2>1, <2>2
<1>6. EarlierLoop(loop'[l], fills)
  <2>1. CASE Finds(l)
    <3> DEFINE w == loop'[l].row
    <3>1. /\ loop'[l].pc = "load" /\ loop'[l].cur = f /\ w \in DOMAIN rows
          /\ loop'[l].found = rows[w].pnl
      BY <2>1 DEF Finds, Unmoved
    <3>2. After(fills, rows[w].pnl, w) /\ rows[w].key = fills[w].key
      BY <3>1 DEF EarlierInv
    <3>3. \A x \in GetOpenPositionBySymbol(rows, Cur(l).key) : rows[x].key = Cur(l).key
      BY DEF GetOpenPositionBySymbol, NewestOf, OpenRows
    <3>4. fills[f].key = fills[w].key /\ (fills[f].open <=> loop'[l].op = "merge")
      <4>1. fills[f].key = fills[w].key
        BY <2>1, <3>2, <3>3 DEF Finds, Cur
      <4>2. loop[l].pc \in {"create", "insertRow"} => fills[f].open
        BY DEF EarlierInv, EarlierLoop
      <4>3. fills[f].open \in BOOLEAN
        BY <1>1, <1>2, <2>1, Places, FetchedOK DEF Fill
      <4>4. (loop'[l].op = "merge" /\ fills[f].open) \/ (loop'[l].op # "merge" /\ ~fills[f].open)
        <5>1. loop[l].pc \in {"lookup", "create", "insertRow"}
          BY <2>1 DEF Finds
        <5>2. CASE loop[l].pc = "lookup" => Cur(l).open
          <6>1. fills[f].open /\ Cur(l).open
            BY <4>2, <5>1, <5>2 DEF Cur
          <6>2. loop'[l].op = "merge"
            BY <2>1, <6>1 DEF Finds
          <6> QED BY <6>1, <6>2
        <5>3. CASE loop[l].pc = "lookup" /\ ~Cur(l).open
          <6>1. loop'[l].op \in {"reduce", "full", "late"}
            BY <2>1, <5>3 DEF Finds
          <6> QED BY <5>3, <6>1 DEF Cur
        <5> QED BY <5>2, <5>3
      <4> QED BY <4>1, <4>3, <4>4
    <3> HIDE DEF w, f
    <3> QED BY <3>1, <3>2, <3>4 DEF EarlierLoop, w
  <2>2. CASE FindsNone(l)
    <3>1. /\ loop'[l].pc \in {"create", "insertRow"} /\ loop'[l].cur = f
          /\ fills[f].open
      BY <2>2 DEF FindsNone, Unmoved, EarlierInv, EarlierLoop, Cur
    <3> QED BY <3>1 DEF EarlierLoop
  <2>3. CASE Loads(l)
    <3>1. /\ loop'[l].pc = "store" /\ loop'[l].cur = f /\ loop'[l].row = r
          /\ loop'[l].op = loop[l].op /\ loop'[l].found = loop[l].found
          /\ loop'[l].seen = Read(rows[r]) /\ loop[l].pc = "load" /\ r \in DOMAIN rows
      BY <1>3, <2>3 DEF Loads, Unmoved
    <3>2. Read(rows[r]).pnl = rows[r].pnl
      BY DEF Read
    <3>3. After(fills, rows[r].pnl, r) /\ EarlierLoop(loop[l], fills)
      BY <3>1 DEF EarlierInv
    <3> QED BY <3>1, <3>2, <3>3 DEF EarlierLoop
  <2>4. CASE Writes(l) /\ ~Leaves(l)
    <3>1. /\ loop'[l].pc = "log" /\ loop'[l].cur = f /\ loop'[l].row = r
          /\ loop'[l].op = loop[l].op /\ loop[l].op # "merge" /\ loop[l].pc = "store"
      BY <2>4 DEF Writes, Unmoved
    <3>2. EarlierLoop(loop[l], fills)
      BY DEF EarlierInv
    <3> QED BY <3>1, <3>2 DEF EarlierLoop
  <2>5. CASE loop'[l].pc \in {"idle", "check", "record", "insertOrder", "lookup"}
    BY <2>5 DEF EarlierLoop
  <2> QED BY <2>1, <2>2, <2>3, <2>4, <2>5
          DEF Moves, Fetches, Skips, Takes, Records, InsertsOrder, Drops, InsertsRow, Logs, Leaves
<1> QED BY <1>1, <1>4, <1>5, <1>6 DEF EarlierInv

\* What was true of earlier trades stays true when there are more.
LEMMA AfterGrows ==
  ASSUME NEW fs, NEW gs, NEW n \in Nat, NEW pnl, NEW r \in 1..n, n = Len(fs),
         1..n \subseteq 1..Len(gs), \A f \in 1..n : gs[f] = fs[f], After(fs, pnl, r)
  PROVE  After(gs, pnl, r)
  BY DEF After

\* What the sweep computes for a row are closes of its key after it.
LEMMA SweepAfter ==
  ASSUME InSymbolOrder, SyncInv, EarlierInv, NEW r \in DOMAIN rows, NEW seen \in Row
  PROVE  \A f \in ComputePnlFromFills(r, seen) :
           f \in FillId /\ f \in 1..Len(fills) /\ r < f /\ fills[f].key = fills[r].key
<1> SUFFICES ASSUME NEW f \in CloseOrders(r)
             PROVE  f \in FillId /\ f \in 1..Len(fills) /\ r < f /\ fills[f].key = fills[r].key
  BY DEF ComputePnlFromFills
<1>1. f \in orders /\ f \in Fetched /\ f \in FillId
  BY DEF CloseOrders, LinkedOrders, OnCloseSide, SyncInv, TurnInv, TypeInv, TypeOK
<1>2. CASE <<f, r>> \in links
  <2>1. <<f, r>>[1] = f /\ <<f, r>>[2] = r
    OBVIOUS
  <2> QED BY <1>1, <1>2, <2>1 DEF EarlierInv, Fetched
<1>3. CASE f \in OnCloseSide(r) /\ f > r
  <2>1. SymbolOf[fills[f].key] = SymbolOf[rows[r].key]
    BY <1>3 DEF OnCloseSide
  <2>2. fills[f].key \in Keys /\ rows[r].key \in Keys
    BY <1>1, FetchedOK DEF SyncInv, TypeInv, TypeOK, Fill, Row
  <2>3. fills[f].key = fills[r].key
    BY <2>1, <2>2 DEF InSymbolOrder, EarlierInv
  <2>4. r \in Nat /\ f \in Nat
    BY <1>1, InHand DEF Fetched, SyncInv, TypeInv, TypeOK, FillId
  <2> QED BY <1>1, <1>3, <2>3, <2>4 DEF Fetched
<1> QED BY <1>2, <1>3 DEF CloseOrders, LinkedOrders

\* Others: trades are added, rows are swept, the process starts again.
LEMMA EarlierStill ==
  ASSUME SyncInv, EarlierInv, Still,
         \A x \in DOMAIN rows : /\ rows'[x].key = rows[x].key
                                /\ After(fills, rows'[x].pnl, x),
         \A x \in DOMAIN sweep'.seen : x \in DOMAIN rows /\ After(fills, sweep'.seen[x].pnl, x)
  PROVE  EarlierInv'
<1>1. /\ Len(fills) \in Nat /\ Fetched = 1..Len(fills) /\ 1..Len(fills) \subseteq 1..Len(fills')
      /\ \A f \in 1..Len(fills) : fills'[f] = fills[f]
      /\ DOMAIN rows \subseteq 1..Len(fills)
  BY DEF SyncInv, TypeInv, TypeOK, TurnInv, Still, Fetched
<1>2. \A x \in DOMAIN rows' : /\ rows'[x].key = fills'[x].key /\ fills'[x].open
                              /\ After(fills', rows'[x].pnl, x)
  BY <1>1, AfterGrows DEF Still, EarlierInv
<1>3. \A x \in DOMAIN sweep'.seen : After(fills', sweep'.seen[x].pnl, x)
  BY <1>1, AfterGrows
<1>4. \A p \in links' : p[1] \in Fetched' /\ p[2] < p[1] /\ fills'[p[1]].key = fills'[p[2]].key
  <2> SUFFICES ASSUME NEW p \in links
               PROVE  p[1] \in Fetched' /\ p[2] < p[1] /\ fills'[p[1]].key = fills'[p[2]].key
    BY DEF Still
  <2>1. p[1] \in 1..Len(fills) /\ p[2] < p[1] /\ fills[p[1]].key = fills[p[2]].key
    BY <1>1 DEF EarlierInv
  <2>2. p[2] \in FillId
    BY DEF SyncInv, TypeInv, TypeOK
  <2>3. p[2] \in 1..Len(fills)
    BY <1>1, <2>1, <2>2, LedgerAssumption DEF FillId
  <2> QED BY <1>1, <2>1, <2>3 DEF Still
<1>5. \A l \in Loops : EarlierLoop(loop'[l], fills')
  <2> SUFFICES ASSUME NEW l \in Loops PROVE EarlierLoop(loop'[l], fills')
    OBVIOUS
  <2>1. CASE loop'[l] = IdleLoop
    BY <2>1 DEF IdleLoop, EarlierLoop
  <2>2. CASE loop'[l] = loop[l]
    <3> DEFINE st == loop[l]
    <3>1. EarlierLoop(st, fills)
      BY DEF EarlierInv
    <3>2. /\ st.pc \notin {"idle", "check"} => st.cur \in 1..Len(fills)
          /\ st.pc \in {"load", "store", "log"} => st.row \in 1..Len(fills)
      BY <1>1, InHand, RowInHand DEF Working, SyncInv
    <3> HIDE DEF st
    <3>3. EarlierLoop(st, fills')
      BY <1>1, <3>1, <3>2, AfterGrows DEF EarlierLoop
    <3> QED BY <2>2, <3>3 DEF st
  <2> QED BY <2>1, <2>2 DEF Still
<1> QED BY <1>2, <1>3, <1>4, <1>5 DEF EarlierInv

\* The sweep writes no booking of a later row.
LEMMA EarlierSweeps ==
  ASSUME InSymbolOrder, SyncInv, EarlierInv, SweepClose
  PROVE  EarlierInv'
<1>1. /\ TypeInv /\ UNCHANGED loop /\ Still
      /\ rows \in [DOMAIN rows -> Row]
      /\ \A x \in DOMAIN sweep.seen : x \in DOMAIN rows /\ sweep.seen[x] \in Row
  BY StillKinds, SweepCloseFacts DEF SyncInv, TypeInv, TypeOK, SweepStep
<1>2. PICK r \in NewestOf(DOMAIN sweep.seen) :
        \E generic \in IF CloseOrders(r) = {} THEN {TRUE} ELSE BOOLEAN :
          /\ rows' = [rows EXCEPT ![r] =
                        MarkAbsentClosed(@, sweep.seen[r],
                                         ComputePnlFromFills(r, sweep.seen[r]), generic, clock)]
          /\ sweep' = IF DOMAIN sweep.seen \ {r} = {} THEN IdleSweep
                      ELSE [pc |-> "close", snap |-> {},
                            seen |-> [s \in DOMAIN sweep.seen \ {r} |-> sweep.seen[s]]]
  BY DEF SweepClose
<1>3. r \in DOMAIN sweep.seen /\ r \in DOMAIN rows
  BY <1>1, <1>2 DEF NewestOf
<1> DEFINE fs == ComputePnlFromFills(r, sweep.seen[r])
           seen == sweep.seen[r]
<1>4. PICK generic : rows' = [rows EXCEPT ![r] = MarkAbsentClosed(rows[r], seen, fs, generic, clock)]
  BY <1>2
<1>5. /\ seen \in Row /\ rows[r] \in Row /\ fs \in SUBSET FillId
      /\ \A f \in fs : f \in 1..Len(fills) /\ r < f /\ fills[f].key = fills[r].key
  BY <1>1, <1>3, SweepAfter
<1> DEFINE new == MarkAbsentClosed(rows[r], seen, fs, generic, clock)
<1>6. new.key = rows[r].key /\ (new.pnl = rows[r].pnl \/ new.pnl = Book(seen.pnl, fs))
  <2> HIDE DEF seen, fs
  <2> QED BY <1>5 DEF MarkAbsentClosed, Row
<1>7. After(fills, Book(seen.pnl, fs), r)
  <2>1. After(fills, seen.pnl, r) /\ seen.pnl \in [FillId -> Nat]
    BY <1>3, <1>5 DEF EarlierInv, Row
  <2> HIDE DEF seen, fs
  <2> QED BY <1>5, <2>1, BookAfter
<1>8. rows'[r] = new /\ \A x \in DOMAIN rows \ {r} : rows'[x] = rows[x]
  BY <1>1, <1>3, <1>4
<1> HIDE DEF new, seen, fs
<1>9. \A x \in DOMAIN rows : rows'[x].key = rows[x].key /\ After(fills, rows'[x].pnl, x)
  <2> SUFFICES ASSUME NEW x \in DOMAIN rows
               PROVE  rows'[x].key = rows[x].key /\ After(fills, rows'[x].pnl, x)
    OBVIOUS
  <2>1. After(fills, rows[x].pnl, x)
    BY DEF EarlierInv
  <2> QED BY <1>6, <1>7, <1>8, <2>1
<1>10. \A x \in DOMAIN sweep'.seen : x \in DOMAIN sweep.seen /\ sweep'.seen[x] = sweep.seen[x]
  <2>1. CASE sweep' = IdleSweep
    BY <2>1, IdleSweepOK
  <2>2. CASE sweep' = [pc |-> "close", snap |-> {},
                       seen |-> [s \in DOMAIN sweep.seen \ {r} |-> sweep.seen[s]]]
    <3>1. sweep'.seen = [s \in DOMAIN sweep.seen \ {r} |-> sweep.seen[s]]
      BY <2>2
    <3> QED BY <3>1
  <2> QED BY <1>2, <2>1, <2>2
<1>11. \A x \in DOMAIN sweep'.seen : x \in DOMAIN rows /\ After(fills, sweep'.seen[x].pnl, x)
  BY <1>1, <1>10 DEF EarlierInv
<1> QED BY <1>1, <1>9, <1>11, EarlierStill

\* Nor does a trade, the time or a crash.
LEMMA EarlierOthers ==
  ASSUME SyncInv, EarlierInv,
         \/ \E k \in Keys, open \in BOOLEAN, q \in 1..MaxQty : Trade(k, open, q)
         \/ Tick \/ SweepFetch \/ SweepList \/ Crash \/ UNCHANGED vars
  PROVE  EarlierInv'
<1>1. Still /\ UNCHANGED rows
  <2>1. Still
    BY StillKinds DEF SyncInv, SweepStep
  <2>2. UNCHANGED rows
    BY DEF Trade, Tick, SweepFetch, SweepList, Crash, vars, store
  <2> QED BY <2>1, <2>2
<1>2. \A x \in DOMAIN rows : /\ rows'[x].key = rows[x].key
                             /\ After(fills, rows'[x].pnl, x)
  BY <1>1 DEF EarlierInv
<1>3. \A x \in DOMAIN sweep'.seen : x \in DOMAIN rows /\ After(fills, sweep'.seen[x].pnl, x)
  <2>1. CASE UNCHANGED sweep
    BY <2>1 DEF EarlierInv, SyncInv, TypeInv, TypeOK
  <2>2. CASE SweepFetch
    <3>1. DOMAIN sweep'.seen = {}
      <4>1. PICK S : sweep' = [pc |-> "list", snap |-> S, seen |-> <<>>]
        BY <2>2 DEF SweepFetch
      <4> QED BY <4>1
    <3> QED BY <3>1
  <2>3. CASE sweep' = IdleSweep
    BY <2>3, IdleSweepOK
  <2>4. CASE SweepList
    <3>1. PICK absent : /\ absent = ToClose({r \in AllOpen : rows[r].key \notin sweep.snap})
                        /\ sweep' = IF absent = {} THEN IdleSweep
                                    ELSE [pc |-> "close", snap |-> {}, seen |-> [r \in absent |-> rows[r]]]
      BY <2>4 DEF SweepList
    <3>2. absent \subseteq DOMAIN rows
      BY <3>1 DEF ToClose, AllOpen
    <3>3. CASE absent # {}
      <4>1. sweep'.seen = [r \in absent |-> rows[r]]
        BY <3>1, <3>3
      <4> QED BY <3>2, <4>1 DEF EarlierInv
    <3> QED BY <2>3, <3>1, <3>3
  <2> QED BY <2>1, <2>2, <2>3, <2>4 DEF Trade, Tick, Crash, vars
<1> QED BY <1>1, <1>2, <1>3, EarlierStill

\* Nothing is booked at first.
LEMMA EarlierInit == Init => EarlierInv
<1> SUFFICES ASSUME Init PROVE EarlierInv
  OBVIOUS
<1>1. DOMAIN rows = {} /\ DOMAIN sweep.seen = {} /\ links = {}
  BY IdleSweepOK DEF Init
<1>2. \A l \in Loops : EarlierLoop(loop[l], fills)
  BY DEF Init, IdleLoop, EarlierLoop
<1> QED BY <1>1, <1>2 DEF EarlierInv

BookingInv == /\ SyncInv /\ LatestInv /\ EarlierInv
              /\ "step" \notin Faults => LeftInv

\* Bookings to earlier entries are inductive, with the latest trades.
LEMMA BookingStep == InSymbolOrder /\ BookingInv /\ [Next]_vars => BookingInv'
<1> SUFFICES ASSUME InSymbolOrder, BookingInv, [Next]_vars PROVE BookingInv'
  OBVIOUS
<1>1. SyncInv' /\ ("step" \notin Faults => LeftInv')
  BY SyncStep, LeftStep DEF BookingInv, InSymbolOrder, SyncInv
<1>2. LatestInv'
  BY StepKinds, LatestMoves, LatestStill DEF BookingInv, SyncInv
<1>3. EarlierInv'
  <2>1. ASSUME NEW l \in Loops, LoopStep(l) \/ CheckFails(l) \/ StepFails(l) PROVE EarlierInv'
    BY <2>1, MoveKinds, EarlierMoves DEF BookingInv, SyncInv
  <2>2. CASE SweepClose
    BY <2>2, EarlierSweeps DEF BookingInv
  <2>3. CASE \/ \E k \in Keys, open \in BOOLEAN, q \in 1..MaxQty : Trade(k, open, q)
             \/ Tick \/ SweepFetch \/ SweepList \/ Crash \/ UNCHANGED vars
    BY <2>3, EarlierOthers DEF BookingInv
  <2> QED BY <2>1, <2>2, <2>3 DEF Next, SweepStep
<1> QED BY <1>1, <1>2, <1>3 DEF BookingInv

\* Where trades of a symbol are recorded in their order, each key is a symbol of its
\* own and recorded trades are skipped, a close is only ever booked to a position of
\* its key that was opened before it, by the goroutine, by its late-fill fallback,
\* and by the sweep, which books the linked orders or those after the entry.
THEOREM BookedToItsPosition == InSymbolOrder => (Spec => []BookedToAnEarlierEntry)
<1> SUFFICES ASSUME InSymbolOrder PROVE Spec => []BookedToAnEarlierEntry
  OBVIOUS
<1>1. Init => BookingInv
  BY SyncInit, LatestInit, EarlierInit, LeftInit DEF BookingInv
<1>2. BookingInv /\ [Next]_vars => BookingInv'
  BY BookingStep
<1>3. BookingInv => BookedToAnEarlierEntry
  BY DEF BookingInv, EarlierInv, After, BookedToAnEarlierEntry, Fetched
<1> QED BY <1>1, <1>2, <1>3, PTL DEF Spec

-----------------------------------------------------------------------------
(* The rows go from one prefix of the trades to the next *)

\* The invariant of a run in which nothing fails halfway.
OrderlyInv == SyncInv /\ BookInv /\ OpenInv

\* The trade being applied is the one after the prefix.
LEMMA InTurn ==
  ASSUME SyncInv, NEW d, Prefix(d), NEW l \in Loops, Applying(l)
  PROVE  /\ d \in Nat /\ loop[l].cur = d + 1 /\ orders = 1..(d + 1)
         /\ d + 1 \in Fetched /\ d + 1 \in FillId
<1>1. d \in Nat /\ orders = 1..(d + 1)
  BY DEF Prefix, SyncInv, TypeInv, TypeOK
<1>2. loop[l].cur \in orders /\ loop[l].cur \in Fetched /\ loop[l].cur \in FillId
  BY InHand DEF SyncInv, TurnInv, Applying, Recorded
<1>3. loop[l].cur \notin 1..d
  BY <1>2 DEF SyncInv, OnceInv, Prefix, Applied
<1>4. loop[l].cur = d + 1
  BY <1>1, <1>2, <1>3
<1> QED BY <1>1, <1>2, <1>4

\* A close in turn finds the position it closes.
LEMMA CloseFinds ==
  ASSUME SyncInv, OpenInv, NEW d, NEW h, Prefix(d), Balance(h), Shows(h[d]),
         NEW l \in Loops, Applying(l), ~Cur(l).open
  PROVE  /\ Cur(l).qty <= h[d][Cur(l).key]
         /\ GetOpenPositionBySymbol(rows, Cur(l).key) # {}
<1>1. d \in Nat /\ d + 1 \in Fetched /\ Cur(l) = fills[d + 1] /\ Cur(l) \in Fill
  BY InTurn, FetchedOK DEF Cur, SyncInv
<1>2. Cur(l).qty <= h[d][Cur(l).key]
  <2>1. (d + 1) - 1 = d
    BY <1>1
  <2>2. fills[d + 1].qty <= h[(d + 1) - 1][fills[d + 1].key]
    BY <1>1 DEF Balance
  <2> QED BY <1>1, <2>1, <2>2
<1>3. Cur(l).key \in Keys /\ Cur(l).qty \in Nat \ {0}
  BY <1>1 DEF Fill
<1>4. ASSUME GetOpenPositionBySymbol(rows, Cur(l).key) = {} PROVE FALSE
  <2>1. OpenRows(rows, Cur(l).key) = {}
    BY <1>3, <1>4, NewestFound DEF SyncInv, OpenInv
  <2>2. h[d][Cur(l).key] = 0
    BY <1>3, <2>1 DEF Shows
  <2> QED BY <1>2, <1>3, <2>2
<1> QED BY <1>2, <1>4

\* So no trade is given up.
LEMMA NothingDropped ==
  ASSUME InOrder, SyncInv, OpenInv, NEW d, NEW h, Prefix(d), Balance(h), Shows(h[d]),
         NEW l \in Loops, Moves(l)
  PROVE  ~Drops(l)
<1> SUFFICES ASSUME Drops(l) PROVE FALSE
  OBVIOUS
<1>1. "step" \notin Faults /\ TypeInv
  BY DEF InOrder, SyncInv
<1>2. Applying(l)
  BY <1>1, Places
<1>3. CASE loop[l].pc = "lookup" /\ ~Cur(l).open /\ GetOpenPositionBySymbol(rows, Cur(l).key) = {}
  BY <1>2, <1>3, CloseFinds
<1>4. CASE loop[l].cur \in DOMAIN rows
  BY <1>2, <1>4 DEF SyncInv, TurnInv, OnceInv
<1>5. CASE loop[l].pc = "load" /\ loop[l].op = "late"
  <2>1. loop[l].op = IF Cur(l).open THEN "merge"
                     ELSE IF Cur(l).qty < rows[loop[l].row].qty THEN "reduce" ELSE "full"
    BY <1>5 DEF Prefix
  <2> QED BY <1>5, <2>1
<1> QED BY <1>1, <1>3, <1>4, <1>5 DEF Drops

\* What is fetched or left to do has no gap after what is recorded.
LEMMA NoGap ==
  ASSUME InOrder, SyncInv, NEW d, Prefix(d), NEW l \in Loops, Moves(l), ~Drops(l),
         NEW g \in loop'[l].todo, NEW f \in 1..g
  PROVE  f \in orders' \cup loop'[l].todo
<1>1. /\ d \in Nat /\ Len(fills) \in Nat /\ d <= Len(fills) /\ TypeInv
      /\ \A m \in Loops : m = l
  BY DEF Prefix, SyncInv, TypeInv, TypeOK, InOrder, SkipsRecorded, SingleLoop
<1>2. CASE Fetches(l)
  <2>1. orders = 1..d /\ orders' = orders
    <3>1. ~Applying(l)
      BY <1>1, <1>2, Places DEF Applying, Recorded
    <3>2. ~\E m \in Loops : Applying(m)
      BY <1>1, <3>1
    <3> QED BY <1>2, <3>2 DEF Prefix, Fetches, store
  <2>2. g \in 1..Len(fills)
    BY <1>2 DEF Fetches, NewIds, Fetched
  <2>3. f \in Nat /\ f \in 1..Len(fills)
    BY <1>1, <2>2
  <2>4. CASE ~Incremental
    BY <1>2, <2>3, <2>4 DEF Fetches, Fetched
  <2>5. CASE Incremental /\ f > d
    <3>1. f \in NewIds
      BY <1>1, <2>1, <2>3, <2>5 DEF NewIds, Fetched
    <3> QED BY <1>2, <2>5, <3>1 DEF Fetches
  <2> QED BY <1>1, <2>1, <2>3, <2>4, <2>5
<1>3. CASE ~Fetches(l)
  <2>1. /\ orders \subseteq orders' /\ loop'[l].todo \subseteq loop[l].todo
        /\ loop[l].todo \subseteq loop'[l].todo \cup orders'
    BY <1>1, <1>3, TodoMoves DEF InOrder, SyncInv
  <2> QED BY <2>1 DEF Prefix
<1> QED BY <1>2, <1>3

\* The INSERT of an order records the trade after the prefix.
LEMMA RecordedInTurn ==
  ASSUME InOrder, SyncInv, NEW d, Prefix(d), NEW l \in Loops, Moves(l), InsertsOrder(l)
  PROVE  orders' = 1..(d + 1) /\ Applying(l)' /\ loop'[l].pc = "lookup"
<1> DEFINE f == loop[l].cur
<1>1. /\ d \in Nat /\ Len(fills) \in Nat /\ d <= Len(fills) /\ TypeInv
      /\ \A m \in Loops : m = l
  BY DEF Prefix, SyncInv, TypeInv, TypeOK, InOrder, SkipsRecorded, SingleLoop
<1>2. f \notin orders /\ f \in Oldest(loop[l].todo) /\ f \in Fetched /\ ~Applying(l)
  BY <1>1, Places, InHand DEF SyncInv, NewInv, TurnInv, Applying
<1>3. orders = 1..d
  <2>1. ~\E m \in Loops : Applying(m)
    BY <1>1, <1>2
  <2> QED BY <2>1 DEF Prefix
<1>4. f \in Nat /\ f > d /\ d + 1 \in 1..f
  BY <1>1, <1>2, <1>3 DEF Fetched
<1>5. d + 1 \in loop[l].todo
  <2>1. d + 1 \in orders \cup loop[l].todo
    BY <1>2, <1>4 DEF Prefix, Oldest
  <2> QED BY <1>1, <1>3, <2>1
<1>6. f = d + 1
  BY <1>1, <1>2, <1>4, <1>5 DEF Oldest
<1> HIDE DEF f
<1>7. orders' = orders \cup {f}
  BY DEF InsertsOrder, f
<1>8. Applying(l)' /\ loop'[l].pc = "lookup"
  BY <1>1, <1>2, Places DEF InsertsOrder, f
<1> QED BY <1>1, <1>3, <1>6, <1>7, <1>8

\* A step that applies no trade: the prefix stays, and so does what is shown of it.
LEMMA OrderRests ==
  ASSUME InOrder, OrderlyInv, NEW d, NEW h, Prefix(d), Balance(h), Shows(h[d]),
         NEW l \in Loops, Moves(l), ~(InsertsRow(l) \/ Writes(l))
  PROVE  Prefix(d)' /\ Shows(h[d])' /\ UNCHANGED Booked
<1> DEFINE f == loop[l].cur
<1>1. /\ UNCHANGED <<fills, live>> /\ Fetched' = Fetched /\ (\A m \in Loops : m = l) /\ TypeInv
      /\ ~RetryExisting /\ SyncInv /\ OpenInv /\ ~Drops(l)
  BY NothingDropped
  DEF Moves, exchange, Fetched, InOrder, SkipsRecorded, SingleLoop, SyncInv, OrderlyInv
<1>2. UNCHANGED applied
  BY DEF Moves, Fetches, Skips, Takes, Records, InsertsOrder, FindsNone, Finds, Drops, Loads,
         Logs, store
<1>3. /\ DOMAIN rows' = DOMAIN rows
      /\ \A r \in DOMAIN rows : /\ rows'[r].key = rows[r].key /\ rows'[r].status = rows[r].status
                                /\ rows'[r].qty = rows[r].qty /\ rows'[r].pnl = rows[r].pnl
  <2>1. CASE Logs(l)
    <3>1. rows \in [DOMAIN rows -> Row] /\ loop[l].row \in DOMAIN rows
      BY <1>1, <2>1, RowInHand DEF Logs, TypeInv, TypeOK
    <3> QED BY <2>1, <3>1 DEF Logs, LogCloseEvent, Row
  <2>2. CASE ~Logs(l)
    BY <1>1, <2>2, RowsMove
  <2> QED BY <2>1, <2>2
<1>4. \A k : OpenRows(rows', k) = OpenRows(rows, k)
  BY <1>3 DEF OpenRows
<1>5. Shows(h[d])'
  BY <1>3, <1>4 DEF Shows, OpenRows
<1>6. orders' = IF Applying(l)' THEN 1..(d + 1) ELSE 1..d
  <2>1. CASE InsertsOrder(l)
    BY <1>1, <2>1, RecordedInTurn
  <2>2. CASE ~InsertsOrder(l)
    <3>1. UNCHANGED orders
      BY <2>2 DEF Moves, Fetches, Skips, Takes, Records, FindsNone, Finds, Drops, InsertsRow,
                  Loads, Writes, Logs, store
    <3>2. Applying(l)' <=> Applying(l)
      <4>1. CASE Fetches(l) \/ Skips(l) \/ Takes(l) \/ Logs(l)
        BY <1>1, <4>1, Places DEF Logs
      <4>2. CASE Records(l)
        BY <1>1, <4>2, Places DEF SyncInv, NewInv
      <4>3. CASE FindsNone(l) \/ Finds(l) \/ Loads(l)
        BY <1>1, <4>3, Places
      <4> QED BY <1>1, <2>2, <4>1, <4>2, <4>3 DEF Moves
    <3>3. (\E m \in Loops : Applying(m)) <=> Applying(l)
      BY <1>1
    <3> QED BY <3>1, <3>2, <3>3 DEF Prefix
  <2> QED BY <2>1, <2>2
<1>7. loop'[l].pc \in {"create", "insertRow"} =>
        Cur(l)'.open /\ OpenRows(rows', Cur(l)'.key) = {}
  <2> SUFFICES ASSUME loop'[l].pc \in {"create", "insertRow"}
               PROVE  Cur(l)'.open /\ OpenRows(rows', Cur(l)'.key) = {}
    OBVIOUS
  <2>1. FindsNone(l)
    BY <1>1 DEF Moves, Fetches, Skips, Takes, Records, InsertsOrder, FindsNone, Finds, InsertsRow,
                Loads, Writes, Logs, Leaves
  <2>2. Cur(l)' = Cur(l) /\ Cur(l).open
    BY <1>1, <2>1 DEF FindsNone, Unmoved, Cur, Prefix
  <2>3. Cur(l).key \in Keys
    BY <1>1, <2>1, Places, InHand, FetchedOK DEF Cur, Fill
  <2>4. OpenRows(rows, Cur(l).key) = {}
    BY <1>1, <2>1, <2>3, NewestFound DEF FindsNone, OpenInv
  <2> QED BY <1>4, <2>2, <2>4
<1>8. loop'[l].pc \in {"load", "store"} =>
        /\ loop'[l].row \in OpenRows(rows', Cur(l)'.key)
        /\ loop'[l].op = IF Cur(l)'.open THEN "merge"
                         ELSE IF Cur(l)'.qty < rows'[loop'[l].row].qty THEN "reduce" ELSE "full"
  <2> SUFFICES ASSUME loop'[l].pc \in {"load", "store"}
               PROVE  /\ loop'[l].row \in OpenRows(rows', Cur(l)'.key)
                      /\ loop'[l].op = IF Cur(l)'.open THEN "merge"
                           ELSE IF Cur(l)'.qty < rows'[loop'[l].row].qty THEN "reduce" ELSE "full"
    OBVIOUS
  <2>1. Finds(l) \/ Loads(l)
    BY <1>1 DEF Moves, Fetches, Skips, Takes, Records, InsertsOrder, FindsNone, Finds, InsertsRow,
                Loads, Writes, Logs, Leaves
  <2>2. Cur(l)' = Cur(l) /\ UNCHANGED rows
    BY <1>1, <2>1 DEF Finds, Loads, Unmoved, Cur, store
  <2>3. CASE Loads(l)
    BY <2>2, <2>3 DEF Loads, Prefix
  <2>4. CASE Finds(l)
    <3>1. Applying(l) /\ f \notin DOMAIN rows
      BY <1>1, <2>4, Places DEF SyncInv, TurnInv, OnceInv
    <3>2. \A r \in GetOpenPositionBySymbol(rows, Cur(l).key) : r \in OpenRows(rows, Cur(l).key)
      BY DEF GetOpenPositionBySymbol, NewestOf
    <3>3. CASE Cur(l).open
      <4>1. /\ loop'[l].op = "merge"
            /\ loop'[l].row \in GetOpenPositionBySymbol(rows, Cur(l).key)
        BY <2>4, <3>1, <3>3 DEF Finds
      <4> QED BY <2>2, <3>2, <3>3, <4>1
    <3>4. CASE ~Cur(l).open
      <4>1. loop[l].pc = "lookup"
        BY <2>4, <3>4 DEF Finds, Prefix
      <4>2. GetOpenPositionBySymbol(rows, Cur(l).key) # {}
        BY <1>1, <3>1, <3>4, CloseFinds
      <4>3. /\ loop'[l].op = IF Cur(l).qty < rows[loop'[l].row].qty THEN "reduce" ELSE "full"
            /\ loop'[l].row \in GetOpenPositionBySymbol(rows, Cur(l).key)
        BY <2>4, <3>4, <4>1, <4>2 DEF Finds
      <4> QED BY <2>2, <3>2, <3>4, <4>3
    <3> QED BY <3>3, <3>4
  <2> QED BY <2>1, <2>3, <2>4
<1>9. \A g \in loop'[l].todo : \A x \in 1..g : x \in orders' \cup loop'[l].todo
  BY <1>1, NoGap
<1>10. Applied' = 1..d /\ d \in 0..Len(fills')
  BY <1>1, <1>2 DEF Prefix, Applied
<1>11. \A x \in 1..d : ~fills'[x].open => \E r \in DOMAIN rows' : rows'[r].pnl[x] > 0
  BY <1>1, <1>3 DEF Prefix
<1>12. Prefix(d)'
  BY <1>1, <1>6, <1>7, <1>8, <1>9, <1>10, <1>11 DEF Prefix
<1>13. UNCHANGED Booked
  BY <1>3 DEF Booked
<1> QED BY <1>5, <1>12, <1>13

\* The position after one trade more.
LEMMA NextBalance ==
  ASSUME NEW d, NEW h, Balance(h), d \in Nat, d + 1 \in Fetched, Len(fills) \in Nat,
         fills[d + 1].key \in Keys
  PROVE  LET t == fills[d + 1]
         IN /\ h[d] \in [Keys -> Nat] /\ h[d + 1] \in [Keys -> Nat]
            /\ t.open => h[d + 1][t.key] = h[d][t.key] + t.qty
            /\ ~t.open => t.qty <= h[d][t.key] /\ h[d + 1][t.key] = h[d][t.key] - t.qty
            /\ \A k \in Keys \ {t.key} : h[d + 1][k] = h[d][k]
<1> DEFINE t == fills[d + 1]
<1>1. /\ (d + 1) - 1 = d /\ d \in 0..Len(fills) /\ d + 1 \in 0..Len(fills)
      /\ h \in [0..Len(fills) -> [Keys -> Nat]]
  BY DEF Fetched, Balance
<1>2. h[d] \in [Keys -> Nat] /\ h[d + 1] \in [Keys -> Nat]
  BY <1>1
<1>3. IF t.open THEN h[d + 1] = [h[d] EXCEPT ![t.key] = @ + t.qty]
      ELSE t.qty <= h[d][t.key] /\ h[d + 1] = [h[d] EXCEPT ![t.key] = @ - t.qty]
  <2>1. \A i \in Fetched :
          LET u == fills[i]
          IN IF u.open THEN h[i] = [h[i - 1] EXCEPT ![u.key] = @ + u.qty]
             ELSE u.qty <= h[i - 1][u.key] /\ h[i] = [h[i - 1] EXCEPT ![u.key] = @ - u.qty]
    BY DEF Balance
  <2> QED BY <1>1, <2>1
<1> HIDE DEF t
<1>4. t.key \in Keys
  BY DEF t
<1>5. CASE t.open
  BY <1>2, <1>3, <1>4, <1>5 DEF t
<1>6. CASE ~t.open
  BY <1>2, <1>3, <1>4, <1>6 DEF t
<1> QED BY <1>5, <1>6

\* The row about to be written is the position of its key, and what is written is
\* the position after the trade.
LEMMA Writing ==
  ASSUME OrderlyInv, NEW d, NEW h, Prefix(d), Balance(h), Shows(h[d]),
         NEW l \in Loops, Moves(l), Writes(l)
  PROVE  /\ OpenRows(rows, Cur(l).key) = {loop[l].row}
         /\ Updated(l).key = Cur(l).key
         /\ IF h[d + 1][Cur(l).key] = 0 THEN Updated(l).status = "CLOSED"
            ELSE /\ Updated(l).status = "OPEN" /\ Updated(l).qty = h[d + 1][Cur(l).key]
                 /\ h[d + 1][Cur(l).key] > 0
         /\ Cur(l).open <=> loop[l].op = "merge"
<1> DEFINE r == loop[l].row
           k == Cur(l).key
           q == Cur(l).qty
           n == h[d][k]
<1>1. /\ TypeInv /\ loop[l].pc = "store" /\ Applying(l) /\ Len(fills) \in Nat
      /\ rows[r] \in Row /\ loop[l].cur \in Fetched
  <2>1. TypeInv /\ loop[l].pc = "store"
    BY DEF OrderlyInv, SyncInv, Writes
  <2> QED BY <2>1, Places, StoreFacts DEF TypeInv, TypeOK
<1>2. /\ d \in Nat /\ d + 1 \in Fetched /\ Cur(l) = fills[d + 1]
      /\ k \in Keys /\ q \in Nat \ {0} /\ Cur(l).open \in BOOLEAN
  BY <1>1, InTurn, FetchedOK DEF Cur, Fill, OrderlyInv
<1>3. /\ r \in OpenRows(rows, k)
      /\ loop[l].op = IF Cur(l).open THEN "merge" ELSE IF q < rows[r].qty THEN "reduce" ELSE "full"
  BY <1>1 DEF Prefix
<1>4. OpenRows(rows, k) = {r} /\ rows[r].qty = n /\ rows[r].status = "OPEN" /\ rows[r].key = k
  BY <1>2, <1>3 DEF OrderlyInv, OpenInv, OneOpenRowPerKey, Shows, OpenRows
<1>5. loop[l].seen.qty = n
  <2>1. loop[l].seen = Read(rows[r])
    BY <1>1 DEF OrderlyInv, BookInv
  <2>2. Read(rows[r]).qty = rows[r].qty
    BY DEF Read
  <2> QED BY <1>4, <2>1, <2>2
<1>6. /\ n \in Nat
      /\ Cur(l).open => h[d + 1][k] = n + q
      /\ ~Cur(l).open => q <= n /\ h[d + 1][k] = n - q
  <2>1. h[d] \in [Keys -> Nat]
    BY <1>1, <1>2, NextBalance
  <2>2. /\ Cur(l).open => h[d + 1][k] = n + q
        /\ ~Cur(l).open => q <= n /\ h[d + 1][k] = n - q
    BY <1>1, <1>2, NextBalance
  <2> QED BY <1>2, <2>1, <2>2
<1>7. CASE loop[l].op = "merge"
  <2>1. Updated(l) = UpdatePositionQuantityAndPrice(rows[r], loop[l].seen, q)
    BY <1>7 DEF Updated
  <2>2. Updated(l).key = k /\ Updated(l).status = "OPEN" /\ Updated(l).qty = n + q
    BY <1>1, <1>4, <1>5, <2>1 DEF UpdatePositionQuantityAndPrice, Row
  <2>3. Cur(l).open
    BY <1>3, <1>7
  <2> QED BY <1>2, <1>4, <1>6, <1>7, <2>2, <2>3
<1>8. CASE loop[l].op = "reduce"
  <2>1. Updated(l) = ReducePositionQuantity(rows[r], loop[l].seen, q, loop[l].cur, clock)
    BY <1>8 DEF Updated
  <2>2. ~Cur(l).open /\ q < n
    BY <1>3, <1>4, <1>8
  <2>3. Updated(l).key = k /\ Updated(l).status = "OPEN" /\ Updated(l).qty = n - q
    BY <1>1, <1>2, <1>4, <1>5, <1>6, <2>1, <2>2 DEF ReducePositionQuantity, Row
  <2> QED BY <1>2, <1>4, <1>6, <1>8, <2>2, <2>3
<1>9. CASE loop[l].op = "full"
  <2>1. Updated(l) = ClosePositionFully(rows[r], loop[l].seen, loop[l].found, loop[l].cur, Cur(l).time)
    BY <1>9 DEF Updated
  <2>2. ~Cur(l).open /\ ~(q < n)
    BY <1>3, <1>4, <1>9
  <2>3. Updated(l).key = k /\ Updated(l).status = "CLOSED"
    BY <1>1, <1>4, <2>1 DEF ClosePositionFully, Row
  <2>4. h[d + 1][k] = 0
    BY <1>2, <1>6, <2>2
  <2> QED BY <1>2, <1>4, <1>9, <2>2, <2>3, <2>4
<1> QED BY <1>3, <1>7, <1>8, <1>9

\* What the rows show after a trade is applied is the position after that trade.
LEMMA ShowsNext ==
  ASSUME InOrder, OrderlyInv, NEW d, NEW h, Prefix(d), Balance(h), Shows(h[d]),
         NEW l \in Loops, Moves(l), InsertsRow(l) \/ Writes(l)
  PROVE  /\ Shows(h[d + 1])'
         /\ Cur(l).open => UNCHANGED Booked
         /\ ~Cur(l).open => Booked' = Booked \cup {d + 1}
<1> DEFINE f == loop[l].cur
           r == loop[l].row
           k == Cur(l).key
           p == h[d]
           s == h[d + 1]
<1>1. /\ TypeInv /\ SyncInv /\ BookInv /\ OpenInv /\ Applying(l) /\ Len(fills) \in Nat
      /\ rows \in [DOMAIN rows -> Row]
  BY Places DEF OrderlyInv, SyncInv, TypeInv, TypeOK
<1>2. /\ d \in Nat /\ d + 1 \in Fetched /\ f = d + 1 /\ f \in FillId /\ Cur(l) = fills[d + 1]
      /\ k \in Keys /\ Cur(l).qty \in Nat \ {0} /\ Cur(l).open \in BOOLEAN
  BY <1>1, InTurn, FetchedOK DEF Cur, Fill
<1>3. /\ p \in [Keys -> Nat] /\ s \in [Keys -> Nat]
      /\ Cur(l).open => s[k] = p[k] + Cur(l).qty
      /\ \A j \in Keys \ {k} : s[j] = p[j]
  BY <1>1, <1>2, NextBalance
<1>4. \A j \in Keys : /\ OpenRows(rows, j) = {} => p[j] = 0
                      /\ \A x \in OpenRows(rows, j) : rows[x].qty = p[j] /\ p[j] > 0
  BY DEF Shows
<1>5. CASE InsertsRow(l)
  <2>1. loop[l].pc = "insertRow" /\ Cur(l).open /\ OpenRows(rows, k) = {}
    BY <1>5 DEF InsertsRow, Prefix
  <2>2. /\ DOMAIN rows' = DOMAIN rows \cup {f} /\ f \notin DOMAIN rows
        /\ rows'[f] = NewRow(k, Cur(l).qty) /\ \A x \in DOMAIN rows : rows'[x] = rows[x]
    BY <1>5 DEF InsertsRow
  <2>3. /\ rows'[f].key = k /\ rows'[f].qty = Cur(l).qty /\ rows'[f].status = "OPEN"
        /\ rows'[f].pnl = NothingBooked
    BY <2>2 DEF NewRow
  <2>4. OpenRows(rows', k) = {f} /\ \A j \in Keys \ {k} : OpenRows(rows', j) = OpenRows(rows, j)
    BY <2>1, <2>2, <2>3 DEF OpenRows
  <2>5. s[k] = Cur(l).qty
    BY <1>2, <1>3, <1>4, <2>1
  <2> HIDE DEF f, k, p, s
  <2>6. ASSUME NEW j \in Keys
        PROVE  /\ OpenRows(rows', j) = {} => s[j] = 0
               /\ \A x \in OpenRows(rows', j) : rows'[x].qty = s[j] /\ s[j] > 0
    <3>1. CASE j = k
      BY <1>2, <2>3, <2>4, <2>5, <3>1
    <3>2. CASE j # k
      BY <1>3, <1>4, <2>2, <2>4, <3>2 DEF OpenRows
    <3> QED BY <3>1, <3>2
  <2>7. Shows(h[d + 1])'
    BY <2>6 DEF Shows, s
  <2>8. UNCHANGED Booked
    BY <2>2, <2>3 DEF Booked, NothingBooked
  <2> QED BY <2>1, <2>7, <2>8
<1>6. CASE Writes(l)
  <2>1. /\ DOMAIN rows' = DOMAIN rows /\ rows'[r] = Updated(l) /\ r \in DOMAIN rows
        /\ \A x \in DOMAIN rows \ {r} : rows'[x] = rows[x]
    BY <1>1, <1>6, RowsMove, RowInHand DEF Writes
  <2>2. /\ OpenRows(rows, k) = {r} /\ Updated(l).key = k
        /\ IF s[k] = 0 THEN Updated(l).status = "CLOSED"
           ELSE Updated(l).status = "OPEN" /\ Updated(l).qty = s[k] /\ s[k] > 0
        /\ Cur(l).open <=> loop[l].op = "merge"
    BY <1>6, Writing
  <2>3. \A g \in FillId : rows'[r].pnl[g] =
          IF g = f /\ loop[l].op # "merge" THEN 1 ELSE rows[r].pnl[g]
    BY <1>1, <1>6, BookWrites
  <2> DEFINE merged == loop[l].op = "merge"
  <2>4. /\ ~merged => rows'[r].pnl[f] = 1
        /\ \A x \in DOMAIN rows, g \in FillId :
             g # f \/ merged => rows'[x].pnl[g] = rows[x].pnl[g]
    BY <1>2, <2>1, <2>3
  <2> HIDE DEF f, r, k, p, s, merged
  <2>5. ASSUME NEW j \in Keys
        PROVE  /\ OpenRows(rows', j) = {} => s[j] = 0
               /\ \A x \in OpenRows(rows', j) : rows'[x].qty = s[j] /\ s[j] > 0
    <3>1. CASE j = k
      <4>1. OpenRows(rows', k) = IF s[k] = 0 THEN {} ELSE {r}
        BY <2>1, <2>2 DEF OpenRows
      <4> QED BY <2>1, <2>2, <3>1, <4>1
    <3>2. CASE j # k
      <4>1. OpenRows(rows', j) = OpenRows(rows, j) /\ r \notin OpenRows(rows, j)
        BY <2>1, <2>2, <3>2 DEF OpenRows
      <4> QED BY <1>3, <1>4, <2>1, <3>2, <4>1 DEF OpenRows
    <3> QED BY <3>1, <3>2
  <2>6. Shows(h[d + 1])'
    BY <2>5 DEF Shows, s
  <2>7. merged => UNCHANGED Booked
    BY <2>1, <2>4 DEF Booked
  <2>8. ~merged => Booked' = Booked \cup {f}
    BY <1>2, <2>1, <2>4 DEF Booked
  <2> QED BY <1>2, <2>2, <2>6, <2>7, <2>8 DEF f, merged
<1> QED BY <1>5, <1>6

\* A step that applies a trade applies the one after the prefix.
LEMMA OrderApplies ==
  ASSUME InOrder, OrderlyInv, NEW d, NEW h, Prefix(d), Balance(h), Shows(h[d]),
         NEW l \in Loops, Moves(l), InsertsRow(l) \/ Writes(l)
  PROVE  /\ d \in Nat /\ d + 1 \in Fetched /\ Prefix(d + 1)'
         /\ fills[d + 1].open => UNCHANGED Booked
         /\ ~fills[d + 1].open => Booked' = Booked \cup {d + 1}
<1> DEFINE f == loop[l].cur
<1>1. /\ UNCHANGED fills /\ Fetched' = Fetched /\ (\A m \in Loops : m = l)
      /\ TypeInv /\ SyncInv /\ Applying(l) /\ ~Applying(l)' /\ Len(fills) \in Nat
  BY Places DEF Moves, exchange, Fetched, InOrder, SkipsRecorded, SingleLoop, SyncInv, OrderlyInv,
                TypeInv, TypeOK
<1>2. /\ d \in Nat /\ d + 1 \in Fetched /\ d + 1 \in FillId /\ f = d + 1
      /\ orders = 1..(d + 1) /\ Cur(l) = fills[d + 1]
  BY <1>1, InTurn DEF Cur
<1>3. /\ fills[d + 1].open => UNCHANGED Booked
      /\ ~fills[d + 1].open => Booked' = Booked \cup {d + 1}
  BY <1>2, ShowsNext
<1>4. Applied' = 1..(d + 1)
  <2>1. applied' = [applied EXCEPT ![f] = @ + 1] /\ applied \in [FillId -> Nat]
    BY <1>1 DEF InsertsRow, Writes, TypeInv, TypeOK
  <2>2. \A g \in FillId : applied'[g] = IF g = d + 1 THEN applied[g] + 1 ELSE applied[g]
    BY <1>2, <2>1
  <2>3. Applied' = Applied \cup {d + 1}
    BY <1>2, <2>1, <2>2 DEF Applied
  <2>4. Applied = 1..d
    BY DEF Prefix
  <2> QED BY <1>2, <2>3, <2>4
<1>5. orders' = 1..(d + 1) /\ ~\E m \in Loops : Applying(m)'
  BY <1>1, <1>2 DEF InsertsRow, Writes
<1>6. \A x \in 1..(d + 1) : ~fills[x].open => \E r \in DOMAIN rows' : rows'[r].pnl[x] > 0
  <2> SUFFICES ASSUME NEW x \in 1..(d + 1), ~fills[x].open
               PROVE  \E r \in DOMAIN rows' : rows'[r].pnl[x] > 0
    OBVIOUS
  <2>1. Booked \subseteq Booked' /\ (x = d + 1 => x \in Booked')
    BY <1>3
  <2>2. x \in FillId
    BY <1>2, LedgerAssumption DEF FillId
  <2>3. x \in 1..d => x \in Booked
    BY <2>2 DEF Prefix, Booked
  <2>4. x \in Booked'
    BY <1>2, <2>1, <2>3
  <2> QED BY <2>4 DEF Booked
<1>7. \A g \in loop'[l].todo : \A x \in 1..g : x \in orders' \cup loop'[l].todo
  <2>1. ~Drops(l)
    BY NothingDropped DEF OrderlyInv
  <2> QED BY <1>1, <2>1, NoGap
<1>8. loop'[l].pc \in {"idle", "check", "log"}
  BY DEF InsertsRow, Writes, Leaves
<1>9. d + 1 \in 0..Len(fills')
  BY <1>1, <1>2 DEF Fetched
<1>10. Prefix(d + 1)'
  BY <1>1, <1>4, <1>5, <1>6, <1>7, <1>8, <1>9 DEF Prefix
<1> QED BY <1>2, <1>3, <1>10

\* The account trades; the ledger is where it was.
LEMMA OrderDeals ==
  ASSUME TypeInv, TurnInv, NEW d, NEW h, Prefix(d), Balance(h), Shows(h[d]),
         NEW k \in Keys, NEW open \in BOOLEAN, NEW q \in 1..MaxQty, Trade(k, open, q)
  PROVE  \E i : i[d] = h[d] /\ Prefix(d)' /\ Balance(i)' /\ Shows(i[d])'
<1> DEFINE n == Len(fills)
           t == [key |-> k, open |-> open, qty |-> q, time |-> clock + 1]
           more == [x \in 0..(n + 1) |-> IF x <= n THEN h[x] ELSE live']
<1>1. /\ fills \in Seq(Fill) /\ n \in Nat /\ q \in Nat /\ live \in [Keys -> Nat]
      /\ d \in 0..n /\ t \in Fill /\ UNCHANGED <<store, loop>> /\ Fetched = 1..n
  BY SyncAssumption DEF TypeInv, TypeOK, Prefix, Trade, Fill, Fetched
<1>2. /\ Len(fills') = n + 1 /\ fills'[n + 1] = t /\ \A x \in 1..n : fills'[x] = fills[x]
      /\ Fetched' = 1..(n + 1)
  BY <1>1 DEF Trade, Fetched
<1>3. live' \in [Keys -> Nat]
  <2>1. TypeInv'
    BY TradeType
  <2> QED BY <2>1 DEF TypeInv, TypeOK
<1>4. IF open THEN live' = [live EXCEPT ![k] = @ + q]
      ELSE q <= live[k] /\ live' = [live EXCEPT ![k] = @ - q]
  BY DEF Trade
<1>5. h \in [0..n -> [Keys -> Nat]] /\ h[0] = [j \in Keys |-> 0] /\ h[n] = live
  BY DEF Balance
<1>6. t.key = k /\ t.open = open /\ t.qty = q
  OBVIOUS
<1>7. PICK i : /\ i \in [0..(n + 1) -> [Keys -> Nat]] /\ i[n + 1] = live'
               /\ \A x \in 0..n : i[x] = h[x]
  <2>1. /\ more \in [0..(n + 1) -> [Keys -> Nat]] /\ more[n + 1] = live'
        /\ \A x \in 0..n : more[x] = h[x]
    BY <1>1, <1>3, <1>5
  <2> HIDE DEF more
  <2> QED BY <2>1
<1> HIDE DEF t
<1>8. ASSUME NEW x \in 1..(n + 1)
      PROVE  LET u == fills'[x]
             IN IF u.open THEN i[x] = [i[x - 1] EXCEPT ![u.key] = @ + u.qty]
                ELSE u.qty <= i[x - 1][u.key] /\ i[x] = [i[x - 1] EXCEPT ![u.key] = @ - u.qty]
  <2>1. CASE x = n + 1
    <3>1. i[x - 1] = live /\ i[x] = live' /\ fills'[x] = t
      BY <1>1, <1>2, <1>5, <1>7, <2>1
    <3> QED BY <1>4, <1>6, <3>1
  <2>2. CASE x # n + 1
    <3>1. x \in 1..n /\ x - 1 \in 0..n /\ x \in 0..n
      BY <1>1, <2>2
    <3>2. i[x] = h[x] /\ i[x - 1] = h[x - 1] /\ fills'[x] = fills[x]
      BY <1>2, <1>7, <3>1
    <3>3. LET u == fills[x]
          IN IF u.open THEN h[x] = [h[x - 1] EXCEPT ![u.key] = @ + u.qty]
             ELSE u.qty <= h[x - 1][u.key] /\ h[x] = [h[x - 1] EXCEPT ![u.key] = @ - u.qty]
      BY <1>1, <3>1 DEF Balance
    <3> QED BY <3>2, <3>3
  <2> QED BY <2>1, <2>2
<1>9. Balance(i)'
  <2>1. i \in [0..Len(fills') -> [Keys -> Nat]] /\ i[Len(fills')] = live'
    BY <1>2, <1>7
  <2>2. i[0] = [j \in Keys |-> 0]
    BY <1>1, <1>5, <1>7
  <2>3. \A x \in Fetched' :
          LET u == fills'[x]
          IN IF u.open THEN i[x] = [i[x - 1] EXCEPT ![u.key] = @ + u.qty]
             ELSE u.qty <= i[x - 1][u.key] /\ i[x] = [i[x - 1] EXCEPT ![u.key] = @ - u.qty]
    BY <1>2, <1>8
  <2> QED BY <2>1, <2>2, <2>3 DEF Balance
<1>10. i[d] = h[d] /\ Shows(i[d])'
  <2>1. i[d] = h[d] /\ UNCHANGED rows
    BY <1>1, <1>7 DEF store
  <2> QED BY <2>1 DEF Shows
<1>11. Prefix(d)'
  <2>1. \A l \in Loops : Working(l) => Cur(l)' = Cur(l)
    BY <1>1, <1>2, InHand DEF Cur
  <2>2. /\ UNCHANGED <<orders, rows, applied, loop>> /\ d \in 0..Len(fills')
        /\ \A x \in 1..d : fills'[x] = fills[x]
    BY <1>1, <1>2 DEF store
  <2>3. (\E l \in Loops : Applying(l))' <=> \E l \in Loops : Applying(l)
    BY <2>2 DEF Applying, Recorded, Working
  <2>4. \A l \in Loops :
          /\ \A g \in loop[l].todo : \A x \in 1..g : x \in orders \cup loop[l].todo
          /\ loop[l].pc \in {"create", "insertRow"} =>
               Cur(l)'.open /\ OpenRows(rows, Cur(l)'.key) = {}
          /\ loop[l].pc \in {"load", "store"} =>
               /\ loop[l].row \in OpenRows(rows, Cur(l)'.key)
               /\ loop[l].op = IF Cur(l)'.open THEN "merge"
                    ELSE IF Cur(l)'.qty < rows[loop[l].row].qty THEN "reduce" ELSE "full"
    <3> SUFFICES ASSUME NEW l \in Loops
                 PROVE  /\ \A g \in loop[l].todo : \A x \in 1..g : x \in orders \cup loop[l].todo
                        /\ loop[l].pc \in {"create", "insertRow"} =>
                             Cur(l)'.open /\ OpenRows(rows, Cur(l)'.key) = {}
                        /\ loop[l].pc \in {"load", "store"} =>
                             /\ loop[l].row \in OpenRows(rows, Cur(l)'.key)
                             /\ loop[l].op = IF Cur(l)'.open THEN "merge"
                                  ELSE IF Cur(l)'.qty < rows[loop[l].row].qty
                                       THEN "reduce" ELSE "full"
      OBVIOUS
    <3>1. loop[l].pc \in {"create", "insertRow", "load", "store"} => Cur(l)' = Cur(l)
      BY <2>1 DEF Working
    <3> QED BY <3>1 DEF Prefix
  <2> QED BY <2>2, <2>3, <2>4 DEF Prefix, Applied
<1> QED BY <1>9, <1>10, <1>11

\* Where the ledger is initially.
LEMMA OrderInit == Init => Prefix(0) /\ \E h : Balance(h) /\ Shows(h[0])
<1> SUFFICES ASSUME Init PROVE Prefix(0) /\ \E h : Balance(h) /\ Shows(h[0])
  OBVIOUS
<1> DEFINE h == [x \in 0..0 |-> [k \in Keys |-> 0]]
<1>1. /\ Fetched = {} /\ Len(fills) = 0 /\ DOMAIN rows = {} /\ Applied = {} /\ orders = {}
      /\ \A l \in Loops : loop[l] = IdleLoop
  BY DEF Init, Fetched, Applied
<1>2. \A l \in Loops : ~Applying(l) /\ loop[l].pc = "idle" /\ loop[l].todo = {}
  BY <1>1 DEF IdleLoop, Applying, Recorded, Working
<1>3. Prefix(0)
  BY <1>1, <1>2 DEF Prefix
<1>4. h[0] = [k \in Keys |-> 0] /\ h \in [0..0 -> [Keys -> Nat]]
  OBVIOUS
<1> HIDE DEF h
<1>5. Balance(h)
  BY <1>1, <1>4 DEF Balance, Init
<1>6. Shows(h[0])
  BY <1>1, <1>4 DEF Shows, OpenRows
<1> QED BY <1>3, <1>5, <1>6

\* The account makes a trade.
Deals == \E t \in [key : Keys, open : BOOLEAN, qty : 1..MaxQty, time : 1..MaxTime] :
           fills' = Append(fills, t)

\* Every step leaves the ledger at its prefix or takes it to the next one.
LEMMA OrderStep ==
  ASSUME InOrder, OrderlyInv, NEW d, NEW h, Prefix(d), Balance(h), Shows(h[d]), [Next]_vars
  PROVE  \/ /\ Deals \/ UNCHANGED fills
            /\ UNCHANGED Booked
            /\ \E i : i[d] = h[d] /\ Prefix(d)' /\ Balance(i)' /\ Shows(i[d])'
         \/ /\ UNCHANGED fills /\ d \in Nat /\ d + 1 \in Fetched
            /\ Prefix(d + 1)' /\ Balance(h)' /\ Shows(h[d + 1])'
            /\ fills[d + 1].open => UNCHANGED Booked
            /\ ~fills[d + 1].open => Booked' = Booked \cup {d + 1}
<1> DEFINE rests == /\ Deals \/ UNCHANGED fills
                    /\ UNCHANGED Booked
                    /\ \E i : i[d] = h[d] /\ Prefix(d)' /\ Balance(i)' /\ Shows(i[d])'
           applies == /\ UNCHANGED fills /\ d \in Nat /\ d + 1 \in Fetched
                      /\ Prefix(d + 1)' /\ Balance(h)' /\ Shows(h[d + 1])'
                      /\ fills[d + 1].open => UNCHANGED Booked
                      /\ ~fills[d + 1].open => Booked' = Booked \cup {d + 1}
<1>1. ~Sweeping /\ "crash" \notin Faults /\ TypeInv /\ TurnInv /\ sweep.pc = "idle"
  BY DEF InOrder, OrderlyInv, SyncInv, BookInv
<1>2. ASSUME NEW l \in Loops, LoopStep(l) \/ CheckFails(l) \/ StepFails(l)
      PROVE  rests \/ applies
  <2>1. Moves(l)
    BY <1>1, <1>2, MoveKinds
  <2>2. UNCHANGED fills /\ Balance(h)'
    BY <2>1 DEF Moves, exchange, Balance, Fetched
  <2>3. CASE InsertsRow(l) \/ Writes(l)
    <3>1. /\ d \in Nat /\ d + 1 \in Fetched /\ Prefix(d + 1)'
          /\ fills[d + 1].open => UNCHANGED Booked
          /\ ~fills[d + 1].open => Booked' = Booked \cup {d + 1}
      BY <2>1, <2>3, OrderApplies
    <3>2. Shows(h[d + 1])'
      BY <2>1, <2>3, ShowsNext
    <3> QED BY <2>2, <3>1, <3>2
  <2>4. CASE ~(InsertsRow(l) \/ Writes(l))
    <3>1. Prefix(d)' /\ Shows(h[d])' /\ UNCHANGED Booked
      BY <2>1, <2>4, OrderRests
    <3> QED BY <2>2, <3>1
  <2> QED BY <2>3, <2>4
<1>3. ASSUME NEW k \in Keys, NEW open \in BOOLEAN, NEW q \in 1..MaxQty, Trade(k, open, q)
      PROVE  rests
  <2> DEFINE t == [key |-> k, open |-> open, qty |-> q, time |-> clock + 1]
  <2>1. t \in [key : Keys, open : BOOLEAN, qty : 1..MaxQty, time : 1..MaxTime]
    BY <1>1, <1>3, SyncAssumption DEF Trade, TypeInv, TypeOK
  <2>2. fills' = Append(fills, t) /\ UNCHANGED rows
    BY <1>3 DEF Trade, store
  <2> HIDE DEF t
  <2>3. Deals
    BY <2>1, <2>2 DEF Deals
  <2>4. UNCHANGED Booked
    BY <2>2 DEF Booked
  <2>5. \E i : i[d] = h[d] /\ Prefix(d)' /\ Balance(i)' /\ Shows(i[d])'
    BY <1>1, <1>3, OrderDeals
  <2> QED BY <2>3, <2>4, <2>5
<1>4. CASE Tick \/ UNCHANGED vars
  <2>1. UNCHANGED <<fills, live, orders, links, rows, applied, loop>>
    BY <1>4 DEF Tick, store, vars
  <2>2. Prefix(d)'
    BY <2>1 DEF Prefix, Applied, Applying, Recorded, Working, Cur
  <2>3. Balance(h)' /\ Shows(h[d])' /\ UNCHANGED Booked
    BY <2>1 DEF Balance, Fetched, Shows, Booked
  <2> QED BY <2>1, <2>2, <2>3
<1>5. ~SweepStep /\ ~Crash
  BY <1>1 DEF SweepStep, SweepFetch, SweepList, SweepClose, Crash
<1> QED BY <1>2, <1>3, <1>4, <1>5 DEF Next

LedgerInv == OrderlyInv /\ OrderInv

\* The invariant holds initially.
LEMMA LedgerInvInit == Init => LedgerInv
  BY SyncInit, BookInit, InitOpen, OrderInit DEF LedgerInv, OrderlyInv, OrderInv

\* Every step preserves it.
LEMMA LedgerInvStep == InOrder /\ LedgerInv /\ [Next]_vars => LedgerInv'
<1> SUFFICES ASSUME InOrder, LedgerInv, [Next]_vars PROVE LedgerInv'
  OBVIOUS
<1>1. OrderlyInv /\ SkipsRecorded /\ SingleLoop /\ ~Sweeping /\ SyncInv /\ BookInv /\ OpenInv
      /\ TypeInv
  BY DEF LedgerInv, OrderlyInv, SyncInv, InOrder, SkipsRecorded
<1>2. OrderlyInv'
  BY <1>1, SyncStep, BookStep, OpenStep DEF OrderlyInv
<1>3. PICK d \in Nat : \E h : Prefix(d) /\ Balance(h) /\ Shows(h[d])
  BY DEF LedgerInv, OrderInv
<1>4. PICK h : Prefix(d) /\ Balance(h) /\ Shows(h[d])
  BY <1>3
<1>5. d + 1 \in Nat
  OBVIOUS
<1>6. OrderInv'
  BY <1>1, <1>4, <1>5, OrderStep DEF OrderInv
<1> QED BY <1>2, <1>6 DEF LedgerInv

\* The lots of no row, and of one.
LEMMA LotsOfNone ==
  ASSUME NEW rs, NEW k, OpenRows(rs, k) = {}
  PROVE  OpenLots(rs, k) = 0
<1> DEFINE Sums(f) == f = [s \in SUBSET {} |->
              IF s = {} THEN 0 ELSE LET x == CHOOSE x \in s : TRUE IN rs[x].qty + f[s \ {x}]]
           sum == [s \in SUBSET {} |-> 0]
<1>1. Sums(sum)
  OBVIOUS
<1>2. \A f : Sums(f) => f[{}] = 0
  OBVIOUS
<1>3. (CHOOSE f : Sums(f))[{}] = 0
  BY <1>1, <1>2
<1>4. MapThenSumSet(LAMBDA r : rs[r].qty, {}) = 0
  BY <1>3 DEF MapThenSumSet, MapThenFoldSet
<1> QED BY <1>4 DEF OpenLots

\* One open row has the lots of its key.
LEMMA LotsOfOne ==
  ASSUME NEW rs, NEW k, NEW r \in OpenRows(rs, k), \A s \in OpenRows(rs, k) : s = r,
         rs[r].qty \in Nat
  PROVE  OpenLots(rs, k) = rs[r].qty
<1> DEFINE Sums(f) == f = [s \in SUBSET {r} |->
              IF s = {} THEN 0 ELSE LET x == CHOOSE x \in s : TRUE IN rs[x].qty + f[s \ {x}]]
           sum == [s \in SUBSET {r} |-> IF s = {} THEN 0 ELSE rs[r].qty]
<1>1. ASSUME NEW s \in SUBSET {r}, s # {}
      PROVE  s = {r} /\ (CHOOSE x \in s : TRUE) = r /\ s \ {r} = {}
  <2>1. s = {r} /\ (CHOOSE x \in {r} : TRUE) = r
    BY <1>1
  <2> QED BY <2>1
<1>2. Sums(sum)
  <2> SUFFICES ASSUME NEW s \in SUBSET {r}, s # {}
               PROVE  rs[r].qty = LET x == CHOOSE x \in s : TRUE IN rs[x].qty + sum[s \ {x}]
    OBVIOUS
  <2> QED BY <1>1
<1>3. \A f : Sums(f) => f[{r}] = rs[r].qty
  <2> SUFFICES ASSUME NEW f, Sums(f) PROVE f[{r}] = rs[r].qty
    OBVIOUS
  <2>1. f[{}] = 0
    OBVIOUS
  <2>2. (CHOOSE x \in {r} : TRUE) = r /\ {r} \ {r} = {}
    OBVIOUS
  <2>3. f[{r}] = LET x == CHOOSE x \in {r} : TRUE IN rs[x].qty + f[{r} \ {x}]
    OBVIOUS
  <2> QED BY <2>1, <2>2, <2>3
<1>4. (CHOOSE f : Sums(f))[{r}] = rs[r].qty
  <2> HIDE DEF Sums, sum
  <2> QED BY <1>2, <1>3
<1>5. MapThenSumSet(LAMBDA x : rs[x].qty, {r}) = rs[r].qty
  BY <1>4 DEF MapThenSumSet, MapThenFoldSet
<1>6. OpenRows(rs, k) = {r}
  OBVIOUS
<1> QED BY <1>5, <1>6 DEF OpenLots

\* Rows that show position p, one per key, add up to it.
LEMMA LotsShown ==
  ASSUME NEW rs, rs \in [DOMAIN rs -> Row], NEW p \in [Keys -> Nat],
         \A k \in Keys : \A r, s \in OpenRows(rs, k) : r = s,
         \A k \in Keys : /\ OpenRows(rs, k) = {} => p[k] = 0
                         /\ \A r \in OpenRows(rs, k) : rs[r].qty = p[k] /\ p[k] > 0
  PROVE  [k \in Keys |-> OpenLots(rs, k)] = p
<1>1. ASSUME NEW k \in Keys PROVE OpenLots(rs, k) = p[k]
  <2>1. CASE OpenRows(rs, k) = {}
    BY <2>1, LotsOfNone
  <2>2. CASE OpenRows(rs, k) # {}
    <3>1. PICK r \in OpenRows(rs, k) : (\A s \in OpenRows(rs, k) : s = r) /\ rs[r].qty = p[k]
      BY <2>2
    <3>2. rs[r].qty \in Nat
      BY <3>1
    <3>3. OpenLots(rs, k) = rs[r].qty
      BY <3>1, <3>2, LotsOfOne
    <3> QED BY <3>1, <3>3
  <2> QED BY <2>1, <2>2
<1> QED BY <1>1

\* A prefix has as many trades as its length.
LEMMA PrefixSize == ASSUME NEW d \in Nat PROVE Cardinality(1..d) = d
<1>1. Cardinality(1..d) = IF 1 > d THEN 0 ELSE d - 1 + 1
  BY FS_Interval
<1> QED BY <1>1

\* What the abstract ledger shows, by the prefix the rows are at.
LEMMA MapsTo ==
  ASSUME TypeInv, OneOpenRowPerKey, NEW d, NEW h, Prefix(d), Balance(h), Shows(h[d])
  PROVE  /\ d \in Nat /\ Cardinality(Applied) = d
         /\ [k \in Keys |-> OpenLots(rows, k)] = h[d]
<1>1. d \in Nat /\ d \in 0..Len(fills) /\ h[d] \in [Keys -> Nat] /\ rows \in [DOMAIN rows -> Row]
  BY DEF Prefix, Balance, TypeInv, TypeOK
<1>2. [k \in Keys |-> OpenLots(rows, k)] = h[d]
  BY <1>1, LotsShown DEF OneOpenRowPerKey, Shows
<1> QED BY <1>1, <1>2, PrefixSize DEF Prefix

\* The same after a step.
LEMMA MapsToNext ==
  ASSUME TypeInv', OneOpenRowPerKey', NEW d, NEW h, Prefix(d)', Balance(h)', Shows(h[d])'
  PROVE  /\ d \in Nat /\ Cardinality(Applied') = d
         /\ [k \in Keys |-> OpenLots(rows', k)] = h[d]
<1>1. /\ d \in Nat /\ d \in 0..Len(fills') /\ h[d] \in [Keys -> Nat]
      /\ rows' \in [DOMAIN rows' -> Row]
  BY DEF Prefix, Balance, TypeInv, TypeOK
<1>2. [k \in Keys |-> OpenLots(rows', k)] = h[d]
  BY <1>1, LotsShown DEF OneOpenRowPerKey, Shows
<1> QED BY <1>1, <1>2, PrefixSize DEF Prefix

\* Initially both ledgers are empty.
LEMMA LedgerStarts == Init => Promise!LedgerInit
<1> SUFFICES ASSUME Init PROVE Promise!LedgerInit
  OBVIOUS
<1>1. fills = <<>> /\ Applied = {} /\ DOMAIN rows = {}
  BY DEF Init, Applied
<1>2. \A k : OpenLots(rows, k) = 0
  <2>1. \A k : OpenRows(rows, k) = {}
    BY <1>1 DEF OpenRows
  <2> QED BY <2>1, LotsOfNone
<1>3. Cardinality(Applied) = 0 /\ Booked = {}
  BY <1>1, FS_EmptySet DEF Booked
<1> QED BY <1>1, <1>2, <1>3 DEF Promise!LedgerInit

\* Every step of the loops is a step of the abstract ledger or none.
LEMMA LedgerSteps ==
  InOrder /\ LedgerInv /\ LedgerInv' /\ [Next]_vars =>
    [Promise!Deal \/ Promise!ApplyNext]_(Promise!ledger)
<1> SUFFICES ASSUME InOrder, LedgerInv, LedgerInv', [Next]_vars
             PROVE  Promise!Deal \/ Promise!ApplyNext \/ UNCHANGED Promise!ledger
  OBVIOUS
<1> DEFINE shown == [k \in Keys |-> OpenLots(rows, k)]
<1>1. PICK d \in Nat : \E h : Prefix(d) /\ Balance(h) /\ Shows(h[d])
  BY DEF LedgerInv, OrderInv
<1>2. PICK h : Prefix(d) /\ Balance(h) /\ Shows(h[d])
  BY <1>1
<1>3. /\ OrderlyInv /\ TypeInv /\ OneOpenRowPerKey /\ TypeInv' /\ OneOpenRowPerKey'
      /\ Len(fills) \in Nat
  <2>1. OrderlyInv /\ TypeInv /\ OneOpenRowPerKey /\ TypeInv' /\ OneOpenRowPerKey'
    BY DEF LedgerInv, OrderlyInv, SyncInv, OpenInv
  <2>2. Len(fills) \in Nat
    BY <2>1 DEF TypeInv, TypeOK
  <2> QED BY <2>1, <2>2
<1>4. Cardinality(Applied) = d /\ shown = h[d]
  BY <1>2, <1>3, MapsTo
<1>5. CASE /\ Deals \/ UNCHANGED fills
           /\ UNCHANGED Booked
           /\ \E i : i[d] = h[d] /\ Prefix(d)' /\ Balance(i)' /\ Shows(i[d])'
  <2>1. PICK i : i[d] = h[d] /\ Prefix(d)' /\ Balance(i)' /\ Shows(i[d])'
    BY <1>5
  <2>2. Cardinality(Applied') = d /\ shown' = h[d]
    BY <1>3, <2>1, MapsToNext
  <2>3. UNCHANGED <<Cardinality(Applied), shown, Booked>>
    BY <1>4, <1>5, <2>2
  <2>4. CASE Deals
    BY <2>3, <2>4 DEF Deals, Promise!Deal
  <2>5. CASE UNCHANGED fills
    BY <2>3, <2>5 DEF Promise!ledger
  <2> QED BY <1>5, <2>4, <2>5
<1>6. CASE /\ UNCHANGED fills /\ d \in Nat /\ d + 1 \in Fetched
           /\ Prefix(d + 1)' /\ Balance(h)' /\ Shows(h[d + 1])'
           /\ fills[d + 1].open => UNCHANGED Booked
           /\ ~fills[d + 1].open => Booked' = Booked \cup {d + 1}
  <2> DEFINE t == fills[d + 1]
             e == d + 1
  <2>1. Cardinality(Applied') = e /\ shown' = h[e]
    BY <1>3, <1>6, MapsToNext
  <2>2. d < Len(fills) /\ t \in Fill
    BY <1>3, <1>6, FetchedOK DEF Fetched
  <2>3. /\ h[d] \in [Keys -> Nat] /\ h[e] \in [Keys -> Nat] /\ t.key \in Keys
        /\ t.open => h[e][t.key] = h[d][t.key] + t.qty
        /\ ~t.open => t.qty <= h[d][t.key] /\ h[e][t.key] = h[d][t.key] - t.qty
        /\ \A k \in Keys \ {t.key} : h[e][k] = h[d][k]
    <3>1. fills[d + 1].key \in Keys
      BY <2>2 DEF Fill
    <3>2. Balance(h) /\ d \in Nat /\ d + 1 \in Fetched /\ Len(fills) \in Nat
      BY <1>2, <1>3, <1>6
    <3> QED BY <3>1, <3>2, NextBalance
  <2>4. Cardinality(Applied') = Cardinality(Applied) + 1 /\ Cardinality(Applied) < Len(fills)
    BY <1>4, <2>1, <2>2
  <2>5. fills[Cardinality(Applied')] = t /\ Cardinality(Applied') = e
    BY <2>1
  <2> HIDE DEF t, e
  <2>6. t.open => h[e] = [h[d] EXCEPT ![t.key] = @ + t.qty]
    BY <2>3
  <2>7. ~t.open => t.qty <= h[d][t.key] /\ h[e] = [h[d] EXCEPT ![t.key] = @ - t.qty]
    BY <2>3
  <2>8. (t.open => UNCHANGED Booked) /\ (~t.open => Booked' = Booked \cup {e})
    BY <1>6 DEF t, e
  <2>9. Promise!ApplyNext
    BY <1>4, <1>6, <2>1, <2>4, <2>5, <2>6, <2>7, <2>8 DEF Promise!ApplyNext
  <2> QED BY <2>9
<1> QED BY <1>2, <1>3, <1>5, <1>6, OrderStep

\* One goroutine that skips what is recorded, where no statement fails halfway and
\* nothing is swept, implements the abstract ledger: in every state the rows are what
\* a prefix of the account's trades leaves, and each trade enters them in one step,
\* in order, with its PnL: the UPDATE is the only point a reader can notice, although
\* ProcessTrade takes eight statements.
THEOREM ImplementsLedger == InOrder => (Spec => AppliesTradesInOrder)
<1> SUFFICES ASSUME InOrder PROVE Spec => AppliesTradesInOrder
  OBVIOUS
<1>1. LedgerInv /\ [Next]_vars => LedgerInv'
  BY LedgerInvStep
<1>2. LedgerInv /\ LedgerInv' /\ [Next]_vars => [Promise!Deal \/ Promise!ApplyNext]_(Promise!ledger)
  BY LedgerSteps
<1> QED BY <1>1, <1>2, LedgerInvInit, LedgerStarts, PTL DEF Spec, AppliesTradesInOrder, Promise!LedgerSpec

\* A settled ledger is at the end of the account's trades.
LEMMA SettledAtEnd ==
  ASSUME LedgerInv, Settled
  PROVE  /\ Prefix(Len(fills)) /\ Shows(live)
         /\ TypeInv /\ OneOpenRowPerKey /\ BookedAtMostOnce
<1>1. PICK d \in Nat : \E h : Prefix(d) /\ Balance(h) /\ Shows(h[d])
  BY DEF LedgerInv, OrderInv
<1>2. PICK h : Prefix(d) /\ Balance(h) /\ Shows(h[d])
  BY <1>1
<1>3. Len(fills) \in Nat /\ TypeInv /\ OneOpenRowPerKey /\ BookedAtMostOnce
  BY DEF LedgerInv, OrderlyInv, OpenInv, BookInv, SyncInv, TypeInv, TypeOK
<1>4. ~\E l \in Loops : Applying(l)
  BY DEF Settled, Applying, Recorded, Working
<1>5. 1..d = 1..Len(fills) /\ d <= Len(fills)
  BY <1>2, <1>4 DEF Prefix, Settled, Fetched
<1>6. d = Len(fills)
  BY <1>3, <1>5
<1> QED BY <1>2, <1>3, <1>6 DEF Balance

\* Under the same hypothesis, whenever every trade is recorded the open rows are the
\* exchange's net positions, lot for lot.
THEOREM SettledInSync == InOrder => (Spec => []SettledIsInSync)
<1> SUFFICES ASSUME InOrder PROVE Spec => []SettledIsInSync
  OBVIOUS
<1>1. LedgerInv /\ [Next]_vars => LedgerInv'
  BY LedgerInvStep
<1>2. LedgerInv => SettledIsInSync
  <2> SUFFICES ASSUME LedgerInv, Settled, NEW k \in Keys
               PROVE  IF live[k] = 0 THEN OpenRows(rows, k) = {}
                      ELSE \E r \in OpenRows(rows, k) :
                             OpenRows(rows, k) = {r} /\ rows[r].qty = live[k]
    BY DEF SettledIsInSync, InSync
  <2>1. /\ OpenRows(rows, k) = {} => live[k] = 0
        /\ \A r \in OpenRows(rows, k) : rows[r].qty = live[k] /\ live[k] > 0
        /\ \A r, s \in OpenRows(rows, k) : r = s
    BY SettledAtEnd DEF Shows, OneOpenRowPerKey
  <2> QED BY <2>1
<1> QED BY <1>1, <1>2, LedgerInvInit, PTL DEF Spec

\* ... and their realized PnL contains every close trade exactly once.
THEOREM SettledBooked == InOrder => (Spec => []SettledIsBooked)
<1> SUFFICES ASSUME InOrder PROVE Spec => []SettledIsBooked
  OBVIOUS
<1>1. LedgerInv /\ [Next]_vars => LedgerInv'
  BY LedgerInvStep
<1>2. LedgerInv => SettledIsBooked
  <2> SUFFICES ASSUME LedgerInv, Settled, NEW f \in Fetched, ~fills[f].open
               PROVE  \E r \in DOMAIN rows :
                        /\ rows[r].pnl[f] = 1
                        /\ \A s \in DOMAIN rows \ {r} : rows[s].pnl[f] = 0
    BY DEF SettledIsBooked
  <2>1. /\ Prefix(Len(fills)) /\ BookedAtMostOnce /\ f \in FillId
        /\ \A r \in DOMAIN rows : rows[r].pnl[f] \in Nat
    BY SettledAtEnd, FetchedOK DEF TypeInv, TypeOK, Row
  <2>2. PICK r \in DOMAIN rows : rows[r].pnl[f] > 0
    BY <2>1 DEF Prefix, Fetched
  <2>3. /\ rows[r].pnl[f] <= 1
        /\ \A s \in DOMAIN rows \ {r} : rows[r].pnl[f] = 0 \/ rows[s].pnl[f] = 0
    BY <2>1 DEF BookedAtMostOnce
  <2> QED BY <2>1, <2>2, <2>3
<1> QED BY <1>1, <1>2, LedgerInvInit, PTL DEF Spec
=============================================================================
