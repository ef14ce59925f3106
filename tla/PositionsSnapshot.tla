-------------------------- MODULE PositionsSnapshot --------------------------
(***************************************************************************)
(* The age of the position list that GET /positions acts on.  The handler  *)
(* (api/handler_order.go handlePositions) takes the list from the trader's *)
(* API cache (trader/auto_trader_decision.go: stale-while-revalidate, one  *)
(* shared fetch at a time), which is filled from the exchange adapter,     *)
(* which has a cache of its own (trader/okx/trader_positions.go and the    *)
(* like in the other adapters).  When the cache's timestamp is recent it   *)
(* closes every open row whose position is not in the list.                *)
(*                                                                         *)
(* FillSync models what closing a row does to the ledger and assumes that  *)
(* the list was just fetched; this module asks how old it can be.  A row   *)
(* is only whether its key is OPEN, the fill sync is reduced to bringing   *)
(* one row in line with the exchange, and the sweep's statements are one   *)
(* step.  Time is kept as ages, capped where nothing tells them apart.     *)
(***************************************************************************)
EXTENDS Integers, FiniteSets

CONSTANTS
  Keys,         \* (symbol, side) pairs
  Handlers,     \* concurrent GET /positions requests
  Fresh,        \* apiReadFreshWindow
  Warm,         \* apiReadWarmAge
  Stale,        \* apiReadStaleWindow
  AdapterTTL,   \* cacheDuration of the adapter; 0 when it has no cache
  Invalidates,  \* the adapter drops its cache when the bot places an order
  MayFail,      \* whether a fetch may fail
  Slow          \* the longest time a fetch, or a handler, takes

ASSUME SnapshotAssumption ==
  /\ {Fresh, Warm, Stale, AdapterTTL, Slow} \subseteq Nat
  /\ Fresh < Warm /\ Warm < Stale
  /\ {Invalidates, MayFail} \subseteq BOOLEAN

VARIABLES
  live,      \* positions on the exchange
  opened,    \* time since each of them was opened
  rows,      \* keys whose row is OPEN
  adapter,   \* cachedPositions, positionsCacheTime
  api,       \* apiPositionsSnap, apiPositionsAt
  flight,    \* the shared fetch (apiReadGroup "positions")
  monitor,   \* the monitor loop's own GetPositions on the adapter
  handlers   \* the requests; lost: the list is what a failed fetch fell back to

vars == <<live, opened, rows, adapter, api, flight, monitor, handlers>>

\* The age of the news a sweep can act on at most.
MaxNews == AdapterTTL + Stale + 3 * Slow

\* Every age is capped at the largest bound it is compared with.
Capped(age, bound) == IF age < bound THEN age + 1 ELSE age

\* An empty list is a nil slice, which both caches take for "nothing cached".
Nothing == {}

Empty == [snap |-> Nothing, age |-> 0]

Idle == [pc |-> "idle", snap |-> Nothing, took |-> 0]

IdleRequest == [pc |-> "idle", snap |-> Nothing, lost |-> FALSE, took |-> 0]

TypeOK ==
  /\ live \subseteq Keys /\ rows \subseteq Keys
  /\ opened \in [Keys -> 0..(MaxNews + 1)]
  /\ adapter \in [snap : SUBSET Keys, age : 0..AdapterTTL]
  /\ api \in [snap : SUBSET Keys, age : 0..Stale]
  /\ flight \in [pc : {"idle", "ask", "keep", "project"}, snap : SUBSET Keys, took : 0..Slow]
  /\ monitor \in [pc : {"idle", "keep"}, snap : SUBSET Keys, took : 0..Slow]
  /\ handlers \in [Handlers -> [pc : {"idle", "wait", "check", "sweep"},
                                snap : SUBSET Keys, lost : BOOLEAN, took : 0..Slow]]
  /\ \A h \in Handlers : handlers[h].pc = "wait" => flight.pc # "idle"

Init ==
  /\ live = {} /\ rows = {} /\ opened = [k \in Keys |-> 0]
  /\ adapter = Empty /\ api = [snap |-> Nothing, age |-> Stale]
  /\ flight = Idle /\ monitor = Idle
  /\ handlers = [h \in Handlers |-> IdleRequest]

-----------------------------------------------------------------------------
(* The account, the fill sync and time *)

\* A trade opens or closes a position: an order of the bot, after which the
\* adapter's cache is dropped if it does that, or one triggered on the exchange.
Trade(k) ==
  /\ live' = IF k \in live THEN live \ {k} ELSE live \cup {k}
  /\ opened' = [opened EXCEPT ![k] = 0]
  /\ \E byBot \in BOOLEAN : adapter' = IF byBot /\ Invalidates THEN Empty ELSE adapter
  /\ UNCHANGED <<rows, api, flight, monitor, handlers>>

\* The fill sync records the trades of a key.
Sync(k) ==
  /\ (k \in live) # (k \in rows)
  /\ rows' = IF k \in live THEN rows \cup {k} ELSE rows \ {k}
  /\ UNCHANGED <<live, opened, adapter, api, flight, monitor, handlers>>

Longer(job) == IF job.pc \in {"idle", "wait"} THEN job ELSE [job EXCEPT !.took = @ + 1]

Tick ==
  /\ \A job \in {flight, monitor} \cup {handlers[h] : h \in Handlers} :
       job.pc \notin {"idle", "wait"} => job.took < Slow
  /\ opened' = [k \in Keys |-> IF k \in live THEN Capped(opened[k], MaxNews + 1) ELSE 0]
  /\ adapter' = [adapter EXCEPT !.age = Capped(@, AdapterTTL)]
  /\ api' = [api EXCEPT !.age = Capped(@, Stale)]
  /\ flight' = Longer(flight) /\ monitor' = Longer(monitor)
  /\ handlers' = [h \in Handlers |-> Longer(handlers[h])]
  /\ UNCHANGED <<live, rows>>

-----------------------------------------------------------------------------
(* GetPositions of the adapter *)

Cached == adapter.snap # Nothing /\ adapter.age < AdapterTTL

\* The monitor loop asks the adapter every few seconds.
MonitorAsk ==
  /\ monitor.pc = "idle" /\ ~Cached /\ AdapterTTL > 0
  /\ monitor' = [pc |-> "keep", snap |-> live, took |-> 0]
  /\ UNCHANGED <<live, opened, rows, adapter, api, flight, handlers>>

\* The reply is put into the cache, also one that was asked for before the
\* cache was dropped.
MonitorKeep ==
  /\ monitor.pc = "keep"
  /\ adapter' = [snap |-> monitor.snap, age |-> 0]
  /\ monitor' = Idle
  /\ UNCHANGED <<live, opened, rows, api, flight, handlers>>

-----------------------------------------------------------------------------
(* fetchAndProjectPositions, shared by all who ask while it runs *)

Started == IF flight.pc = "idle" THEN [Idle EXCEPT !.pc = "ask"] ELSE flight

\* WarmPositionsSnapshotIfStale, when the monitor loop sees positions.
WarmUp ==
  /\ live # {} /\ flight.pc = "idle"
  /\ api.snap = Nothing \/ api.age >= Warm
  /\ flight' = Started
  /\ UNCHANGED <<live, opened, rows, adapter, api, monitor, handlers>>

FlightAsk ==
  /\ flight.pc = "ask"
  /\ flight' = IF Cached
               THEN [flight EXCEPT !.pc = "project", !.snap = adapter.snap]
               ELSE [flight EXCEPT !.pc = "keep", !.snap = live]
  /\ UNCHANGED <<live, opened, rows, adapter, api, monitor, handlers>>

FlightKeep ==
  /\ flight.pc = "keep"
  /\ adapter' = IF AdapterTTL = 0 THEN adapter ELSE [snap |-> flight.snap, age |-> 0]
  /\ flight' = [flight EXCEPT !.pc = "project"]
  /\ UNCHANGED <<live, opened, rows, api, monitor, handlers>>

\* Mutant: the requests that joined the fetch are not told.
LeaveWaiting(list) == handlers

\* Those that wait for the fetch take its list.
Woken(list) ==
  [h \in Handlers |-> IF handlers[h].pc = "wait"
                      THEN [IdleRequest EXCEPT !.pc = "check", !.snap = list] ELSE handlers[h]]

\* The projection is finished and stamped with the time of its end.
FlightDone ==
  /\ flight.pc = "project"
  /\ api' = [snap |-> flight.snap, age |-> 0]
  /\ handlers' = Woken(flight.snap)
  /\ flight' = Idle
  /\ UNCHANGED <<live, opened, rows, adapter, monitor>>

\* The exchange's reply is lost: a request falls back to the list it found in the cache, or
\* answers with an error when there was none.
FlightFails ==
  /\ MayFail /\ flight.pc = "keep"
  /\ handlers' = [h \in Handlers |->
       IF handlers[h].pc # "wait" THEN handlers[h]
       ELSE IF handlers[h].snap = Nothing THEN IdleRequest
       ELSE [handlers[h] EXCEPT !.pc = "check", !.lost = TRUE]]
  /\ flight' = Idle
  /\ UNCHANGED <<live, opened, rows, adapter, api, monitor>>

-----------------------------------------------------------------------------
(* GET /positions *)

\* Mutant: a cached list is served whatever its age.
ServedAtAnyAge == api.snap # Nothing

Served == api.snap # Nothing /\ api.age < Stale

\* GetPositions: the cached list at once, refreshed in the background when it
\* is not fresh, or the outcome of the shared fetch.  Looking at the cache and
\* joining the fetch are one step.
GetPositions(h) ==
  /\ handlers[h].pc = "idle"
  /\ handlers' = [handlers EXCEPT ![h] = [IdleRequest EXCEPT
                                            !.pc = IF Served THEN "check" ELSE "wait",
                                            !.snap = api.snap]]
  /\ flight' = IF Served /\ api.age < Fresh THEN flight ELSE Started
  /\ UNCHANGED <<live, opened, rows, adapter, api, monitor>>

\* PositionsSnapshotFresh: the cache's timestamp now, not the list's then.
CheckFresh(h) ==
  /\ handlers[h].pc = "check"
  /\ handlers' = [handlers EXCEPT ![h] =
                    IF api.age < Fresh THEN [@ EXCEPT !.pc = "sweep"] ELSE IdleRequest]
  /\ UNCHANGED <<live, opened, rows, adapter, api, flight, monitor>>

\* The empty-snapshot guard: never all of two or more open rows.
ToClose(absent) == IF Cardinality(absent) >= 2 /\ absent = rows THEN {} ELSE absent

\* MarkOpenPositionsAbsentFromExchangeClosed
Sweep(h) ==
  /\ handlers[h].pc = "sweep"
  /\ rows' = rows \ ToClose(rows \ handlers[h].snap)
  /\ handlers' = [handlers EXCEPT ![h] = IdleRequest]
  /\ UNCHANGED <<live, opened, adapter, api, flight, monitor>>

FlightStep  == FlightAsk \/ FlightKeep \/ FlightDone
Answer(h)   == CheckFresh(h) \/ Sweep(h)

Next ==
  \/ \E k \in Keys : Trade(k) \/ Sync(k)
  \/ Tick
  \/ MonitorAsk \/ MonitorKeep
  \/ WarmUp \/ FlightStep \/ FlightFails
  \/ \E h \in Handlers : GetPositions(h) \/ Answer(h)

Spec == Init /\ [][Next]_vars

\* Time passes, fetches return, handlers run, and a dashboard keeps polling.
FairSpec ==
  /\ Spec
  /\ WF_vars(Tick) /\ WF_vars(FlightStep) /\ WF_vars(MonitorKeep)
  /\ \A h \in Handlers : WF_vars(GetPositions(h)) /\ WF_vars(Answer(h))

-----------------------------------------------------------------------------
(* Properties *)

\* A row that is closed has no position on the exchange, or one that was opened
\* not longer ago than the news a sweep can act on.
ClosedOnNewsOf(limit) == \A k \in rows \ rows' : k \in live => opened[k] <= limit

\* The snapshot is "recent enough (< apiReadFreshWindow) to be safe for the
\* write-side reconcile" (trader/auto_trader_decision.go:307): the sweep acts
\* only on news younger than the fresh window and the time its steps take.
SweepsOnFreshNews == [][ClosedOnNewsOf(Fresh + 3 * Slow)]_vars

\* A request acts on the list that its failed fetch fell back to.
SweepOfLostFetch == \E h \in Handlers :
  handlers[h].pc = "sweep" /\ handlers[h].lost /\ handlers'[h].pc = "idle"

\* What the two caches and the windows do bound: a position that has been open
\* for longer than the stale window and the adapter's cache together keeps its
\* row, whatever the dashboard, the monitor and the refreshes interleave.  Not
\* so for a request whose own fetch failed (lost): GetPositions then returns the
\* cached list without a limit on its age, and a refresh that follows makes it
\* pass for fresh.
OldPositionsKeepRows == [][SweepOfLostFetch \/ ClosedOnNewsOf(MaxNews)]_vars

\* Every request is answered.
RequestsAnswered == \A h \in Handlers : handlers[h].pc # "idle" ~> handlers[h].pc = "idle"
=============================================================================
