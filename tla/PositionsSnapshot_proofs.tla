----------------------- MODULE PositionsSnapshot_proofs -----------------------
(***************************************************************************)
(* Theorems about PositionsSnapshot, for any keys, requests, windows,      *)
(* caches and durations                                                    *)
(***************************************************************************)
EXTENDS PositionsSnapshot, TLAPS

-----------------------------------------------------------------------------
(* Types *)

\* The bounds are numbers.
LEMMA Bounds ==
  /\ Fresh \in Nat /\ Warm \in Nat /\ Stale \in Nat /\ AdapterTTL \in Nat /\ Slow \in Nat
  /\ MaxNews \in Nat /\ Invalidates \in BOOLEAN /\ MayFail \in BOOLEAN
BY SnapshotAssumption DEF MaxNews

\* An age grows up to its bound.
LEMMA CappedIs ==
  ASSUME NEW bound \in Nat, NEW age \in 0..bound
  PROVE  Capped(age, bound) \in 0..bound /\ Capped(age, bound) <= age + 1
         /\ (age < bound => Capped(age, bound) = age + 1)
BY DEF Capped

Job == [pc : {"idle", "ask", "keep", "project"}, snap : SUBSET Keys, took : 0..Slow]
Request == [pc : {"idle", "wait", "check", "sweep"}, snap : SUBSET Keys, lost : BOOLEAN, took : 0..Slow]

\* What rests has its type.
LEMMA IdleTyped == Idle \in Job /\ IdleRequest \in Request /\ Empty \in [snap : SUBSET Keys, age : 0..AdapterTTL]
BY Bounds DEF Idle, IdleRequest, Empty, Job, Request, Nothing

\* A fetch that is not too long under way yet stays where it is a moment longer.
LEMMA LongerJob ==
  ASSUME NEW job \in Job, job.pc \notin {"idle", "wait"} => job.took < Slow
  PROVE  /\ Longer(job) \in Job /\ Longer(job).pc = job.pc /\ Longer(job).snap = job.snap
         /\ job.pc \notin {"idle", "wait"} => Longer(job).took = job.took + 1
<1>1. CASE job.pc \in {"idle", "wait"}
  BY <1>1 DEF Longer
<1>2. CASE job.pc \notin {"idle", "wait"}
  <2>1. job.took + 1 \in 0..Slow
    BY <1>2, Bounds DEF Job
  <2>2. Longer(job) = [job EXCEPT !.took = job.took + 1]
    BY <1>2 DEF Longer
  <2> QED BY <1>2, <2>1, <2>2 DEF Job
<1> QED BY <1>1, <1>2

\* So does the monitor's,
LEMMA LongerMonitor ==
  ASSUME NEW job \in [pc : {"idle", "keep"}, snap : SUBSET Keys, took : 0..Slow],
         job.pc \notin {"idle", "wait"} => job.took < Slow
  PROVE  /\ Longer(job) \in [pc : {"idle", "keep"}, snap : SUBSET Keys, took : 0..Slow]
         /\ Longer(job).pc = job.pc /\ Longer(job).snap = job.snap
         /\ job.pc \notin {"idle", "wait"} => Longer(job).took = job.took + 1
<1>1. CASE job.pc \in {"idle", "wait"}
  BY <1>1 DEF Longer
<1>2. CASE job.pc \notin {"idle", "wait"}
  <2>1. job.took + 1 \in 0..Slow
    BY <1>2, Bounds
  <2>2. Longer(job) = [job EXCEPT !.took = job.took + 1]
    BY <1>2 DEF Longer
  <2> QED BY <1>2, <2>1, <2>2
<1> QED BY <1>1, <1>2

\* and a request.
LEMMA LongerRequest ==
  ASSUME NEW job \in Request, job.pc \notin {"idle", "wait"} => job.took < Slow
  PROVE  /\ Longer(job) \in Request /\ Longer(job).pc = job.pc
         /\ Longer(job).snap = job.snap /\ Longer(job).lost = job.lost
         /\ job.pc \notin {"idle", "wait"} => Longer(job).took = job.took + 1
<1>1. CASE job.pc \in {"idle", "wait"}
  BY <1>1 DEF Longer
<1>2. CASE job.pc \notin {"idle", "wait"}
  <2>1. job.took + 1 \in 0..Slow
    BY <1>2, Bounds DEF Request
  <2>2. Longer(job) = [job EXCEPT !.took = job.took + 1]
    BY <1>2 DEF Longer
  <2> QED BY <1>2, <2>1, <2>2 DEF Request
<1> QED BY <1>1, <1>2

\* Every step keeps the types.
LEMMA Typed == TypeOK /\ [Next]_vars => TypeOK'
<1> SUFFICES ASSUME TypeOK, [Next]_vars PROVE TypeOK'
  OBVIOUS
<1> USE Bounds
<1>a. /\ live \subseteq Keys /\ rows \subseteq Keys
      /\ opened \in [Keys -> 0..(MaxNews + 1)]
      /\ adapter \in [snap : SUBSET Keys, age : 0..AdapterTTL]
      /\ api \in [snap : SUBSET Keys, age : 0..Stale]
      /\ flight \in Job
      /\ monitor \in [pc : {"idle", "keep"}, snap : SUBSET Keys, took : 0..Slow]
      /\ handlers \in [Handlers -> Request]
      /\ \A h \in Handlers : handlers[h].pc = "wait" => flight.pc # "idle"
  BY DEF TypeOK, Job, Request
<1>b. 0 \in 0..Slow /\ 0 \in 0..AdapterTTL /\ 0 \in 0..Stale /\ 0 \in 0..(MaxNews + 1)
      /\ {} \in SUBSET Keys
  OBVIOUS
<1>1. ASSUME NEW k \in Keys, Trade(k) PROVE TypeOK'
  <2>1. adapter' \in [snap : SUBSET Keys, age : 0..AdapterTTL]
    BY <1>1, <1>a, IdleTyped DEF Trade
  <2>2. live' \subseteq Keys /\ opened' \in [Keys -> 0..(MaxNews + 1)]
    BY <1>1, <1>a, <1>b DEF Trade
  <2> QED BY <1>1, <1>a, <2>1, <2>2 DEF Trade, TypeOK, Job, Request
<1>2. ASSUME NEW k \in Keys, Sync(k) PROVE TypeOK'
  BY <1>2, <1>a DEF Sync, TypeOK, Job, Request
<1>3. CASE Tick
  <2>2. /\ flight' = Longer(flight) /\ monitor' = Longer(monitor)
        /\ handlers' = [h \in Handlers |-> Longer(handlers[h])]
        /\ flight.pc \notin {"idle", "wait"} => flight.took < Slow
        /\ monitor.pc \notin {"idle", "wait"} => monitor.took < Slow
        /\ \A h \in Handlers : handlers[h].pc \notin {"idle", "wait"} => handlers[h].took < Slow
    BY <1>3 DEF Tick
  <2>3. flight' \in Job /\ flight'.pc = flight.pc
    BY <1>a, <2>2, LongerJob
  <2>4. monitor' \in [pc : {"idle", "keep"}, snap : SUBSET Keys, took : 0..Slow]
    BY <1>a, <2>2, LongerMonitor
  <2>5. \A h \in Handlers : handlers'[h] \in Request /\ handlers'[h].pc = handlers[h].pc
    BY <1>a, <2>2, LongerRequest
  <2>6. handlers' \in [Handlers -> Request]
    BY <2>2, <2>5
  <2>7. opened' \in [Keys -> 0..(MaxNews + 1)]
    <3>1. MaxNews + 1 \in Nat
      OBVIOUS
    <3>2. \A k \in Keys : Capped(opened[k], MaxNews + 1) \in 0..(MaxNews + 1)
      BY <1>a, <3>1, CappedIs
    <3>3. \A k \in Keys : (IF k \in live THEN Capped(opened[k], MaxNews + 1) ELSE 0) \in 0..(MaxNews + 1)
      BY <1>b, <3>2
    <3> QED BY <1>3, <3>3 DEF Tick
  <2>8. /\ adapter' \in [snap : SUBSET Keys, age : 0..AdapterTTL]
        /\ api' \in [snap : SUBSET Keys, age : 0..Stale]
    BY <1>3, <1>a, CappedIs DEF Tick
  <2>9. UNCHANGED <<live, rows>>
    BY <1>3 DEF Tick
  <2> QED BY <1>a, <2>3, <2>4, <2>5, <2>6, <2>7, <2>8, <2>9 DEF TypeOK, Job, Request
<1>4. CASE MonitorAsk
  BY <1>4, <1>a, <1>b DEF MonitorAsk, TypeOK, Job, Request
<1>5. CASE MonitorKeep
  <2>1. adapter' \in [snap : SUBSET Keys, age : 0..AdapterTTL]
    BY <1>5, <1>a, <1>b DEF MonitorKeep
  <2>2. monitor' \in [pc : {"idle", "keep"}, snap : SUBSET Keys, took : 0..Slow]
    BY <1>5, <1>b DEF MonitorKeep, Idle, Nothing
  <2> QED BY <1>5, <1>a, <2>1, <2>2 DEF MonitorKeep, TypeOK, Job, Request
<1>6. Started \in Job /\ Started.pc # "idle"
  BY <1>a, <1>b DEF Started, Idle, Nothing, Job
<1>7. CASE WarmUp
  BY <1>7, <1>a, <1>6 DEF WarmUp, TypeOK, Job, Request
<1>8. CASE FlightAsk
  <2>1. flight' \in Job /\ flight'.pc # "idle"
    BY <1>8, <1>a DEF FlightAsk, Job
  <2> QED BY <1>8, <1>a, <2>1 DEF FlightAsk, TypeOK, Job, Request
<1>9. CASE FlightKeep
  <2>1. flight' \in Job /\ flight'.pc # "idle"
    BY <1>9, <1>a DEF FlightKeep, Job
  <2>2. adapter' \in [snap : SUBSET Keys, age : 0..AdapterTTL]
    BY <1>9, <1>a, <1>b DEF FlightKeep, Job
  <2> QED BY <1>9, <1>a, <2>1, <2>2 DEF FlightKeep, TypeOK, Job, Request
<1>10. CASE FlightDone
  <2>1. api' \in [snap : SUBSET Keys, age : 0..Stale]
    BY <1>10, <1>a, <1>b DEF FlightDone, Job
  <2>2. \A h \in Handlers : handlers'[h] \in Request /\ handlers'[h].pc # "wait"
    BY <1>10, <1>a, <1>b DEF FlightDone, Woken, Request, Job, IdleRequest
  <2>3. handlers' \in [Handlers -> Request]
    BY <1>10, <2>2 DEF FlightDone, Woken
  <2> QED BY <1>10, <1>a, <2>1, <2>2, <2>3, IdleTyped DEF FlightDone, TypeOK, Job, Request
<1>11. CASE FlightFails
  <2>1. \A h \in Handlers : handlers'[h] \in Request /\ handlers'[h].pc # "wait"
    BY <1>11, <1>a, <1>b, IdleTyped DEF FlightFails, Request, IdleRequest
  <2>2. handlers' \in [Handlers -> Request]
    BY <1>11, <2>1 DEF FlightFails
  <2> QED BY <1>11, <1>a, <2>1, <2>2, IdleTyped DEF FlightFails, TypeOK, Job, Request
<1>12. ASSUME NEW h \in Handlers, GetPositions(h) PROVE TypeOK'
  <2>1. handlers' \in [Handlers -> Request]
    BY <1>12, <1>a, <1>b DEF GetPositions, IdleRequest, Request
  <2>2. flight' \in Job /\ (flight'.pc = "idle" => flight.pc = "idle" /\ Served)
    BY <1>12, <1>a, <1>6 DEF GetPositions
  <2>3. handlers'[h].pc = "wait" => ~Served
    BY <1>12, <1>a DEF GetPositions, IdleRequest
  <2>4. \A g \in Handlers : handlers'[g].pc = "wait" => flight'.pc # "idle"
    BY <1>12, <1>a, <2>2, <2>3 DEF GetPositions
  <2> QED BY <1>12, <1>a, <2>1, <2>2, <2>4 DEF GetPositions, TypeOK, Job, Request
<1>13. ASSUME NEW h \in Handlers, Answer(h) PROVE TypeOK'
  <2>1. PICK x \in Request : x.pc # "wait" /\ handlers' = [handlers EXCEPT ![h] = x]
    <3>1. CASE CheckFresh(h)
      <4>1. [handlers[h] EXCEPT !.pc = "sweep"] \in Request /\ [handlers[h] EXCEPT !.pc = "sweep"].pc = "sweep"
        BY <1>a DEF Request
      <4>2. IdleRequest.pc = "idle"
        BY DEF IdleRequest
      <4> QED BY <3>1, <4>1, <4>2, IdleTyped DEF CheckFresh
    <3>2. CASE Sweep(h)
      <4>1. IdleRequest.pc = "idle"
        BY DEF IdleRequest
      <4> QED BY <3>2, <4>1, IdleTyped DEF Sweep
    <3> QED BY <1>13, <3>1, <3>2 DEF Answer
  <2>2. handlers' \in [Handlers -> Request] /\ \A g \in Handlers : handlers'[g].pc = "wait" => handlers[g].pc = "wait"
    BY <1>a, <2>1
  <2>3. rows' \subseteq rows /\ UNCHANGED <<live, opened, adapter, api, flight, monitor>>
    BY <1>13 DEF Answer, CheckFresh, Sweep
  <2> QED BY <1>a, <2>2, <2>3 DEF TypeOK, Job, Request
<1>14. CASE UNCHANGED vars
  BY <1>14, <1>a DEF vars, TypeOK, Job, Request
<1> QED BY <1>1, <1>2, <1>3, <1>4, <1>5, <1>7, <1>8, <1>9, <1>10, <1>11, <1>12, <1>13, <1>14
           DEF Next, FlightStep

\* The first state is typed.
LEMMA InitTyped == Init => TypeOK
<1> SUFFICES ASSUME Init PROVE TypeOK
  OBVIOUS
<1>1. /\ Stale \in 0..Stale /\ 0 \in 0..(MaxNews + 1) /\ 0 \in 0..Slow /\ {} \in SUBSET Keys
  BY Bounds
<1>2. live \subseteq Keys /\ rows \subseteq Keys /\ opened \in [Keys -> 0..(MaxNews + 1)]
  BY <1>1 DEF Init
<1>3. adapter \in [snap : SUBSET Keys, age : 0..AdapterTTL] /\ api \in [snap : SUBSET Keys, age : 0..Stale]
  BY <1>1, IdleTyped DEF Init, Nothing
<1>4. flight \in Job /\ monitor \in [pc : {"idle", "keep"}, snap : SUBSET Keys, took : 0..Slow]
  BY <1>1, IdleTyped DEF Init, Idle, Nothing
<1>5. handlers \in [Handlers -> Request] /\ \A h \in Handlers : handlers[h].pc # "wait"
  BY IdleTyped DEF Init, IdleRequest
<1> QED BY <1>2, <1>3, <1>4, <1>5 DEF TypeOK, Job, Request

\* Whatever the handlers, the shared fetch and the monitor do, ages and durations
\* keep their bounds, and a request only waits while a fetch is under way.
THEOREM TypeCorrect == Spec => []TypeOK
BY InitTyped, Typed, PTL DEF Spec

-----------------------------------------------------------------------------
(* How old a list can be *)

\* The list is news of at most this age: what it misses was opened since.
News(list, age) == \A k \in live \ list : opened[k] <= age

\* Every list that may reach a sweep is not older than the places it came
\* through allow, but for the list a failed fetch fell back to.
NewsInv ==
  /\ monitor.pc = "keep" => News(monitor.snap, monitor.took)
  /\ flight.pc = "keep" => News(flight.snap, flight.took)
  /\ flight.pc = "project" => News(flight.snap, AdapterTTL + Slow + flight.took)
  /\ Cached => News(adapter.snap, Slow + adapter.age)
  /\ Served => News(api.snap, AdapterTTL + 2 * Slow + api.age)
  /\ \A h \in Handlers : handlers[h].pc \in {"check", "sweep"} /\ ~handlers[h].lost
                           => News(handlers[h].snap, AdapterTTL + 2 * Slow + Stale + handlers[h].took)

\* A trade is news itself, and time makes every list as much older as the positions.
LEMMA NewsStay ==
  ASSUME TypeOK, NEW list, NEW age \in Nat, News(list, age),
         \/ UNCHANGED <<live, opened>>
         \/ \E k \in Keys : Trade(k)
  PROVE  News(list, age)'
<1>1. CASE UNCHANGED <<live, opened>>
  BY <1>1 DEF News
<1>2. ASSUME NEW k \in Keys, Trade(k) PROVE News(list, age)'
  <2>1. live' \subseteq live \cup {k} /\ opened' = [opened EXCEPT ![k] = 0]
    BY <1>2 DEF Trade
  <2>2. \A j \in live' \ list : opened'[j] <= age
    BY <2>1 DEF News, TypeOK
  <2> QED BY <2>2 DEF News
<1> QED BY <1>1, <1>2

\* News grow older with the clock.
LEMMA NewsAge ==
  ASSUME TypeOK, Tick, NEW list, NEW age \in Nat, News(list, age)
  PROVE  News(list, age + 1)'
<1>1. live' = live /\ opened' = [k \in Keys |-> IF k \in live THEN Capped(opened[k], MaxNews + 1) ELSE 0]
  BY DEF Tick
<1>2. ASSUME NEW k \in live \ list PROVE opened'[k] <= age + 1
  <2>1. k \in Keys /\ opened[k] \in 0..(MaxNews + 1) /\ opened[k] <= age /\ MaxNews + 1 \in Nat
    BY Bounds DEF News, TypeOK
  <2>2. opened'[k] = Capped(opened[k], MaxNews + 1)
    BY <1>1, <2>1
  <2>3. Capped(opened[k], MaxNews + 1) \in 0..(MaxNews + 1) /\ Capped(opened[k], MaxNews + 1) <= opened[k] + 1
    BY <2>1, CappedIs
  <2> QED BY <2>1, <2>2, <2>3
<1> QED BY <1>1, <1>2 DEF News

\* News of some age are news of any greater one.
LEMMA OlderNews ==
  ASSUME TypeOK, NEW list, NEW a \in Nat, NEW b \in Nat, a <= b, News(list, a)
  PROVE  News(list, b)
<1>1. \A k \in live : opened[k] \in Nat
  BY Bounds DEF TypeOK
<1> QED BY <1>1 DEF News

\* A list that is the exchange's own misses nothing.
LEMMA LiveIsNews == \A age : News(live, age)
BY DEF News

\* How long each took, and how old each cache is, are numbers.
LEMMA Ages ==
  ASSUME TypeOK
  PROVE  /\ adapter.age \in 0..AdapterTTL /\ api.age \in 0..Stale
         /\ flight.took \in 0..Slow /\ monitor.took \in 0..Slow
         /\ \A h \in Handlers : handlers[h].took \in 0..Slow
BY DEF TypeOK

\* A trade makes no list older; a cache the adapter drops is not looked at.
LEMMA NewsTrade ==
  ASSUME TypeOK, NewsInv, NEW k \in Keys, Trade(k)
  PROVE  NewsInv'
<1> USE Bounds, Ages
<1>1. UNCHANGED <<api, flight, monitor, handlers>>
  BY DEF Trade
<1>2. \A list : \A age \in Nat : News(list, age) => News(list, age)'
  BY NewsStay
<1>3. (monitor.pc = "keep" => News(monitor.snap, monitor.took))'
  BY <1>1, <1>2 DEF NewsInv
<1>4. (flight.pc = "keep" => News(flight.snap, flight.took))'
  BY <1>1, <1>2 DEF NewsInv
<1>5. (flight.pc = "project" => News(flight.snap, AdapterTTL + Slow + flight.took))'
  BY <1>1, <1>2 DEF NewsInv
<1>6. (Cached => News(adapter.snap, Slow + adapter.age))'
  <2>1. CASE adapter' = adapter
    BY <1>2, <2>1 DEF NewsInv, Cached
  <2>2. CASE adapter' = Empty
    BY <2>2 DEF Cached, Empty
  <2> QED BY <2>1, <2>2 DEF Trade
<1>7. (Served => News(api.snap, AdapterTTL + 2 * Slow + api.age))'
  BY <1>1, <1>2 DEF NewsInv, Served
<1>8. (\A h \in Handlers : handlers[h].pc \in {"check", "sweep"} /\ ~handlers[h].lost
         => News(handlers[h].snap, AdapterTTL + 2 * Slow + Stale + handlers[h].took))'
  BY <1>1, <1>2 DEF NewsInv
<1> QED BY <1>3, <1>4, <1>5, <1>6, <1>7, <1>8 DEF NewsInv

\* News of that age after the step.
LaterNews(list, age) == \A k \in live' \ list : opened'[k] <= age

\* The clock makes every list older where it rests; one that gets too old is not served.
LEMMA NewsTick ==
  ASSUME TypeOK, NewsInv, Tick
  PROVE  NewsInv'
<1> USE Bounds, Ages
<1>1. \A list : \A age \in Nat : News(list, age) => LaterNews(list, age + 1)
  BY NewsAge DEF LaterNews, News
<1>2. /\ adapter' = [adapter EXCEPT !.age = Capped(@, AdapterTTL)]
      /\ api' = [api EXCEPT !.age = Capped(@, Stale)]
      /\ flight' = Longer(flight) /\ monitor' = Longer(monitor)
      /\ handlers' = [h \in Handlers |-> Longer(handlers[h])]
      /\ flight.pc \notin {"idle", "wait"} => flight.took < Slow
      /\ monitor.pc \notin {"idle", "wait"} => monitor.took < Slow
      /\ \A h \in Handlers : handlers[h].pc \notin {"idle", "wait"} => handlers[h].took < Slow
  BY DEF Tick
<1>3. (monitor.pc = "keep" => News(monitor.snap, monitor.took))'
  <2>1. /\ monitor'.pc = monitor.pc /\ monitor'.snap = monitor.snap
        /\ monitor.pc = "keep" => monitor'.took = monitor.took + 1
    BY <1>2, LongerMonitor DEF TypeOK
  <2>2. monitor.pc = "keep" => LaterNews(monitor.snap, monitor.took + 1)
    BY <1>1 DEF NewsInv
  <2> QED BY <2>1, <2>2 DEF LaterNews, News
<1>4. /\ flight'.pc = flight.pc /\ flight'.snap = flight.snap
      /\ flight.pc \in {"keep", "project"} => flight'.took = flight.took + 1
  <2>1. flight \in Job
    BY DEF TypeOK, Job
  <2> QED BY <1>2, <2>1, LongerJob
<1>5. (flight.pc = "keep" => News(flight.snap, flight.took))'
  <2>1. flight.pc = "keep" => LaterNews(flight.snap, flight.took + 1)
    BY <1>1 DEF NewsInv
  <2> QED BY <1>4, <2>1 DEF LaterNews, News
<1>6. (flight.pc = "project" => News(flight.snap, AdapterTTL + Slow + flight.took))'
  <2>1. flight.pc = "project" => LaterNews(flight.snap, (AdapterTTL + Slow + flight.took) + 1)
    BY <1>1 DEF NewsInv
  <2>2. flight.pc = "project"
          => AdapterTTL + Slow + flight'.took = (AdapterTTL + Slow + flight.took) + 1
    BY <1>4
  <2> QED BY <1>4, <2>1, <2>2 DEF LaterNews, News
<1>7. (Cached => News(adapter.snap, Slow + adapter.age))'
  <2>1. /\ adapter'.snap = adapter.snap
        /\ adapter'.age = Capped(adapter.age, AdapterTTL)
    BY <1>2 DEF TypeOK
  <2>2. Cached' => Cached /\ Slow + adapter'.age = (Slow + adapter.age) + 1
    BY <2>1 DEF Cached, Capped
  <2>3. Cached => LaterNews(adapter.snap, (Slow + adapter.age) + 1)
    BY <1>1 DEF NewsInv
  <2> QED BY <2>1, <2>2, <2>3 DEF LaterNews, News
<1>8. (Served => News(api.snap, AdapterTTL + 2 * Slow + api.age))'
  <2>1. /\ api'.snap = api.snap
        /\ api'.age = Capped(api.age, Stale)
    BY <1>2 DEF TypeOK
  <2>2. Served' => Served /\ AdapterTTL + 2 * Slow + api'.age = (AdapterTTL + 2 * Slow + api.age) + 1
    BY <2>1 DEF Served, Capped
  <2>3. Served => LaterNews(api.snap, (AdapterTTL + 2 * Slow + api.age) + 1)
    BY <1>1 DEF NewsInv
  <2> QED BY <2>1, <2>2, <2>3 DEF LaterNews, News
<1>9. (\A h \in Handlers : handlers[h].pc \in {"check", "sweep"} /\ ~handlers[h].lost
         => News(handlers[h].snap, AdapterTTL + 2 * Slow + Stale + handlers[h].took))'
  <2> SUFFICES ASSUME NEW h \in Handlers
               PROVE  (handlers[h].pc \in {"check", "sweep"} /\ ~handlers[h].lost
                        => News(handlers[h].snap, AdapterTTL + 2 * Slow + Stale + handlers[h].took))'
    OBVIOUS
  <2>1. /\ handlers'[h].pc = handlers[h].pc /\ handlers'[h].snap = handlers[h].snap
        /\ handlers'[h].lost = handlers[h].lost
        /\ handlers[h].pc \in {"check", "sweep"} => handlers'[h].took = handlers[h].took + 1
    <3>1. handlers[h] \in Request
      BY DEF TypeOK, Request
    <3> QED BY <1>2, <3>1, LongerRequest
  <2>2. handlers[h].pc \in {"check", "sweep"} /\ ~handlers[h].lost
          => LaterNews(handlers[h].snap, (AdapterTTL + 2 * Slow + Stale + handlers[h].took) + 1)
    BY <1>1 DEF NewsInv
  <2>3. handlers[h].pc \in {"check", "sweep"}
          => AdapterTTL + 2 * Slow + Stale + handlers'[h].took
               = (AdapterTTL + 2 * Slow + Stale + handlers[h].took) + 1
    BY <2>1
  <2> QED BY <2>1, <2>2, <2>3 DEF LaterNews, News
<1> QED BY <1>3, <1>5, <1>6, <1>7, <1>8, <1>9 DEF NewsInv

\* A request that got this list and looks at the cache's timestamp next.
Got(x, list) == x.pc = "check" /\ x.snap = list /\ x.took = 0

\* What the cache, or the fetch it joined, makes of a request.
LEMMA Asked ==
  ASSUME NEW list
  PROVE  /\ Got([IdleRequest EXCEPT !.pc = "check", !.snap = list], list)
         /\ [IdleRequest EXCEPT !.pc = "wait", !.snap = list].pc = "wait"
BY DEF IdleRequest, Got

\* The other steps pass lists on, never as younger than they are.
LEMMA NewsPass ==
  ASSUME TypeOK, NewsInv, UNCHANGED <<live, opened>>,
         \/ \E k \in Keys : Sync(k)
         \/ MonitorAsk \/ MonitorKeep \/ WarmUp \/ FlightStep \/ FlightFails
         \/ \E h \in Handlers : GetPositions(h) \/ Answer(h)
         \/ UNCHANGED vars
  PROVE  NewsInv'
<1> USE Bounds, Ages
<1>a. \A list, age : News(list, age)' <=> News(list, age)
  BY DEF News
<1>1. (monitor.pc = "keep" => News(monitor.snap, monitor.took))'
  <2>1. monitor' = monitor \/ MonitorAsk \/ MonitorKeep
    BY DEF Sync, WarmUp, FlightStep, FlightAsk, FlightKeep, FlightDone, FlightFails,
           GetPositions, Answer, CheckFresh, Sweep, vars
  <2>2. CASE monitor' = monitor
    BY <1>a, <2>2 DEF NewsInv
  <2>3. CASE MonitorAsk
    BY <1>a, <2>3, LiveIsNews DEF MonitorAsk
  <2>4. CASE MonitorKeep
    BY <2>4 DEF MonitorKeep, Idle
  <2> QED BY <2>1, <2>2, <2>3, <2>4
<1>2. flight' = flight \/ flight'.pc \in {"idle", "ask"} \/ FlightAsk \/ FlightKeep
  <2>1. Started = flight \/ Started.pc = "ask"
    BY DEF Started, Idle
  <2>2. Idle.pc = "idle"
    BY DEF Idle
  <2> QED BY <2>1, <2>2 DEF Sync, MonitorAsk, MonitorKeep, WarmUp, FlightStep, FlightDone, FlightFails,
                            GetPositions, Answer, CheckFresh, Sweep, vars
<1>3. /\ (flight.pc = "keep" => News(flight.snap, flight.took))'
      /\ (flight.pc = "project" => News(flight.snap, AdapterTTL + Slow + flight.took))'
  <2>1. CASE flight' = flight
    BY <1>a, <2>1 DEF NewsInv
  <2>2. CASE flight'.pc \in {"idle", "ask"}
    BY <2>2
  <2>3. CASE FlightAsk
    <3>1. CASE Cached
      <4>1. flight'.pc = "project" /\ flight'.snap = adapter.snap /\ flight'.took = flight.took
        BY <2>3, <3>1 DEF FlightAsk, TypeOK
      <4>2. News(adapter.snap, Slow + adapter.age)
        BY <3>1 DEF NewsInv
      <4>3. Slow + adapter.age <= AdapterTTL + Slow + flight.took
        BY <3>1 DEF Cached
      <4>4. News(adapter.snap, AdapterTTL + Slow + flight.took)
        BY <4>2, <4>3, OlderNews
      <4> QED BY <1>a, <4>1, <4>4
    <3>2. CASE ~Cached
      BY <1>a, <2>3, <3>2, LiveIsNews DEF FlightAsk, TypeOK
    <3> QED BY <3>1, <3>2
  <2>4. CASE FlightKeep
    <3>1. flight'.pc = "project" /\ flight'.snap = flight.snap /\ flight'.took = flight.took
      BY <2>4 DEF FlightKeep, TypeOK
    <3>2. News(flight.snap, AdapterTTL + Slow + flight.took)
      BY <2>4, OlderNews DEF FlightKeep, NewsInv
    <3> QED BY <1>a, <3>1, <3>2
  <2> QED BY <1>2, <2>1, <2>2, <2>3, <2>4
<1>4. (Cached => News(adapter.snap, Slow + adapter.age))'
  <2>1. adapter' = adapter \/ MonitorKeep \/ FlightKeep
    BY DEF Sync, MonitorAsk, WarmUp, FlightStep, FlightAsk, FlightDone, FlightFails,
           GetPositions, Answer, CheckFresh, Sweep, vars
  <2>2. CASE adapter' = adapter
    BY <1>a, <2>2 DEF NewsInv, Cached
  <2>3. CASE MonitorKeep
    <3>1. adapter' = [snap |-> monitor.snap, age |-> 0] /\ News(monitor.snap, monitor.took)
      BY <2>3 DEF MonitorKeep, NewsInv
    <3>2. News(monitor.snap, Slow)
      BY <3>1, OlderNews
    <3> QED BY <1>a, <3>1, <3>2
  <2>4. CASE FlightKeep /\ adapter' # adapter
    <3>1. adapter' = [snap |-> flight.snap, age |-> 0] /\ News(flight.snap, flight.took)
      BY <2>4 DEF FlightKeep, NewsInv
    <3>2. News(flight.snap, Slow)
      BY <3>1, OlderNews
    <3> QED BY <1>a, <3>1, <3>2
  <2> QED BY <2>1, <2>2, <2>3, <2>4
<1>5. FlightDone => News(flight.snap, AdapterTTL + 2 * Slow)
  <2>1. FlightDone => News(flight.snap, AdapterTTL + Slow + flight.took)
    BY DEF FlightDone, NewsInv
  <2> QED BY <2>1, OlderNews
<1>6. (Served => News(api.snap, AdapterTTL + 2 * Slow + api.age))'
  <2>1. api' = api \/ FlightDone
    BY DEF Sync, MonitorAsk, MonitorKeep, WarmUp, FlightStep, FlightAsk, FlightKeep, FlightFails,
           GetPositions, Answer, CheckFresh, Sweep, vars
  <2>2. CASE api' = api
    BY <1>a, <2>2 DEF NewsInv, Served
  <2>3. CASE FlightDone
    <3>1. api' = [snap |-> flight.snap, age |-> 0]
      BY <2>3 DEF FlightDone
    <3> QED BY <1>a, <1>5, <2>3, <3>1
  <2> QED BY <2>1, <2>2, <2>3
<1>7. (\A h \in Handlers : handlers[h].pc \in {"check", "sweep"} /\ ~handlers[h].lost
         => News(handlers[h].snap, AdapterTTL + 2 * Slow + Stale + handlers[h].took))'
  <2> SUFFICES ASSUME NEW h \in Handlers, (handlers[h].pc \in {"check", "sweep"} /\ ~handlers[h].lost)'
               PROVE  News(handlers'[h].snap, AdapterTTL + 2 * Slow + Stale + handlers'[h].took)
    BY <1>a
  <2>1. \/ handlers'[h] = handlers[h]
        \/ FlightDone /\ Got(handlers'[h], flight.snap)
        \/ handlers'[h] = [handlers[h] EXCEPT !.pc = "check", !.lost = TRUE]
        \/ Served /\ Got(handlers'[h], api.snap)
        \/ handlers[h].pc = "check" /\ handlers'[h] = [handlers[h] EXCEPT !.pc = "sweep"]
    <3>0. IdleRequest.pc = "idle" /\ handlers \in [Handlers -> Request]
      BY DEF IdleRequest, TypeOK, Request
    <3>1. CASE handlers' = handlers
      BY <3>1
    <3>2. CASE FlightDone
      BY <3>2, Asked DEF FlightDone, Woken
    <3>3. CASE FlightFails
      BY <3>0, <3>3 DEF FlightFails
    <3>4. ASSUME NEW g \in Handlers, GetPositions(g)
          PROVE  handlers'[h] = handlers[h] \/ (Served /\ Got(handlers'[h], api.snap))
      <4>1. PICK x : handlers' = [handlers EXCEPT ![g] = x] /\ (Served => Got(x, api.snap))
                     /\ (~Served => x.pc = "wait")
        <5>1. CASE Served
          BY <3>4, <5>1, Asked DEF GetPositions
        <5>2. CASE ~Served
          BY <3>4, <5>2, Asked DEF GetPositions
        <5> QED BY <5>1, <5>2
      <4>2. CASE g # h
        BY <3>0, <4>1, <4>2
      <4>3. CASE g = h
        BY <3>0, <4>1, <4>3
      <4> QED BY <4>2, <4>3
    <3>5. ASSUME NEW g \in Handlers, Answer(g)
          PROVE  handlers'[h] = handlers[h] \/ (handlers[h].pc = "check" /\ handlers'[h] = [handlers[h] EXCEPT !.pc = "sweep"])
      BY <3>0, <3>5 DEF Answer, CheckFresh, Sweep
    <3> QED BY <3>1, <3>2, <3>3, <3>4, <3>5
            DEF Sync, MonitorAsk, MonitorKeep, WarmUp, FlightStep, FlightAsk, FlightKeep, vars
  <2>2. handlers[h] \in Request
    BY DEF TypeOK, Request
  <2>3. CASE handlers'[h] = handlers[h]
    BY <2>3 DEF NewsInv
  <2>4. CASE FlightDone /\ Got(handlers'[h], flight.snap)
    <3>1. handlers'[h].snap = flight.snap /\ handlers'[h].took = 0
      BY <2>4 DEF Got
    <3>2. News(flight.snap, AdapterTTL + 2 * Slow + Stale + 0)
      BY <1>5, <2>4, OlderNews
    <3> QED BY <3>1, <3>2
  <2>5. CASE handlers'[h] = [handlers[h] EXCEPT !.pc = "check", !.lost = TRUE]
    BY <2>2, <2>5 DEF Request
  <2>6. CASE Served /\ Got(handlers'[h], api.snap)
    <3>1. handlers'[h].snap = api.snap /\ handlers'[h].took = 0
      BY <2>6 DEF Got
    <3>2. News(api.snap, AdapterTTL + 2 * Slow + api.age)
      BY <2>6 DEF NewsInv
    <3>3. News(api.snap, AdapterTTL + 2 * Slow + Stale + 0)
      BY <3>2, OlderNews
    <3> QED BY <3>1, <3>3
  <2>7. CASE handlers[h].pc = "check" /\ handlers'[h] = [handlers[h] EXCEPT !.pc = "sweep"]
    BY <2>2, <2>7 DEF NewsInv, Request
  <2> QED BY <2>1, <2>3, <2>4, <2>5, <2>6, <2>7
<1> QED BY <1>1, <1>3, <1>4, <1>6, <1>7 DEF NewsInv

\* Every step keeps every list within its age.
LEMMA NewsNext == TypeOK /\ NewsInv /\ [Next]_vars => NewsInv'
<1> SUFFICES ASSUME TypeOK, NewsInv, [Next]_vars PROVE NewsInv'
  OBVIOUS
<1>1. CASE \E k \in Keys : Trade(k)
  BY <1>1, NewsTrade
<1>2. CASE Tick
  BY <1>2, NewsTick
<1>3. CASE \/ \E k \in Keys : Sync(k)
           \/ MonitorAsk \/ MonitorKeep \/ WarmUp \/ FlightStep \/ FlightFails
           \/ \E h \in Handlers : GetPositions(h) \/ Answer(h)
           \/ UNCHANGED vars
  <2>1. UNCHANGED <<live, opened>>
    BY <1>3 DEF Sync, MonitorAsk, MonitorKeep, WarmUp, FlightStep, FlightAsk, FlightKeep, FlightDone,
                FlightFails, GetPositions, Answer, CheckFresh, Sweep, vars
  <2> QED BY <1>3, <2>1, NewsPass
<1> QED BY <1>1, <1>2, <1>3 DEF Next

\* A step closes a row because its position is gone, or because the list of a
\* request does not hold it.
LEMMA ClosedOnOldList ==
  ASSUME TypeOK, NewsInv, Next
  PROVE  SweepOfLostFetch \/ ClosedOnNewsOf(MaxNews)
<1>1. CASE rows \subseteq rows'
  BY <1>1 DEF ClosedOnNewsOf
<1>2. ASSUME NEW k \in Keys, Sync(k) PROVE ClosedOnNewsOf(MaxNews)
  BY <1>2 DEF Sync, ClosedOnNewsOf
<1>3. ASSUME NEW h \in Handlers, Sweep(h) PROVE SweepOfLostFetch \/ ClosedOnNewsOf(MaxNews)
  <2>1. CASE handlers[h].lost
    <3>1. handlers'[h].pc = "idle" /\ handlers[h].pc = "sweep"
      BY <1>3 DEF Sweep, TypeOK, IdleRequest
    <3> QED BY <2>1, <3>1 DEF SweepOfLostFetch
  <2>2. CASE ~handlers[h].lost
    <3>1. News(handlers[h].snap, AdapterTTL + 2 * Slow + Stale + handlers[h].took)
      BY <1>3, <2>2 DEF NewsInv, Sweep
    <3>2. AdapterTTL + 2 * Slow + Stale + handlers[h].took <= MaxNews
      BY Bounds, Ages DEF MaxNews
    <3>3. News(handlers[h].snap, MaxNews)
      BY <3>1, <3>2, Bounds, Ages, OlderNews
    <3>4. rows \ rows' \subseteq rows \ handlers[h].snap
      BY <1>3 DEF Sweep, ToClose
    <3> QED BY <3>3, <3>4 DEF News, ClosedOnNewsOf
  <2> QED BY <2>1, <2>2
<1>4. rows' = rows \/ (\E k \in Keys : Sync(k)) \/ (\E h \in Handlers : Sweep(h))
  BY DEF Next, Trade, Tick, MonitorAsk, MonitorKeep, WarmUp, FlightStep, FlightAsk, FlightKeep, FlightDone,
         FlightFails, GetPositions, Answer, CheckFresh
<1> QED BY <1>1, <1>2, <1>3, <1>4

\* A position that has been open for longer than the stale window, the adapter's
\* cache and three steps together keeps its row, whatever requests, refreshes,
\* the monitor, trades and the clock interleave, unless the request's own fetch
\* failed.
THEOREM OldRowsKept == Spec => OldPositionsKeepRows
<1>1. Init => NewsInv
  BY DEF Init, NewsInv, Idle, IdleRequest, Empty, Cached, Served, Nothing
<1>2. TypeOK /\ NewsInv /\ [Next]_vars => [SweepOfLostFetch \/ ClosedOnNewsOf(MaxNews)]_vars
  BY ClosedOnOldList
<1>3. Init => TypeOK
  BY InitTyped
<1> QED BY <1>1, <1>2, <1>3, Typed, NewsNext, PTL DEF Spec, OldPositionsKeepRows
=============================================================================
