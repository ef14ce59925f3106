------------------------- MODULE GridTrading_proofs -------------------------
(***************************************************************************)
(* Theorems about GridTrading, for any candles, boxes, levels, faults and  *)
(* number of orders.                                                       *)
(***************************************************************************)
EXTENDS GridTrading, FiniteSetTheorems, WellFoundedInduction, NaturalsInduction, TLAPS

-----------------------------------------------------------------------------
(* The regime *)

\* Whatever the boxes, the price is in them: it is the close of the newest
\* candle, which every channel includes (calculateDonchian, GetBoxData).
LEMMA PriceIsInside ==
  ASSUME NEW h \in Histories, NEW n \in Nat \ {0}
  PROVE  Inside(h, n)
<1> DEFINE Candle == [low : Int, high : Int, close : Int]
<1>1. h \in Seq(Candle) /\ h # <<>>
  BY CandlesAssumption
<1>2. Len(h) \in Nat \ {0} /\ Len(h) \in DOMAIN h /\ DOMAIN h = 1 .. Len(h)
  BY <1>1
<1>3. h[Len(h)].low <= h[Len(h)].close /\ h[Len(h)].close <= h[Len(h)].high
  BY <1>2, CandlesAssumption
<1>4. Len(h) \in Channel(h, n)
  BY <1>2 DEF Channel
<1>5. h[Len(h)].low \in Int /\ h[Len(h)].high \in Int /\ h[Len(h)].close \in Int
  <2>1. h[Len(h)] \in Candle
    <3> HIDE DEF Candle
    <3> QED BY <1>1, <1>2
  <2> QED BY <2>1
<1>6. ~(h[Len(h)].high < Price(h)) /\ ~(Price(h) < h[Len(h)].low)
  BY <1>3, <1>5 DEF Price
<1> QED BY <1>4, <1>6 DEF Inside, Above, Below

\* While the price stays inside its range, no history shows a breakout.
LEMMA NoBreakout ==
  ASSUME NEW h \in Histories
  PROVE  Breakout(h) = [level |-> "none", way |-> "none"]
BY PriceIsInside, RegimeAssumption DEF Breakout

\* No breakout is on record, none is being confirmed, no direction was adjusted.
Undisturbed ==
  /\ regime \in Regime
  /\ regime.level \in {"unset", "none"} /\ regime.way = "none" /\ regime.count = 0
  /\ regime.direction = "neutral"

\* The check of a box records that there is no breakout, and starts nothing.
LEMMA CheckFindsNothing ==
  ASSUME NEW h \in Histories, Undisturbed
  PROVE  /\ Checked(regime, h) = [regime EXCEPT !.level = "none", !.way = "none", !.count = 0]
         /\ Sequel(regime, h) = <<>>
<1>1. Observed(regime, Breakout(h)) = [regime EXCEPT !.level = "none", !.way = "none", !.count = 0]
  <2>1. Breakout(h).level = "none" /\ Breakout(h).way = "none"
    BY NoBreakout
  <2> QED BY <2>1 DEF Observed
<1>2. Observed(regime, Breakout(h)).level = "none"
  BY <1>1 DEF Undisturbed, Regime
<1> QED BY <1>1, <1>2 DEF Checked, Sequel, Confirmed

\* A recovery lifts the pause and leaves the direction neutral.
LEMMA RecoveryLifts ==
  ASSUME NEW h \in Histories, regime \in Regime
  PROVE  /\ Recovered(regime, h).paused = FALSE
         /\ Undisturbed => /\ Recovered(regime, h) \in Regime
                           /\ Recovered(regime, h).level = "none"
                           /\ Recovered(regime, h).way = "none"
                           /\ Recovered(regime, h).count = 0
                           /\ Recovered(regime, h).direction = "neutral"
<1> DEFINE back == [regime EXCEPT !.level = "none", !.way = "none", !.count = 0,
                                  !.reduced = TRUE, !.paused = FALSE]
<1>1. Inside(h, LongBox)
  BY PriceIsInside, RegimeAssumption
<1>2. Recovered(regime, h) \in {back, [back EXCEPT !.direction = Toward(@)]}
  BY <1>1 DEF Recovered
<1>3. back \in Regime /\ back.paused = FALSE
  BY DEF Regime
<1>4. [back EXCEPT !.direction = Toward(@)].paused = FALSE
  <2> HIDE DEF back
  <2> QED BY <1>3 DEF Regime
<1>5. ASSUME Undisturbed
      PROVE  /\ back \in Regime /\ back.level = "none" /\ back.way = "none" /\ back.count = 0
             /\ back.direction = "neutral"
  BY <1>5 DEF Undisturbed, Regime, Directions
<1>6. ASSUME Undisturbed PROVE [back EXCEPT !.direction = Toward(@)] = back
  <2>1. Toward(back.direction) = back.direction
    BY <1>5, <1>6 DEF Toward
  <2> HIDE DEF back
  <2> QED BY <1>3, <2>1 DEF Regime
<1> QED BY <1>2, <1>3, <1>4, <1>5, <1>6

\* A grid that nothing disturbs stays undisturbed.
LEMMA UndisturbedStep == Undisturbed /\ [Next]_vars => Undisturbed'
<1> SUFFICES ASSUME Undisturbed, [Next]_vars PROVE Undisturbed'
  OBVIOUS
<1>a. regime \in Regime
  BY DEF Undisturbed
<1>b. ASSUME NEW p \in BOOLEAN, regime' = [regime EXCEPT !.paused = p] PROVE Undisturbed'
  BY <1>b DEF Undisturbed, Regime
<1>c. ASSUME UNCHANGED regime PROVE Undisturbed'
  BY <1>c DEF Undisturbed
<1>1. CASE StartCycle
  BY <1>1, <1>b, <1>c DEF StartCycle, Pause
<1>2. CASE CheckBoxBreakout
  <2>1. CASE UNCHANGED regime
    BY <2>1, <1>c
  <2>2. ASSUME NEW h \in Histories, regime' = Checked(regime, h) PROVE Undisturbed'
    <3>1. regime' = [regime EXCEPT !.level = "none", !.way = "none", !.count = 0]
      BY <2>2, CheckFindsNothing
    <3> QED BY <3>1 DEF Undisturbed, Regime
  <2> QED BY <1>2, <2>1, <2>2 DEF CheckBoxBreakout
<1>3. ASSUME NEW h \in Histories, Recover(h) PROVE Undisturbed'
  <2>1. regime' = Recovered(regime, h)
    BY <1>3 DEF Recover
  <2> QED BY <1>a, <2>1, RecoveryLifts DEF Undisturbed
<1>4. CASE ChangeGrid
  BY <1>4, <1>b, <1>c DEF ChangeGrid, Pause
<1>5. CASE Start
  BY <1>5 DEF Start, NewRegime, Undisturbed, Regime, Directions
<1>6. CASE Decide
  <2>1. ASSUME NEW side \in {"buy", "sell"}, NEW ask \in Asks,
               (\E i \in 0 .. N : PlaceGridLimitOrder(i, side, ask)) \/ ResponseLost(side, ask)
        PROVE  UNCHANGED regime
    BY <2>1 DEF PlaceGridLimitOrder, ResponseLost
  <2>2. ASSUME NEW o \in orders, CancelGridOrder(o) PROVE UNCHANGED regime
    BY <2>2 DEF CancelGridOrder
  <2>3. ASSUME NEW leg, NEW lots, ClosePosition(leg, lots) PROVE UNCHANGED regime
    BY <2>3 DEF ClosePosition
  <2>4. CASE StopDeciding
    BY <2>4, <1>c DEF StopDeciding
  <2> QED BY <1>4, <1>6, <1>c, <2>1, <2>2, <2>3, <2>4 DEF Decide
<1>7. CASE NoRecovery \/ Ask \/ CancelAllGridOrders \/ CancelFails \/ CloseAll \/ Relevel
           \/ NoPrice \/ List \/ Match \/ StopLosses \/ AutoAdjust
  <2>1. UNCHANGED regime
    BY <1>7 DEF NoRecovery, Ask, CancelAllGridOrders, CancelFails, CloseAll, Relevel, NoPrice,
                List, Match, StopLosses, AutoAdjust
  <2> QED BY <2>1, <1>c
<1>8. CASE Fill \/ Expire \/ Stop \/ Crash \/ UNCHANGED vars
  <2>1. UNCHANGED regime
    BY <1>8 DEF Fill, Expire, Stop, Crash, vars
  <2> QED BY <2>1, <1>c
<1> QED BY <1>1, <1>2, <1>3, <1>5, <1>6, <1>7, <1>8 DEF Next, Cycle

\* The boxes never report a breakout: none is ever recorded, counted or confirmed,
\* and the grid is never biased, whatever the market does (checkBoxBreakout).
THEOREM BreakoutsUnseen == Spec => []Undisturbed
<1>1. Init => Undisturbed
  BY DEF Init, NewRegime, Undisturbed, Regime, Directions
<1> QED BY <1>1, UndisturbedStep, PTL DEF Spec

\* The first recovery check that reads the box lifts a pause, whoever paused the
\* grid and why (checkFalseBreakoutRecovery).
THEOREM PausesEnd == Spec => PauseEndsAtNextCheck
<1>1. Undisturbed => (Now("recover") /\ (\E h \in Histories : Recover(h)) => ~regime'.paused)
  BY RecoveryLifts DEF Undisturbed, Recover
<1>2. Undisturbed => [Now("recover") /\ (\E h \in Histories : Recover(h)) => ~regime'.paused]_vars
  BY <1>1
<1> QED BY <1>2, BreakoutsUnseen, PTL DEF PauseEndsAtNextCheck

-----------------------------------------------------------------------------
(* The stages of a cycle *)

\* The levels are only matched with a list that was fetched just before.
ListsFirst(s) == \A i \in 2 .. Len(s) : s[i] = "match" => s[i - 1] = "list"

TodoOK == todo \in Seq(Stages) /\ ListsFirst(todo)

\* Stages that do not start with a match.
Quiet(s) == s \in Seq(Stages) /\ ListsFirst(s) /\ (s # <<>> => s[1] # "match")

\* A stage is over; nothing is matched next unless it was the listing.
LEMMA Advance ==
  ASSUME TodoOK, todo # <<>>
  PROVE  /\ Tail(todo) \in Seq(Stages) /\ ListsFirst(Tail(todo))
         /\ Head(todo) # "list" => Quiet(Tail(todo))
<1>1. todo \in Seq(Stages) /\ Len(todo) \in Nat \ {0} /\ Head(todo) = todo[1]
  BY DEF TodoOK
<1>2. Tail(todo) \in Seq(Stages) /\ Len(Tail(todo)) = Len(todo) - 1
  BY <1>1
<1>3. \A i \in 1 .. Len(Tail(todo)) : Tail(todo)[i] = todo[i + 1]
  BY <1>1
<1>4. ListsFirst(Tail(todo))
  <2> SUFFICES ASSUME NEW i \in 2 .. Len(Tail(todo)), Tail(todo)[i] = "match"
               PROVE  Tail(todo)[i - 1] = "list"
    BY DEF ListsFirst
  <2>1. Tail(todo)[i] = todo[i + 1] /\ Tail(todo)[i - 1] = todo[i]
    BY <1>2, <1>3
  <2> QED BY <1>1, <1>2, <2>1 DEF TodoOK, ListsFirst
<1>5. Head(todo) # "list" /\ Tail(todo) # <<>> => Tail(todo)[1] # "match"
  <2> SUFFICES ASSUME Head(todo) # "list", Tail(todo) # <<>>, Tail(todo)[1] = "match" PROVE FALSE
    OBVIOUS
  <2>1. Len(todo) >= 2 /\ todo[2] = "match"
    BY <1>1, <1>2, <1>3
  <2> QED BY <1>1, <2>1 DEF TodoOK, ListsFirst
<1> QED BY <1>2, <1>4, <1>5 DEF Quiet

\* Other stages come first.
LEMMA Detour ==
  ASSUME NEW p \in Seq(Stages \ {"match"}), NEW q, Quiet(q)
  PROVE  Quiet(p \o q)
<1>1. q \in Seq(Stages) /\ p \in Seq(Stages) /\ p \o q \in Seq(Stages)
  BY DEF Quiet
<1>2. Len(p) \in Nat /\ Len(q) \in Nat /\ Len(p \o q) = Len(p) + Len(q)
  BY <1>1
<1>3. \A i \in 1 .. Len(p \o q) : (p \o q)[i] = IF i <= Len(p) THEN p[i] ELSE q[i - Len(p)]
  BY <1>1, <1>2
<1>4. \A i \in 1 .. Len(p) : p[i] # "match"
  OBVIOUS
<1>5. \A i \in 1 .. Len(p \o q) :
        (p \o q)[i] = "match" => i > Len(p) + 1 /\ (p \o q)[i - 1] = "list"
  <2> SUFFICES ASSUME NEW i \in 1 .. Len(p \o q), (p \o q)[i] = "match"
               PROVE  i > Len(p) + 1 /\ (p \o q)[i - 1] = "list"
    OBVIOUS
  <2>1. i > Len(p) /\ q[i - Len(p)] = "match"
    BY <1>2, <1>3, <1>4
  <2> DEFINE j == i - Len(p)
  <2>2. j \in 1 .. Len(q) /\ q # <<>>
    BY <1>1, <1>2, <2>1
  <2>3. j # 1
    BY <2>1, <2>2 DEF Quiet
  <2>4. j \in 2 .. Len(q) /\ q[j - 1] = "list"
    BY <1>2, <2>1, <2>2, <2>3 DEF Quiet, ListsFirst
  <2>5. i - 1 \in 1 .. Len(p \o q) /\ i - 1 > Len(p) /\ (i - 1) - Len(p) = j - 1
    BY <1>2, <2>4
  <2> QED BY <1>2, <1>3, <2>4, <2>5
<1> QED BY <1>1, <1>2, <1>5 DEF Quiet, ListsFirst

\* A step goes on to a stage other than the matching, leaves the cycle where it
\* is, or lists the orders.
LEMMA TodoStep ==
  ASSUME TodoOK, [Next]_vars
  PROVE  \/ Quiet(todo')
         \/ UNCHANGED <<todo, listed>> /\ (Fill \/ Expire \/ Stop \/ Start \/ UNCHANGED vars)
         \/ List /\ TodoOK'
<1> DEFINE P == Seq(Stages \ {"match"})
<1>a. Quiet(<<>>) /\ Quiet(SyncStages)
  BY DEF Quiet, ListsFirst, SyncStages, Stages
<1>b. /\ <<>> \in P /\ <<"cancel">> \in P /\ <<"redirect">> \in P
      /\ <<"cancel", "close">> \in P /\ <<"cancel", "redirect">> \in P
      /\ <<"cancel", "reinit">> \in P /\ <<"cancel", "recentre">> \in P
      /\ <<"box", "recover", "ask">> \in P
  BY DEF Stages
<1>c. ASSUME NEW p \in P PROVE Quiet(p)
  <2>1. p \o <<>> = p
    BY <1>c
  <2> QED BY <1>a, <1>c, <2>1, Detour
<1>d. ASSUME NEW stage \in Stages \ {"list"}, Now(stage), Go PROVE Quiet(todo')
  BY <1>d, Advance DEF Now, Go
<1>e. ASSUME NEW stage \in Stages \ {"list"}, Now(stage), NEW p \in P, GoTo(p) PROVE Quiet(todo')
  <2>1. Quiet(Tail(todo)) /\ todo' = p \o Tail(todo)
    BY <1>e, Advance DEF Now, GoTo
  <2> QED BY <1>e, <2>1, Detour
<1>1. CASE StartCycle
  BY <1>1, <1>a, <1>b, <1>c DEF StartCycle
<1>2. CASE CheckBoxBreakout
  <2>1. ASSUME NEW h \in Histories PROVE Sequel(regime, h) \in P
    BY <1>b DEF Sequel
  <2> QED BY <1>2, <1>d, <1>e, <2>1 DEF CheckBoxBreakout, Stages
<1>3. ASSUME NEW h \in Histories, Recover(h) PROVE Quiet(todo')
  BY <1>3, <1>b, <1>d, <1>e DEF Recover, Stages
<1>4. CASE Ask
  <2>1. CASE todo' = <<>>
    BY <2>1, <1>a
  <2>2. ASSUME NEW n \in 0 .. MaxDecisions, todo' = [i \in 1 .. n |-> "decide"] \o SyncStages
        PROVE  Quiet(todo')
    <3>1. [i \in 1 .. n |-> "decide"] \in P
      BY TradingAssumption DEF Stages
    <3> QED BY <1>a, <2>2, <3>1, Detour
  <2> QED BY <1>4, <2>1, <2>2 DEF Ask
<1>5. CASE Decide
  <2>1. ASSUME NEW side \in {"buy", "sell"}, NEW ask \in Asks,
               (\E i \in 0 .. N : PlaceGridLimitOrder(i, side, ask)) \/ ResponseLost(side, ask)
        PROVE  Quiet(todo')
    BY <2>1, <1>d DEF PlaceGridLimitOrder, ResponseLost, Deciding, Stages
  <2>2. ASSUME NEW o \in orders, CancelGridOrder(o) PROVE Quiet(todo')
    BY <2>2, <1>d DEF CancelGridOrder, Deciding, Stages
  <2>3. ASSUME NEW leg, NEW lots, ClosePosition(leg, lots) PROVE Quiet(todo')
    BY <2>3, <1>d DEF ClosePosition, Deciding, Stages
  <2>4. CASE ChangeGrid
    BY <2>4, <1>b, <1>d, <1>e DEF ChangeGrid, Deciding, Stages
  <2>5. CASE StopDeciding
    BY <2>5, <1>a DEF StopDeciding
  <2> QED BY <1>5, <2>1, <2>2, <2>3, <2>4, <2>5 DEF Decide
<1>6. CASE NoRecovery \/ CancelAllGridOrders \/ CancelFails \/ CloseAll \/ Match \/ StopLosses
  BY <1>6, <1>d DEF NoRecovery, CancelAllGridOrders, CancelFails, CloseAll, Match, StopLosses, Stages
<1>7. CASE Relevel \/ NoPrice
  BY <1>7, <1>d DEF Relevel, NoPrice, Stages
<1>8. CASE List
  <2>1. CASE Unreadable
    BY <2>1, <1>a DEF Unreadable
  <2>2. CASE Go
    BY <1>8, <2>2, Advance DEF List, Now, Go, TodoOK
  <2> QED BY <1>8, <2>1, <2>2 DEF List
<1>9. CASE AutoAdjust
  BY <1>9, <1>a, <1>b, <1>c DEF AutoAdjust
<1>10. CASE Crash
  BY <1>10, <1>a DEF Crash
<1>11. CASE Fill \/ Expire \/ Stop \/ Start \/ UNCHANGED vars
  BY <1>11 DEF Fill, Expire, Stop, Start, vars
<1> QED BY <1>1, <1>2, <1>3, <1>4, <1>5, <1>6, <1>7, <1>8, <1>9, <1>10, <1>11 DEF Next, Cycle

-----------------------------------------------------------------------------
(* The orders the levels know of *)

Typed ==
  /\ orders \subseteq Order /\ issued \in 0 .. MaxOrders
  /\ levels \in [Level -> LevelInfo]

\* The inductive strengthening of NoOrderForgotten: when the levels are about to
\* be matched, the list names every order that rests.
Remembered ==
  /\ venue \in Venues
  /\ Typed
  /\ TodoOK
  /\ Now("match") => IdsOf(orders) \subseteq listed
  /\ NoOrderForgotten

\* What a level starts from is a level.
LEMMA EmptyLevels ==
  /\ \A side \in {"buy", "sell"} : Fresh(side) \in LevelInfo
  /\ \A l \in LevelInfo : Emptied(l) \in LevelInfo /\ Emptied(l).state = "empty"
<1>1. NoOrder \in Ids \cup {NoOrder}
  OBVIOUS
<1> HIDE DEF NoOrder, Ids
<1> QED BY <1>1 DEF Fresh, Emptied, LevelInfo

\* The sides of the levels, whatever the direction.
LEMMA FreshLevels ==
  ASSUME NEW d, NEW k
  PROVE  [i \in Level |-> Fresh(Sides(d, k)[i])] \in [Level -> LevelInfo]
<1>1. \A i \in Level : Sides(d, k)[i] \in {"buy", "sell"}
  BY DEF Sides, Level
<1> QED BY <1>1, EmptyLevels

\* The levels of a fresh grid are levels.
LEMMA FreshGridLevels ==
  ASSUME NEW k
  PROVE  /\ FreshGrid(k) \in [Level -> LevelInfo]
         /\ \A i \in Level : FreshGrid(k)[i].side \in {"buy", "sell"}
<1>1. FreshGrid(k) \in [Level -> LevelInfo]
  BY FreshLevels DEF FreshGrid
<1> QED BY <1>1 DEF LevelInfo

\* Orders that only fill, expire or are cancelled.
LEMMA FewerOrders ==
  ASSUME NoOrderForgotten, IdsOf(orders') \subseteq IdsOf(orders), Tracked \subseteq Tracked',
         lost \cap IdsOf(orders') \subseteq lost'
  PROVE  NoOrderForgotten'
<1> SUFFICES ASSUME NEW o \in orders' PROVE o.id \in Tracked' \cup lost'
  BY DEF NoOrderForgotten
<1>1. o.id \in IdsOf(orders') /\ o.id \in IdsOf(orders)
  BY DEF IdsOf
<1>2. PICK q \in orders : q.id = o.id
  BY <1>1 DEF IdsOf
<1> QED BY <1>1, <1>2 DEF NoOrderForgotten

\* Fewer orders have fewer ids.
LEMMA SubsetIds == ASSUME NEW S, NEW T, S \subseteq T PROVE IdsOf(S) \subseteq IdsOf(T)
BY DEF IdsOf

\* Closing positions leaves the orders or cancels them.
LEMMA CloseKeeps ==
  ASSUME NEW of, Close(of)
  PROVE  orders' \subseteq orders /\ lost' = lost \cap IdsOf(orders')
BY DEF Close, Rest

\* A fill takes an order from the exchange's book or reduces it; no new one appears.
LEMMA FillKeeps ==
  ASSUME Typed, Fill
  PROVE  /\ orders' \subseteq Order /\ IdsOf(orders') \subseteq IdsOf(orders)
         /\ lost' = lost \cap IdsOf(orders')
<1>0. PICK o \in orders : \E lots \in 1 .. o.lots :
        Rest((orders \ {o}) \cup (IF lots < o.lots THEN {[o EXCEPT !.lots = @ - lots]} ELSE {}))
  BY DEF Fill
<1>1. PICK lots \in 1 .. o.lots :
        Rest((orders \ {o}) \cup (IF lots < o.lots THEN {[o EXCEPT !.lots = @ - lots]} ELSE {}))
  BY <1>0
<1>2. o \in Order /\ o.lots \in Nat \ {0} /\ lots \in Nat \ {0}
  BY DEF Typed, Order
<1>3. [o EXCEPT !.lots = @ - lots].id = o.id
  BY <1>2 DEF Order
<1>4. lots < o.lots => [o EXCEPT !.lots = @ - lots] \in Order
  <2>1. lots < o.lots => o.lots - lots \in Nat \ {0}
    BY <1>2
  <2> QED BY <1>2, <2>1 DEF Order
<1>5. orders' \subseteq orders \cup {[o EXCEPT !.lots = @ - lots]}
  BY <1>1 DEF Rest
<1>6. orders' \subseteq Order
  BY <1>1, <1>4 DEF Rest, Typed
<1> QED BY <1>1, <1>3, <1>5, <1>6 DEF Rest, IdsOf

\* What a placed order adds.
LEMMA OrderedOK ==
  ASSUME Typed, NEW side \in {"buy", "sell"}, NEW ask \in Asks, Ordered(side, Smaller(ask, LevelLots))
  PROVE  /\ issued' \in Ids /\ issued' \in 0 .. MaxOrders
         /\ orders' \subseteq Order
         /\ \A o \in orders' : o \in orders \/ o.id = issued'
         /\ issued' \in IdsOf(orders')
<1> DEFINE new == [id |-> issued', side |-> side, lots |-> Smaller(ask, LevelLots)]
<1>1. issued \in Nat /\ issued < MaxOrders /\ issued' = issued + 1 /\ MaxOrders \in Nat
  BY TradingAssumption DEF Ordered, Typed
<1>2. Smaller(ask, LevelLots) \in Nat \ {0}
  BY TradingAssumption DEF Smaller
<1>3. issued' \in Ids /\ issued' \in 0 .. MaxOrders
  BY <1>1 DEF Ids
<1>4. new \in Order /\ new.id = issued'
  BY <1>2, <1>3 DEF Order
<1>5. orders' = orders \cup {new}
  BY DEF Ordered
<1> HIDE DEF new
<1> QED BY <1>3, <1>4, <1>5 DEF Typed, IdsOf

\* An order placed is remembered by its level.
LEMMA PlaceKeeps ==
  ASSUME Typed, NoOrderForgotten, NEW side \in {"buy", "sell"}, NEW ask \in Asks,
         NEW i \in 0 .. N, PlaceGridLimitOrder(i, side, ask)
  PROVE  Typed' /\ NoOrderForgotten'
<1>1. /\ Ordered(side, Smaller(ask, LevelLots))
      /\ IF i \in Level THEN Remember(i, issued', ask) ELSE UNCHANGED grid
      /\ lost' = (lost \cup (IF i \in Pending THEN {levels[i].order}
                             ELSE IF i \in Level THEN {} ELSE {issued'})) \cap IdsOf(orders')
  BY DEF PlaceGridLimitOrder, DropUnread
<1>2. /\ issued' \in Ids /\ issued' \in 0 .. MaxOrders
      /\ orders' \subseteq Order
      /\ \A o \in orders' : o \in orders \/ o.id = issued'
  BY <1>1, OrderedOK
<1>3. \A o \in orders' : o.id \in IdsOf(orders')
  BY DEF IdsOf
<1>4. CASE i \in Level
  <2> DEFINE l == [levels[i] EXCEPT !.state = "pending", !.order = issued', !.qty = ask]
  <2>1. levels[i] \in LevelInfo /\ ask \in Nat
    BY <1>4, TradingAssumption DEF Typed
  <2>2. l \in LevelInfo /\ l.state = "pending" /\ l.order = issued'
    BY <1>2, <2>1 DEF LevelInfo
  <2>3. levels' = [levels EXCEPT ![i] = l]
    BY <1>1, <1>4 DEF Remember, Typed
  <2> HIDE DEF l
  <2>4. levels' \in [Level -> LevelInfo] /\ levels'[i] = l
        /\ \A j \in Level \ {i} : levels'[j] = levels[j]
    BY <1>4, <2>2, <2>3 DEF Typed
  <2>5. issued' \in Tracked'
    BY <1>4, <2>2, <2>4 DEF Tracked, Pending
  <2>6. \A o \in orders' : o.id \in Tracked => o.id \in Tracked' \cup lost'
    <3> SUFFICES ASSUME NEW o \in orders', NEW j \in Pending, o.id = levels[j].order
                 PROVE  o.id \in Tracked' \cup lost'
      BY DEF Tracked
    <3>1. CASE j = i
      BY <1>1, <1>3, <3>1
    <3>2. CASE j # i
      BY <2>4, <3>2 DEF Tracked, Pending
    <3> QED BY <3>1, <3>2
  <2>7. NoOrderForgotten'
    BY <1>1, <1>2, <1>3, <2>5, <2>6 DEF NoOrderForgotten
  <2> QED BY <1>2, <2>4, <2>7 DEF Typed
<1>5. CASE i \notin Level
  <2>1. UNCHANGED levels /\ i \notin Pending
    BY <1>1, <1>5 DEF grid, Pending
  <2>2. lost' = (lost \cup {issued'}) \cap IdsOf(orders')
    BY <1>1, <1>5, <2>1
  <2>3. Tracked' = Tracked
    BY <2>1 DEF Tracked, Pending
  <2> QED BY <1>2, <1>3, <2>1, <2>2, <2>3 DEF NoOrderForgotten, Typed
<1> QED BY <1>4, <1>5

\* An order whose answer is lost counts as lost, not as forgotten.
LEMMA LostResponseKeeps ==
  ASSUME Typed, NoOrderForgotten, NEW side \in {"buy", "sell"}, NEW ask \in Asks,
         ResponseLost(side, ask)
  PROVE  Typed' /\ NoOrderForgotten'
<1>1. /\ Ordered(side, Smaller(ask, LevelLots))
      /\ UNCHANGED levels
      /\ lost' = (lost \cup {issued'}) \cap IdsOf(orders')
  BY DEF ResponseLost, Drop, DropUnread, grid
<1>2. /\ issued' \in 0 .. MaxOrders /\ orders' \subseteq Order
      /\ \A o \in orders' : o \in orders \/ o.id = issued'
  BY <1>1, OrderedOK
<1>3. Tracked' = Tracked /\ \A o \in orders' : o.id \in IdsOf(orders')
  BY <1>1 DEF Tracked, Pending, IdsOf
<1> QED BY <1>1, <1>2, <1>3 DEF NoOrderForgotten, Typed

\* A cancelled order leaves the book and the map together.
LEMMA CancelKeeps ==
  ASSUME Typed, NoOrderForgotten, NEW o \in orders, CancelGridOrder(o)
  PROVE  Typed' /\ NoOrderForgotten'
<1> DEFINE i == book[o.id]
<1>1. /\ orders' = orders \ {o} /\ UNCHANGED issued
      /\ lost' = (lost \cup (IF i \in Pending THEN {levels[i].order} ELSE {})) \cap IdsOf(orders')
  BY DEF CancelGridOrder, Drop, DropUnread
<1>2. \/ UNCHANGED levels
      \/ levels' = [levels EXCEPT ![i] = Emptied(levels[i])]
  BY DEF CancelGridOrder, grid, Typed
<1> HIDE DEF i
<1>3. i \in Level => levels[i] \in LevelInfo /\ Emptied(levels[i]) \in LevelInfo
  BY EmptyLevels DEF Typed
<1>4. levels' \in [Level -> LevelInfo] /\ \A j \in Level \ {i} : levels'[j] = levels[j]
  BY <1>2, <1>3 DEF Typed
<1>5. \A q \in orders' : q.id \in Tracked => q.id \in Tracked' \cup lost'
  <2> SUFFICES ASSUME NEW q \in orders', NEW j \in Pending, q.id = levels[j].order
               PROVE  q.id \in Tracked' \cup lost'
    BY DEF Tracked
  <2>1. CASE j = i
    BY <1>1, <2>1 DEF IdsOf
  <2>2. CASE j # i
    BY <1>4, <2>2 DEF Tracked, Pending
  <2> QED BY <2>1, <2>2
<1>6. NoOrderForgotten'
  BY <1>1, <1>5 DEF NoOrderForgotten, IdsOf
<1> QED BY <1>1, <1>4, <1>6 DEF Typed

\* Cancelling all leaves no order to remember.
LEMMA CancelAllKeeps ==
  ASSUME Typed, CancelAllGridOrders
  PROVE  Typed' /\ NoOrderForgotten'
<1>1. PICK survivors \in SUBSET orders :
        /\ orders' = survivors
        /\ levels' = [i \in Level |-> IF i \in Pending THEN Emptied(levels[i]) ELSE levels[i]]
        /\ lost' = (lost \cup IdsOf(survivors)) \cap IdsOf(orders')
  BY DEF CancelAllGridOrders, Drop, DropUnread
<1>2. levels' \in [Level -> LevelInfo]
  BY <1>1, EmptyLevels DEF Typed
<1>3. UNCHANGED issued
  BY DEF CancelAllGridOrders
<1> QED BY <1>1, <1>2, <1>3 DEF Typed, NoOrderForgotten, IdsOf

\* The orders of levels laid again count as lost.
LEMMA RelevelKeeps ==
  ASSUME Typed, NoOrderForgotten, Relevel
  PROVE  Typed' /\ NoOrderForgotten'
<1>1. PICK stage \in {"reinit", "recentre", "redirect"}, k \in 0 .. N : levels' \in Relevelled(stage, k)
  BY DEF Relevel
<1>2. UNCHANGED <<orders, issued>> /\ lost' = (lost \cup (Tracked \ Tracked')) \cap IdsOf(orders')
  BY DEF Relevel, Drop, DropUnread, exchange
<1>3. ASSUME NEW l \in LevelInfo, NEW i \in Level
      PROVE  [l EXCEPT !.side = FreshGrid(k)[i].side] \in LevelInfo
  BY FreshGridLevels DEF LevelInfo
<1>4. levels' \in [Level -> LevelInfo]
  <2>1. CASE levels' = FreshGrid(k)
    BY <2>1, FreshGridLevels
  <2>2. CASE levels' \in Restored(k)
    <3>1. PICK from \in [Level -> Filled \cup {0}] :
            levels' = [i \in Level |-> IF from[i] = 0 THEN FreshGrid(k)[i]
                                      ELSE [levels[from[i]] EXCEPT !.side = FreshGrid(k)[i].side]]
      BY <2>2 DEF Restored
    <3>2. \A i \in Level : from[i] # 0 => levels[from[i]] \in LevelInfo
      BY DEF Filled, Typed
    <3>3. \A i \in Level : FreshGrid(k)[i] \in LevelInfo
      BY FreshGridLevels
    <3> QED BY <1>3, <3>1, <3>2, <3>3
  <2>3. CASE levels' = [i \in Level |-> [levels[i] EXCEPT !.side = FreshGrid(k)[i].side]]
    BY <1>3, <2>3 DEF Typed
  <2> QED BY <1>1, <2>1, <2>2, <2>3 DEF Relevelled
<1>5. \A o \in orders' : o.id \in IdsOf(orders')
  BY DEF IdsOf
<1> QED BY <1>2, <1>4, <1>5 DEF Typed, NoOrderForgotten

\* The matching empties the levels whose order is not listed: those orders do
\* not rest.
LEMMA MatchKeeps ==
  ASSUME Typed, NoOrderForgotten, Now("match") => IdsOf(orders) \subseteq listed, Match
  PROVE  Typed' /\ NoOrderForgotten'
<1>1. UNCHANGED <<orders, issued, lost>> /\ IdsOf(orders) \subseteq listed
  BY DEF Match, exchange
<1>2. /\ levels' \in [Level -> LevelInfo]
      /\ \A i \in Level \ Gone : levels'[i] = levels[i]
  <2>1. CASE levels' = [i \in Level |-> IF i \in Gone THEN Emptied(levels[i]) ELSE levels[i]]
    BY <2>1, EmptyLevels DEF Typed
  <2>2. CASE levels' = [i \in Level |->
                IF i \in Gone THEN [levels[i] EXCEPT !.state = "filled", !.size = levels[i].qty]
                ELSE levels[i]]
    <3>1. \A l \in LevelInfo : [l EXCEPT !.state = "filled", !.size = l.qty] \in LevelInfo
      BY DEF LevelInfo
    <3> QED BY <2>2, <3>1 DEF Typed
  <2> QED BY <2>1, <2>2 DEF Match
<1>3. NoOrderForgotten'
  <2> SUFFICES ASSUME NEW o \in orders, o.id \in Tracked PROVE o.id \in Tracked'
    BY <1>1 DEF NoOrderForgotten
  <2>1. PICK i \in Pending : levels[i].order = o.id
    BY DEF Tracked
  <2>2. i \in Level \ Gone
    BY <1>1, <2>1 DEF Gone, Pending, IdsOf
  <2> QED BY <1>2, <2>1, <2>2 DEF Tracked, Pending
<1> QED BY <1>1, <1>2, <1>3 DEF Typed

\* A stop loss keeps what is remembered.
LEMMA StopLossesKeep ==
  ASSUME Typed, NoOrderForgotten, StopLosses
  PROVE  Typed' /\ NoOrderForgotten'
<1>1. PICK done \in SUBSET Filled :
        /\ levels' = [i \in Level |-> IF i \in done THEN [levels[i] EXCEPT !.state = "stopped"]
                                     ELSE levels[i]]
        /\ Close([leg \in Legs |-> SumFunctionOnSet(Sizes, {i \in done : LegOf(i) = leg})])
  BY DEF StopLosses
<1>2. orders' \subseteq orders /\ lost' = lost \cap IdsOf(orders')
  BY <1>1, CloseKeeps
<1>3. levels' \in [Level -> LevelInfo]
  <2>1. \A l \in LevelInfo : [l EXCEPT !.state = "stopped"] \in LevelInfo
    BY DEF LevelInfo
  <2> QED BY <1>1, <2>1 DEF Typed
<1>4. Tracked \subseteq Tracked'
  <2>1. \A i \in Pending : i \in Level /\ levels'[i] = levels[i]
    BY <1>1 DEF Pending, Filled
  <2> QED BY <2>1 DEF Tracked, Pending
<1>5. NoOrderForgotten'
  BY <1>2, <1>4, FewerOrders, SubsetIds
<1>6. UNCHANGED issued
  BY DEF StopLosses
<1> QED BY <1>2, <1>3, <1>5, <1>6 DEF Typed

\* Levels that do not change, and orders that only go.
LEMMA SameLevels ==
  ASSUME Typed, NoOrderForgotten, UNCHANGED <<levels, issued>>, orders' \subseteq Order,
         IdsOf(orders') \subseteq IdsOf(orders), lost \cap IdsOf(orders') \subseteq lost'
  PROVE  Typed' /\ NoOrderForgotten'
<1>1. Tracked' = Tracked
  BY DEF Tracked, Pending
<1> QED BY <1>1, FewerOrders DEF Typed

\* Every step keeps that no order is forgotten.
LEMMA ForgottenStep ==
  ASSUME Remembered, [Next]_vars
  PROVE  Typed' /\ NoOrderForgotten'
<1>a. Typed /\ NoOrderForgotten /\ (Now("match") => IdsOf(orders) \subseteq listed)
  BY DEF Remembered
<1>b. ASSUME UNCHANGED <<levels, orders, issued, lost>> PROVE Typed' /\ NoOrderForgotten'
  BY <1>a, <1>b DEF Typed, NoOrderForgotten, Tracked, Pending
<1>c. ASSUME UNCHANGED <<levels, issued>>, orders' \subseteq orders, lost' = lost \cap IdsOf(orders')
      PROVE  Typed' /\ NoOrderForgotten'
  BY <1>a, <1>c, SameLevels, SubsetIds DEF Typed
<1>1. CASE StartCycle \/ CheckBoxBreakout \/ NoRecovery \/ Ask \/ ChangeGrid \/ StopDeciding
           \/ CancelFails \/ NoPrice \/ List \/ AutoAdjust \/ Stop \/ Crash \/ UNCHANGED vars
  <2>1. UNCHANGED <<levels, orders, issued, lost>>
    BY <1>1 DEF StartCycle, CheckBoxBreakout, NoRecovery, Ask, ChangeGrid, StopDeciding, CancelFails,
                NoPrice, List, AutoAdjust, Stop, Crash, vars, exchange, grid
  <2> QED BY <2>1, <1>b
<1>2. ASSUME NEW h \in Histories, Recover(h) PROVE Typed' /\ NoOrderForgotten'
  BY <1>2, <1>b DEF Recover, exchange, grid
<1>3. CASE Decide
  <2>1. ASSUME NEW leg, NEW lots, ClosePosition(leg, lots) PROVE Typed' /\ NoOrderForgotten'
    BY <2>1, <1>c, CloseKeeps DEF ClosePosition, grid
  <2>2. CASE ChangeGrid \/ StopDeciding
    BY <2>2, <1>1
  <2> QED BY <1>3, <1>a, <2>1, <2>2, PlaceKeeps, LostResponseKeeps, CancelKeeps DEF Decide
<1>4. CASE CancelAllGridOrders
  BY <1>4, <1>a, CancelAllKeeps
<1>5. CASE CloseAll
  <2>1. PICK done \in SUBSET {leg \in Legs : held[leg] > 0} :
          Close([leg \in Legs |-> SumFunctionOnSet(held, {l \in done : Called(l) = leg})])
    BY <1>5 DEF CloseAll
  <2>2. UNCHANGED <<levels, issued>>
    BY <1>5 DEF CloseAll, grid
  <2> QED BY <2>1, <2>2, <1>c, CloseKeeps
<1>6. CASE Relevel
  BY <1>6, <1>a, RelevelKeeps
<1>7. CASE Match
  BY <1>7, <1>a, MatchKeeps
<1>8. CASE StopLosses
  BY <1>8, <1>a, StopLossesKeep
<1>9. CASE Fill
  <2>1. UNCHANGED <<levels, issued>>
    BY <1>9 DEF Fill, grid
  <2> QED BY <1>9, <1>a, <2>1, FillKeeps, SameLevels
<1>10. CASE Expire
  <2>1. UNCHANGED <<levels, issued>> /\ orders' \subseteq orders /\ lost' = lost \cap IdsOf(orders')
    BY <1>10 DEF Expire, Rest, grid
  <2> QED BY <2>1, <1>c
<1>11. CASE Start
  <2>1. UNCHANGED <<orders, issued>> /\ lost' = (lost \cup IdsOf(orders)) \cap IdsOf(orders')
    BY <1>11 DEF Start, Drop, DropUnread, exchange
  <2>2. levels' \in [Level -> LevelInfo]
    BY <1>11, FreshLevels DEF Start
  <2>3. \A o \in orders : o.id \in IdsOf(orders)
    BY DEF IdsOf
  <2> QED BY <1>a, <2>1, <2>2, <2>3 DEF Typed, NoOrderForgotten
<1> QED BY <1>1, <1>2, <1>3, <1>4, <1>5, <1>6, <1>7, <1>8, <1>9, <1>10, <1>11 DEF Next, Cycle

\* An account stays with its exchange.
LEMMA VenueStays == [Next]_vars => UNCHANGED venue
BY DEF Next, Cycle, Decide, StartCycle, CheckBoxBreakout, NoRecovery, Ask, Recover, PlaceGridLimitOrder,
       ResponseLost, CancelGridOrder, ClosePosition, ChangeGrid, StopDeciding, CancelAllGridOrders,
       CancelFails, CloseAll, Relevel, NoPrice, List, Match, StopLosses, AutoAdjust, Fill, Expire,
       Stop, Crash, Start, vars

\* Without stale answers the whole invariant is inductive.
LEMMA RememberedStep ==
  ASSUME Remembered, ~venue.stale, [Next]_vars
  PROVE  Remembered'
<1>a. venue \in Venues /\ TodoOK /\ ~venue.stale
  BY DEF Remembered
<1>1. Typed' /\ NoOrderForgotten'
  BY ForgottenStep
<1>2. UNCHANGED venue
  BY VenueStays
<1>3. TodoOK' /\ (Now("match") => IdsOf(orders) \subseteq listed)'
  <2>1. CASE Quiet(todo')
    BY <2>1 DEF Quiet, TodoOK, Now
  <2>2. CASE UNCHANGED <<todo, listed>> /\ (Fill \/ Expire \/ Stop \/ Start \/ UNCHANGED vars)
    <3>1. IdsOf(orders') \subseteq IdsOf(orders)
      <4>1. CASE Fill
        BY <4>1, FillKeeps DEF Remembered
      <4>2. CASE Expire
        BY <4>2 DEF Expire, Rest, IdsOf
      <4>3. CASE Stop \/ Start \/ UNCHANGED vars
        BY <4>3 DEF Stop, Start, vars, exchange
      <4> QED BY <2>2, <4>1, <4>2, <4>3
    <3>2. TodoOK' /\ (Now("match")' <=> Now("match"))
      BY <2>2, <1>a DEF TodoOK, Now
    <3> QED BY <2>2, <3>1, <3>2 DEF Remembered
  <2>3. CASE List /\ TodoOK'
    <3>1. UNCHANGED orders
      BY <2>3 DEF List, exchange
    <3>2. CASE todo' = <<>>
      BY <2>3, <3>2 DEF Now
    <3>3. CASE listed' = IdsOf(orders)
      BY <2>3, <3>1, <3>3 DEF IdsOf
    <3> QED BY <1>a, <2>3, <3>2, <3>3 DEF List, Unreadable
  <2> QED BY <1>a, <2>1, <2>2, <2>3, TodoStep
<1> QED BY <1>a, <1>1, <1>2, <1>3 DEF Remembered

\* On a venue whose list of open orders is never older than its call, an order
\* that rests is some level's, unless one of the named causes dropped it
\* (syncGridState).
THEOREM OrdersAreRemembered ==
  ASSUME \A v \in Venues : ~v.stale
  PROVE  Spec => []NoOrderForgotten
<1>1. Init => Remembered
  <2> SUFFICES ASSUME Init PROVE Remembered
    OBVIOUS
  <2>1. levels \in [Level -> LevelInfo]
    BY FreshLevels DEF Init
  <2>2. TodoOK /\ ~Now("match")
    BY DEF Init, TodoOK, ListsFirst, Now
  <2> QED BY <2>1, <2>2, TradingAssumption DEF Init, Remembered, Typed, NoOrderForgotten
<1>2. Remembered => NoOrderForgotten
  BY DEF Remembered
<1>3. Remembered /\ [Next]_vars => Remembered'
  BY RememberedStep DEF Remembered
<1> QED BY <1>1, <1>2, <1>3, PTL DEF Spec


-----------------------------------------------------------------------------
(* Sums *)

\* A set of numbers that is not empty has a least one.
LEMMA LeastOf ==
  ASSUME NEW S, S \subseteq Nat, S # {}
  PROVE  \E n \in S : \A m \in S : n <= m
<1>1. PICK t \in S : \A u \in S : ~(<<u, t>> \in OpToRel(<, Nat))
  BY NatLessThanWellFounded, WFMin
<1>2. \A u \in S : ~(u < t)
  BY <1>1 DEF OpToRel
<1> QED BY <1>2

\* Among subsets of a finite set there is a smallest one: what holds of a set when
\* it holds of all smaller ones, holds of every finite set.
LEMMA SmallestOf ==
  ASSUME NEW S, IsFiniteSet(S), NEW B, B \subseteq SUBSET S, B # {}
  PROVE  \E s \in B : /\ s \subseteq S /\ IsFiniteSet(s)
                      /\ \A x \in s : s \ {x} \notin B
<1>1. \A s \in SUBSET S : IsFiniteSet(s) /\ Cardinality(s) \in Nat
  BY FS_Subset, FS_CardinalityType
<1> DEFINE C == {Cardinality(s) : s \in B}
<1>2. PICK n \in C : \A m \in C : n <= m
  <2>1. C \subseteq Nat /\ C # {}
    BY <1>1
  <2> HIDE DEF C
  <2> QED BY <2>1, LeastOf
<1>3. PICK s \in B : n = Cardinality(s)
  BY <1>2
<1>4. ASSUME NEW x \in s PROVE s \ {x} \notin B
  <2>1. Cardinality(s \ {x}) = Cardinality(s) - 1
    BY <1>1, <1>3, FS_RemoveElement
  <2> QED BY <1>1, <1>2, <1>3, <2>1
<1> QED BY <1>1, <1>3, <1>4

Chosen(s) == CHOOSE x \in s : TRUE

\* The sums of the subsets of a set, as the folds compute them.
Sums(g, f, S) ==
  g = [s \in SUBSET S |-> IF s = {} THEN 0 ELSE f[Chosen(s)] + g[s \ {Chosen(s)}]]

\* The fold is defined: there are such sums.
LEMMA SumsExist ==
  ASSUME NEW f, NEW S, IsFiniteSet(S)
  PROVE  \E g : Sums(g, f, S)
<1> DEFINE D(n) == {s \in SUBSET S : Cardinality(s) <= n}
<1> DEFINE Upto(g, n) == g = [s \in D(n) |-> IF s = {} THEN 0 ELSE f[Chosen(s)] + g[s \ {Chosen(s)}]]
<1> DEFINE Bad == {n \in Nat : ~\E g : Upto(g, n)}
<1>1. \A s \in SUBSET S : IsFiniteSet(s) /\ Cardinality(s) \in Nat /\ Cardinality(s) <= Cardinality(S)
  BY FS_Subset, FS_CardinalityType
<1>2. \A s \in SUBSET S : s # {} => /\ Chosen(s) \in s
                                    /\ Cardinality(s \ {Chosen(s)}) = Cardinality(s) - 1
                                    /\ s \ {Chosen(s)} \in SUBSET S
  BY <1>1, FS_RemoveElement DEF Chosen
<1>3. \E g : Upto(g, 0)
  <2>1. \A s \in D(0) : s = {}
    BY <1>1, FS_EmptySet
  <2> DEFINE h == [s \in D(0) |-> 0]
  <2>2. h = [s \in D(0) |-> IF s = {} THEN 0 ELSE f[Chosen(s)] + h[s \ {Chosen(s)}]]
    BY <2>1
  <2> QED BY <2>2
<1>4. ASSUME NEW n \in Nat, NEW g, Upto(g, n) PROVE \E h : Upto(h, n + 1)
  <2> DEFINE h == [s \in D(n + 1) |-> IF s = {} THEN 0 ELSE f[Chosen(s)] + g[s \ {Chosen(s)}]]
  <2>1. \A s \in D(n) : h[s] = g[s]
    <3>1. \A s \in D(n) : s \in D(n + 1)
      BY <1>1
    <3> HIDE DEF D
    <3> QED BY <1>4, <3>1
  <2>2. \A s \in D(n + 1) : s # {} => s \ {Chosen(s)} \in D(n)
    BY <1>1, <1>2
  <2>3. \A s \in D(n + 1) : s # {} => h[s \ {Chosen(s)}] = g[s \ {Chosen(s)}]
    <3> HIDE DEF h, D
    <3> QED BY <2>1, <2>2
  <2>4. h = [s \in D(n + 1) |-> IF s = {} THEN 0 ELSE f[Chosen(s)] + h[s \ {Chosen(s)}]]
    <3> HIDE DEF D
    <3> QED BY <2>3
  <2> HIDE DEF h
  <2> QED BY <2>4
<1>5. Bad = {}
  <2> SUFFICES ASSUME Bad # {} PROVE FALSE
    OBVIOUS
  <2> HIDE DEF Upto
  <2>1. PICK n \in Bad : \A m \in Bad : n <= m
    BY LeastOf
  <2>2. n \in Nat /\ n # 0
    BY <1>3, <2>1
  <2>3. n - 1 \in Nat /\ n - 1 \notin Bad /\ (n - 1) + 1 = n
    BY <2>1, <2>2
  <2>4. PICK g : Upto(g, n - 1)
    BY <2>3
  <2>5. \E h : Upto(h, (n - 1) + 1)
    BY <1>4, <2>3, <2>4
  <2> QED BY <2>1, <2>3, <2>5
<1>6. D(Cardinality(S)) = SUBSET S /\ Cardinality(S) \in Nat
  BY <1>1, FS_CardinalityType
<1>7. PICK g : Upto(g, Cardinality(S))
  <2> HIDE DEF Upto
  <2> QED BY <1>5, <1>6
<1> QED BY <1>6, <1>7 DEF Sums

\* A sum is one of them,
LEMMA SumIs ==
  ASSUME NEW f, NEW S, IsFiniteSet(S)
  PROVE  \E g : Sums(g, f, S) /\ SumFunctionOnSet(f, S) = g[S]
<1>1. \E g : Sums(g, f, S)
  BY SumsExist
<1> QED BY <1>1 DEF SumFunctionOnSet, FoldFunctionOnSet, MapThenFoldSet, Sums, Chosen

\* ... and it depends on the values summed only.
LEMMA SumsAgree ==
  ASSUME NEW f, NEW S, NEW g, Sums(g, f, S), NEW h, NEW T, NEW k, Sums(k, h, T),
         NEW U, IsFiniteSet(U), U \subseteq S, U \subseteq T, \A x \in U : f[x] = h[x]
  PROVE  g[U] = k[U]
<1> DEFINE B == {s \in SUBSET U : g[s] # k[s]}
<1> SUFFICES ASSUME B # {} PROVE FALSE
  OBVIOUS
<1>1. PICK s \in B : s \subseteq U /\ \A x \in s : s \ {x} \notin B
  BY SmallestOf
<1>2. s \in SUBSET S /\ s \in SUBSET T
  BY <1>1
<1>3. /\ g[s] = IF s = {} THEN 0 ELSE f[Chosen(s)] + g[s \ {Chosen(s)}]
      /\ k[s] = IF s = {} THEN 0 ELSE h[Chosen(s)] + k[s \ {Chosen(s)}]
  BY <1>2 DEF Sums
<1>4. s # {} => Chosen(s) \in s
  BY DEF Chosen
<1>5. s # {}
  BY <1>1, <1>3
<1>6. g[s \ {Chosen(s)}] = k[s \ {Chosen(s)}] /\ f[Chosen(s)] = h[Chosen(s)]
  BY <1>1, <1>4, <1>5
<1> QED BY <1>1, <1>3, <1>5, <1>6

\* Nothing sums up to 0; else some member's value is added to the others' sum.
LEMMA SumSplit ==
  ASSUME NEW f, NEW S, IsFiniteSet(S)
  PROVE  /\ SumFunctionOnSet(f, {}) = 0
         /\ S # {} => /\ Chosen(S) \in S
                      /\ SumFunctionOnSet(f, S) = f[Chosen(S)] + SumFunctionOnSet(f, S \ {Chosen(S)})
<1>1. IsFiniteSet({})
  BY FS_EmptySet
<1>2. PICK e : Sums(e, f, {}) /\ SumFunctionOnSet(f, {}) = e[{}]
  BY <1>1, SumIs
<1>3. SumFunctionOnSet(f, {}) = 0
  BY <1>2 DEF Sums
<1>4. ASSUME S # {}
      PROVE  Chosen(S) \in S /\ SumFunctionOnSet(f, S) = f[Chosen(S)] + SumFunctionOnSet(f, S \ {Chosen(S)})
  <2> DEFINE R == S \ {Chosen(S)}
  <2>1. Chosen(S) \in S
    BY <1>4 DEF Chosen
  <2>2. IsFiniteSet(R) /\ R \subseteq S
    BY FS_Subset
  <2>3. PICK g : Sums(g, f, S) /\ SumFunctionOnSet(f, S) = g[S]
    BY SumIs
  <2>4. PICK k : Sums(k, f, R) /\ SumFunctionOnSet(f, R) = k[R]
    BY <2>2, SumIs
  <2>5. g[S] = f[Chosen(S)] + g[R]
    BY <1>4, <2>3 DEF Sums
  <2>6. g[R] = k[R]
    <3> HIDE DEF R
    <3> QED BY <2>2, <2>3, <2>4, SumsAgree
  <2> QED BY <2>1, <2>3, <2>4, <2>5, <2>6
<1> QED BY <1>3, <1>4

\* Sums of equal values are equal.
LEMMA SumSame ==
  ASSUME NEW f, NEW h, NEW S, IsFiniteSet(S), \A x \in S : f[x] = h[x]
  PROVE  SumFunctionOnSet(f, S) = SumFunctionOnSet(h, S)
<1>1. PICK g : Sums(g, f, S) /\ SumFunctionOnSet(f, S) = g[S]
  BY SumIs
<1>2. PICK k : Sums(k, h, S) /\ SumFunctionOnSet(h, S) = k[S]
  BY SumIs
<1> QED BY <1>1, <1>2, SumsAgree

\* A sum of numbers is a number.
LEMMA SumNat ==
  ASSUME NEW f, NEW S, IsFiniteSet(S), \A x \in S : f[x] \in Nat
  PROVE  SumFunctionOnSet(f, S) \in Nat
<1> DEFINE B == {s \in SUBSET S : SumFunctionOnSet(f, s) \notin Nat}
<1> SUFFICES ASSUME B # {} PROVE FALSE
  OBVIOUS
<1>1. PICK s \in B : s \subseteq S /\ IsFiniteSet(s) /\ \A x \in s : s \ {x} \notin B
  BY SmallestOf
<1>2. /\ SumFunctionOnSet(f, {}) = 0
      /\ s # {} => /\ Chosen(s) \in s
                   /\ SumFunctionOnSet(f, s) = f[Chosen(s)] + SumFunctionOnSet(f, s \ {Chosen(s)})
  BY <1>1, SumSplit
<1>3. s # {}
  <2>1. SumFunctionOnSet(f, s) \notin Nat /\ 0 \in Nat
    BY <1>1
  <2> QED BY <1>2, <2>1
<1>4. SumFunctionOnSet(f, s \ {Chosen(s)}) \in Nat /\ f[Chosen(s)] \in Nat
  BY <1>1, <1>2, <1>3
<1> QED BY <1>1, <1>2, <1>3, <1>4

\* Any member's value can be the one that is added.
LEMMA SumPick ==
  ASSUME NEW f, NEW S, IsFiniteSet(S), \A x \in S : f[x] \in Nat, NEW x \in S
  PROVE  SumFunctionOnSet(f, S) = f[x] + SumFunctionOnSet(f, S \ {x})
<1> DEFINE F(s) == SumFunctionOnSet(f, s)
<1> DEFINE B == {s \in SUBSET S : \E y \in s : F(s) # f[y] + F(s \ {y})}
<1> SUFFICES ASSUME B # {} PROVE FALSE
  OBVIOUS
<1>1. PICK s \in B : s \subseteq S /\ IsFiniteSet(s) /\ \A y \in s : s \ {y} \notin B
  BY SmallestOf
<1>2. PICK y \in s : F(s) # f[y] + F(s \ {y})
  BY <1>1
<1> DEFINE c == Chosen(s)
<1>3. c \in s /\ F(s) = f[c] + F(s \ {c})
  BY <1>1, <1>2, SumSplit
<1>4. \A t \in SUBSET S : IsFiniteSet(t) /\ F(t) \in Nat
  BY FS_Subset, SumNat
<1> HIDE DEF F, c
<1>5. c # y
  BY <1>2, <1>3
<1>6. F(s \ {c}) = f[y] + F((s \ {c}) \ {y})
  BY <1>1, <1>2, <1>3, <1>5
<1>7. F(s \ {y}) = f[c] + F((s \ {y}) \ {c})
  BY <1>1, <1>2, <1>3, <1>5
<1>8. (s \ {c}) \ {y} = (s \ {y}) \ {c}
  OBVIOUS
<1>9. f[c] \in Nat /\ f[y] \in Nat /\ F((s \ {y}) \ {c}) \in Nat
  BY <1>1, <1>2, <1>3, <1>4
<1> QED BY <1>2, <1>3, <1>6, <1>7, <1>8, <1>9

\* When each value has a value of its own that is at least as large on the other
\* side, the other sum is at least as large.
LEMMA SumCovers ==
  ASSUME NEW f, NEW S, IsFiniteSet(S), \A x \in S : f[x] \in Nat,
         NEW h, NEW T, IsFiniteSet(T), \A y \in T : h[y] \in Nat,
         NEW m \in [S -> T], \A x, y \in S : m[x] = m[y] => x = y,
         \A x \in S : f[x] <= h[m[x]]
  PROVE  SumFunctionOnSet(f, S) <= SumFunctionOnSet(h, T)
<1> DEFINE F(s) == SumFunctionOnSet(f, s)
<1> DEFINE H(t) == SumFunctionOnSet(h, t)
<1> DEFINE B == {s \in SUBSET S : \E t \in SUBSET T : (\A x \in s : m[x] \in t) /\ ~(F(s) <= H(t))}
<1>0. B = {} => F(S) <= H(T)
  <2>1. (\A x \in S : m[x] \in T) /\ S \in SUBSET S /\ T \in SUBSET T
    OBVIOUS
  <2> HIDE DEF F, H
  <2> QED BY <2>1
<1> SUFFICES ASSUME B # {} PROVE FALSE
  BY <1>0
<1>1. PICK s \in B : s \subseteq S /\ IsFiniteSet(s) /\ \A x \in s : s \ {x} \notin B
  BY SmallestOf
<1>2. PICK t \in SUBSET T : (\A x \in s : m[x] \in t) /\ ~(F(s) <= H(t))
  BY <1>1
<1>3. IsFiniteSet(t) /\ F(s) \in Nat /\ H(t) \in Nat /\ F({}) = 0
  BY <1>1, FS_Subset, SumNat, SumSplit
<1>4. s # {}
  <2> HIDE DEF F, H
  <2> QED BY <1>2, <1>3
<1>5. PICK x \in s : TRUE
  BY <1>4
<1>6. F(s) = f[x] + F(s \ {x})
  BY <1>1, <1>5, SumPick
<1>7. H(t) = h[m[x]] + H(t \ {m[x]})
  BY <1>2, <1>3, <1>5, SumPick
<1>8. F(s \ {x}) \in Nat /\ H(t \ {m[x]}) \in Nat
  <2>1. IsFiniteSet(s \ {x}) /\ IsFiniteSet(t \ {m[x]})
    BY <1>1, <1>3, FS_Subset
  <2> QED BY <1>1, <2>1, SumNat
<1>9. F(s \ {x}) <= H(t \ {m[x]})
  <2>1. \A y \in s \ {x} : m[y] \in t \ {m[x]}
    BY <1>1, <1>2, <1>5
  <2>2. s \ {x} \in SUBSET S /\ s \ {x} \notin B /\ t \ {m[x]} \in SUBSET T
    BY <1>1, <1>5
  <2> HIDE DEF F, H
  <2> QED BY <2>1, <2>2
<1>10. f[x] \in Nat /\ h[m[x]] \in Nat /\ f[x] <= h[m[x]]
  BY <1>1, <1>5
<1> HIDE DEF F, H
<1> QED BY <1>2, <1>6, <1>7, <1>8, <1>9, <1>10

-----------------------------------------------------------------------------
(* The total limit *)

\* The lots of orders that rest are a number,
LEMMA LotsNat ==
  ASSUME NEW S, IsFiniteSet(S), S \subseteq Order
  PROVE  LotsOf(S) \in Nat
<1>1. \A o \in S : [q \in S |-> q.lots][o] \in Nat
  BY DEF Order
<1> QED BY <1>1, SumNat DEF LotsOf

\* ... fewer orders have fewer,
LEMMA LotsFewer ==
  ASSUME NEW T, IsFiniteSet(T), T \subseteq Order, NEW S, S \subseteq T
  PROVE  LotsOf(S) <= LotsOf(T)
<1> DEFINE f == [q \in S |-> q.lots]
<1> DEFINE h == [q \in T |-> q.lots]
<1> DEFINE m == [q \in S |-> q]
<1>1. IsFiniteSet(S) /\ m \in [S -> T] /\ \A x, y \in S : m[x] = m[y] => x = y
  BY FS_Subset
<1>2. (\A x \in S : f[x] \in Nat) /\ \A y \in T : h[y] \in Nat
  BY DEF Order
<1>3. \A x \in S : f[x] <= h[m[x]]
  BY DEF Order
<1> HIDE DEF f, h, m
<1>4. SumFunctionOnSet(f, S) <= SumFunctionOnSet(h, T)
  BY <1>1, <1>2, <1>3, SumCovers
<1> QED BY <1>4 DEF LotsOf, f, h

\* ... and another order adds its own.
LEMMA LotsAdd ==
  ASSUME NEW S, IsFiniteSet(S), S \subseteq Order, NEW o \in Order, o \notin S
  PROVE  LotsOf(S \cup {o}) = o.lots + LotsOf(S)
<1> DEFINE f == [q \in S \cup {o} |-> q.lots]
<1> DEFINE h == [q \in S |-> q.lots]
<1>1. IsFiniteSet(S \cup {o}) /\ (S \cup {o}) \ {o} = S
  BY FS_AddElement
<1>2. \A x \in S \cup {o} : f[x] \in Nat
  BY DEF Order
<1>3. f[o] = o.lots /\ \A x \in S : f[x] = h[x]
  OBVIOUS
<1> HIDE DEF f, h
<1>4. SumFunctionOnSet(f, S \cup {o}) = f[o] + SumFunctionOnSet(f, S)
  BY <1>1, <1>2, SumPick
<1>5. SumFunctionOnSet(f, S) = SumFunctionOnSet(h, S)
  BY <1>3, SumSame
<1> QED BY <1>3, <1>4, <1>5 DEF LotsOf, f, h

\* On a one-way venue one leg is empty.
OneWay == held \in [Legs -> Nat] /\ (held["long"] = 0 \/ held["short"] = 0)

\* Orders have ids of their own, which were given.
OwnIds ==
  /\ IsFiniteSet(orders)
  /\ \A o, q \in orders : o.id = q.id => o = q
  /\ \A o \in orders : o.id <= issued
  /\ \A i \in Pending : levels[i].order <= issued

\* A level remembers at least what may still fill of its order.
Covered == \A o \in orders, i \in Pending : levels[i].order = o.id => o.lots <= levels[i].qty

Within == ~blind => lost = {} /\ Exposure <= TotalLots

\* The inductive strengthening of WithinTotalLimit.
Limited == Remembered /\ OneWay /\ OwnIds /\ Covered /\ Within

Placing ==
  \E side \in {"buy", "sell"}, ask \in Asks :
    (\E i \in 0 .. N : PlaceGridLimitOrder(i, side, ask)) \/ ResponseLost(side, ask)

\* Only a placement makes a level pending, or changes what a pending one waits for.
LEMMA PendingKept ==
  ASSUME Typed, [Next]_vars, ~Placing, NEW i \in Pending'
  PROVE  i \in Pending /\ levels'[i].order = levels[i].order /\ levels'[i].qty = levels[i].qty
<1>0. i \in Level /\ levels'[i].state = "pending"
  BY DEF Pending
<1>a. \A l \in LevelInfo : /\ Emptied(l).state = "empty"
                           /\ \A s : /\ [l EXCEPT !.side = s].state = l.state
                                    /\ [l EXCEPT !.side = s].order = l.order
                              /\ [l EXCEPT !.side = s].qty = l.qty
                              /\ [l EXCEPT !.state = "stopped"].state = "stopped"
                              /\ [l EXCEPT !.state = "filled", !.size = l.qty].state = "filled"
  BY DEF Emptied, LevelInfo
<1>b. \A side : Fresh(side).state = "empty"
  BY DEF Fresh
<1>c. levels[i] \in LevelInfo /\ levels \in [Level -> LevelInfo]
  BY <1>0 DEF Typed
<1>1. CASE levels' = levels
  BY <1>0, <1>1 DEF Pending
<1>2. CASE \E o \in orders : CancelGridOrder(o)
  <2>1. PICK o \in orders : CancelGridOrder(o)
    BY <1>2
  <2>2. levels' = levels \/ levels' = [levels EXCEPT ![book[o.id]] = Emptied(levels[book[o.id]])]
    BY <2>1, <1>c DEF CancelGridOrder, grid
  <2>3. levels'[i] = levels[i] \/ levels'[i] = Emptied(levels[i])
    BY <2>2, <1>0, <1>c
  <2> QED BY <2>3, <1>0, <1>a, <1>c DEF Pending
<1>3. CASE CancelAllGridOrders
  <2>1. levels' = [j \in Level |-> IF j \in Pending THEN Emptied(levels[j]) ELSE levels[j]]
    BY <1>3 DEF CancelAllGridOrders
  <2> QED BY <2>1, <1>0, <1>a, <1>c DEF Pending
<1>4. CASE Relevel
  <2>1. PICK stage \in {"reinit", "recentre", "redirect"}, k \in 0 .. N : levels' \in Relevelled(stage, k)
    BY <1>4 DEF Relevel
  <2>2. CASE levels' = FreshGrid(k)
    BY <2>2, <1>0, <1>b DEF FreshGrid
  <2>3. CASE levels' \in Restored(k)
    <3>1. PICK from \in [Level -> Filled \cup {0}] :
            levels' = [j \in Level |-> IF from[j] = 0 THEN FreshGrid(k)[j]
                                      ELSE [levels[from[j]] EXCEPT !.side = FreshGrid(k)[j].side]]
      BY <2>3 DEF Restored
    <3>2. FreshGrid(k)[i].state = "empty"
      BY <1>0, <1>b DEF FreshGrid
    <3>3. from[i] # 0 => levels[from[i]] \in LevelInfo /\ levels[from[i]].state = "filled"
      BY <1>0, <1>c DEF Filled
    <3> QED BY <3>1, <3>2, <3>3, <1>0, <1>a
  <2>4. CASE levels' = [j \in Level |-> [levels[j] EXCEPT !.side = FreshGrid(k)[j].side]]
    <3>1. levels'[i] = [levels[i] EXCEPT !.side = FreshGrid(k)[i].side]
      BY <2>4, <1>0
    <3>2. /\ levels'[i].state = levels[i].state /\ levels'[i].order = levels[i].order
          /\ levels'[i].qty = levels[i].qty
      BY <3>1, <1>a, <1>c
    <3> QED BY <3>2, <1>0 DEF Pending
  <2> QED BY <2>1, <2>2, <2>3, <2>4 DEF Relevelled
<1>5. CASE Match
  <2>1. CASE levels' = [j \in Level |-> IF j \in Gone THEN Emptied(levels[j]) ELSE levels[j]]
    BY <2>1, <1>0, <1>a, <1>c DEF Pending
  <2>2. CASE levels' = [j \in Level |->
                IF j \in Gone THEN [levels[j] EXCEPT !.state = "filled", !.size = levels[j].qty]
                ELSE levels[j]]
    BY <2>2, <1>0, <1>a, <1>c DEF Pending
  <2> QED BY <1>5, <2>1, <2>2 DEF Match
<1>6. CASE StopLosses
  <2>1. PICK done \in SUBSET Filled :
          levels' = [j \in Level |-> IF j \in done THEN [levels[j] EXCEPT !.state = "stopped"] ELSE levels[j]]
    BY <1>6 DEF StopLosses
  <2> QED BY <2>1, <1>0, <1>a, <1>c DEF Pending
<1>7. CASE Start
  BY <1>7, <1>0, <1>b DEF Start
<1>8. \/ levels' = levels \/ (\E o \in orders : CancelGridOrder(o)) \/ CancelAllGridOrders
      \/ Relevel \/ Match \/ StopLosses \/ Start
  <2>1. CASE Decide
    BY <2>1 DEF Decide, Placing, ClosePosition, ChangeGrid, StopDeciding, grid
  <2>2. ASSUME NEW h \in Histories, Recover(h) PROVE levels' = levels
    BY <2>2 DEF Recover, grid
  <2>3. CASE StartCycle \/ CheckBoxBreakout \/ NoRecovery \/ Ask \/ CancelFails \/ CloseAll \/ NoPrice
             \/ List \/ AutoAdjust \/ Fill \/ Expire \/ Stop \/ Crash \/ UNCHANGED vars
    BY <2>3 DEF StartCycle, CheckBoxBreakout, NoRecovery, Ask, CancelFails, CloseAll, NoPrice,
                List, AutoAdjust, Fill, Expire, Stop, Crash, vars, grid
  <2> QED BY <2>1, <2>2, <2>3 DEF Next, Cycle
<1> QED BY <1>1, <1>2, <1>3, <1>4, <1>5, <1>6, <1>7, <1>8

HeldLots == held["long"] + held["short"]

\* Closing positions leaves less of each leg.
LEMMA CloseHolds ==
  ASSUME OneWay, NEW of, \A leg \in Legs : of[leg] \in Nat, Close(of)
  PROVE  OneWay' /\ HeldLots' <= HeldLots
<1>1. held' = [leg \in Legs |-> Larger(0, held[leg] - of[leg])]
  BY DEF Close
<1>2. \A leg \in Legs : held[leg] \in Nat /\ of[leg] \in Nat
  BY DEF OneWay
<1>3. \A leg \in Legs : held'[leg] \in Nat /\ held'[leg] <= held[leg]
  BY <1>1, <1>2 DEF Larger
<1>4. held' \in [Legs -> Nat]
  BY <1>1, <1>3
<1>5. "long" \in Legs /\ "short" \in Legs
  BY DEF Legs
<1> QED BY <1>2, <1>3, <1>4, <1>5 DEF OneWay, HeldLots

\* Steps that neither place an order nor fill one leave fewer orders and less held.
LEMMA OthersLess ==
  ASSUME Typed, OneWay, [Next]_vars, ~Placing, ~Fill
  PROVE  /\ orders' \subseteq orders /\ UNCHANGED issued
         /\ OneWay' /\ HeldLots' <= HeldLots
<1>a. "long" \in Legs /\ "short" \in Legs /\ HeldLots \in Nat /\ HeldLots <= HeldLots
  BY DEF OneWay, HeldLots, Legs
<1>b. ASSUME UNCHANGED held PROVE OneWay' /\ HeldLots' <= HeldLots
  BY <1>a, <1>b DEF OneWay, HeldLots
<1>c. IsFiniteSet(Legs) /\ IsFiniteSet(Level)
  <2>1. IsFiniteSet({"long"}) /\ Legs = {"long"} \cup {"short"}
    BY FS_EmptySet, FS_AddElement DEF Legs
  <2>2. IsFiniteSet(Legs)
    BY <2>1, FS_AddElement
  <2>3. N \in Int
    BY RegimeAssumption
  <2> QED BY <2>2, <2>3, FS_Interval DEF Level
<1>1. CASE CloseAll
  <2>1. PICK done \in SUBSET {leg \in Legs : held[leg] > 0} :
          Close([leg \in Legs |-> SumFunctionOnSet(held, {l \in done : Called(l) = leg})])
    BY <1>1 DEF CloseAll
  <2>2. ASSUME NEW leg \in Legs PROVE SumFunctionOnSet(held, {l \in done : Called(l) = leg}) \in Nat
    <3>1. {l \in done : Called(l) = leg} \subseteq Legs
      BY <2>1
    <3>2. IsFiniteSet({l \in done : Called(l) = leg})
      BY <1>c, <3>1, FS_Subset
    <3> QED BY <3>1, <3>2, SumNat DEF OneWay
  <2>3. orders' \subseteq orders /\ UNCHANGED issued
    BY <1>1, <2>1, CloseKeeps DEF CloseAll
  <2>4. OneWay' /\ HeldLots' <= HeldLots
    <3> DEFINE of == [leg \in Legs |-> SumFunctionOnSet(held, {l \in done : Called(l) = leg})]
    <3>1. \A leg \in Legs : of[leg] \in Nat
      BY <2>2
    <3>2. Close(of)
      BY <2>1
    <3> HIDE DEF of
    <3> QED BY <3>1, <3>2, CloseHolds
  <2> QED BY <2>3, <2>4
<1>2. CASE StopLosses
  <2>1. PICK done \in SUBSET Filled :
          Close([leg \in Legs |-> SumFunctionOnSet(Sizes, {i \in done : LegOf(i) = leg})])
    BY <1>2 DEF StopLosses
  <2>2. ASSUME NEW leg \in Legs PROVE SumFunctionOnSet(Sizes, {i \in done : LegOf(i) = leg}) \in Nat
    <3>1. {i \in done : LegOf(i) = leg} \subseteq Level
      BY <2>1 DEF Filled
    <3>2. IsFiniteSet({i \in done : LegOf(i) = leg})
      BY <1>c, <3>1, FS_Subset
    <3>3. \A i \in Level : Sizes[i] \in Nat
      BY DEF Sizes, Typed, LevelInfo
    <3> QED BY <3>1, <3>2, <3>3, SumNat
  <2>3. orders' \subseteq orders /\ UNCHANGED issued
    BY <1>2, <2>1, CloseKeeps DEF StopLosses
  <2>4. OneWay' /\ HeldLots' <= HeldLots
    <3> DEFINE of == [leg \in Legs |-> SumFunctionOnSet(Sizes, {i \in done : LegOf(i) = leg})]
    <3>1. \A leg \in Legs : of[leg] \in Nat
      BY <2>2
    <3>2. Close(of)
      BY <2>1
    <3> HIDE DEF of
    <3> QED BY <3>1, <3>2, CloseHolds
  <2> QED BY <2>3, <2>4
<1>3. ASSUME NEW leg \in Legs, NEW lots \in 1 .. held[leg], ClosePosition(leg, lots)
      PROVE  orders' \subseteq orders /\ UNCHANGED issued /\ OneWay' /\ HeldLots' <= HeldLots
  <2> DEFINE of == [l \in Legs |-> IF l = leg THEN lots ELSE 0]
  <2>1. Close(of) /\ UNCHANGED issued
    BY <1>3 DEF ClosePosition
  <2>2. \A l \in Legs : of[l] \in Nat
    BY DEF OneWay
  <2> HIDE DEF of
  <2> QED BY <2>1, <2>2, CloseHolds, CloseKeeps
<1>4. ASSUME NEW o \in orders, CancelGridOrder(o)
      PROVE  orders' \subseteq orders /\ UNCHANGED <<issued, held>>
  BY <1>4 DEF CancelGridOrder
<1>5. CASE CancelAllGridOrders
  BY <1>5, <1>b DEF CancelAllGridOrders
<1>6. CASE Expire
  BY <1>6, <1>b DEF Expire, Rest
<1>7. CASE Decide
  <2>1. CASE \E leg \in Legs : \E lots \in 1 .. held[leg] : ClosePosition(leg, lots)
    BY <2>1, <1>3
  <2>2. CASE \E o \in orders : CancelGridOrder(o)
    BY <2>2, <1>4, <1>b
  <2>3. CASE ChangeGrid \/ StopDeciding
    BY <2>3, <1>b DEF ChangeGrid, StopDeciding, exchange
  <2> QED BY <1>7, <2>1, <2>2, <2>3 DEF Decide, Placing
<1>8. ASSUME NEW h \in Histories, Recover(h)
      PROVE  UNCHANGED <<orders, issued, held>>
  BY <1>8 DEF Recover, exchange
<1>9. CASE StartCycle \/ CheckBoxBreakout \/ NoRecovery \/ Ask \/ CancelFails \/ Relevel \/ NoPrice
             \/ List \/ Match \/ AutoAdjust \/ Stop \/ Crash \/ Start \/ UNCHANGED vars
  <2>1. UNCHANGED <<orders, issued, held>>
    BY <1>9 DEF StartCycle, CheckBoxBreakout, NoRecovery, Ask, CancelFails, Relevel, NoPrice,
                List, Match, AutoAdjust, Stop, Crash, Start, vars, exchange
  <2> QED BY <2>1, <1>b
<1> QED BY <1>1, <1>2, <1>5, <1>6, <1>7, <1>8, <1>9, <1>b DEF Next, Cycle

\* A fill moves lots from an order to a leg, or uses up the other leg first.
LEMMA FillMoves ==
  ASSUME Typed, OneWay, OwnIds, Covered, venue.legs = "one", Fill
  PROVE  /\ OneWay' /\ OwnIds' /\ Covered' /\ Exposure' <= Exposure
         /\ orders' \subseteq Order
<1>1. PICK o \in orders : \E lots \in 1 .. o.lots :
        /\ Rest((orders \ {o}) \cup (IF lots < o.lots THEN {[o EXCEPT !.lots = @ - lots]} ELSE {}))
        /\ held' = Traded(o.side, lots)
  BY DEF Fill
<1>2. PICK lots \in 1 .. o.lots :
        /\ Rest((orders \ {o}) \cup (IF lots < o.lots THEN {[o EXCEPT !.lots = @ - lots]} ELSE {}))
        /\ held' = Traded(o.side, lots)
  BY <1>1
<1>3. o \in Order /\ o.lots \in Nat \ {0} /\ lots \in Nat \ {0} /\ lots <= o.lots
      /\ o.side \in {"buy", "sell"} /\ UNCHANGED <<issued, levels>>
  BY DEF Typed, Order, Fill, grid
<1> DEFINE rest == [o EXCEPT !.lots = @ - lots]
<1>4. rest.id = o.id /\ rest.lots = o.lots - lots /\ (lots < o.lots => rest \in Order)
  <2>1. lots < o.lots => o.lots - lots \in Nat \ {0}
    BY <1>3
  <2> QED BY <1>3, <2>1 DEF Order
<1>5. orders' = (orders \ {o}) \cup (IF lots < o.lots THEN {rest} ELSE {})
  BY <1>2 DEF Rest
<1> HIDE DEF rest
<1>6. OneWay' /\ HeldLots' <= HeldLots + lots
  <2>1. held["long"] \in Nat /\ held["short"] \in Nat /\ "long" \in Legs /\ "short" \in Legs
    BY DEF OneWay, Legs
  <2>2. CASE o.side = "buy"
    <3> DEFINE c == Smaller(held["short"], lots)
    <3>1. held' = [held EXCEPT !["long"] = held["long"] + lots - c, !["short"] = held["short"] - c]
      BY <1>2, <2>2 DEF Traded, OneWay, Legs
    <3>2. c \in Nat /\ c <= lots /\ c <= held["short"] /\ (c = lots \/ c = held["short"])
      BY <1>3, <2>1 DEF Smaller
    <3> HIDE DEF c
    <3>3. held'["long"] = held["long"] + lots - c /\ held'["short"] = held["short"] - c
      BY <2>1, <3>1 DEF OneWay
    <3>4. held["long"] + lots - c \in Nat /\ held["short"] - c \in Nat
      BY <1>3, <2>1, <3>2
    <3>5. held' \in [Legs -> Nat]
      BY <2>1, <3>1, <3>4 DEF OneWay
    <3> QED BY <1>3, <2>1, <3>2, <3>3, <3>5 DEF OneWay, HeldLots
  <2>3. CASE o.side = "sell"
    <3> DEFINE c == Smaller(held["long"], lots)
    <3>1. held' = [held EXCEPT !["short"] = held["short"] + lots - c, !["long"] = held["long"] - c]
      BY <1>2, <2>3 DEF Traded, OneWay, Legs
    <3>2. c \in Nat /\ c <= lots /\ c <= held["long"] /\ (c = lots \/ c = held["long"])
      BY <1>3, <2>1 DEF Smaller
    <3> HIDE DEF c
    <3>3. held'["short"] = held["short"] + lots - c /\ held'["long"] = held["long"] - c
      BY <2>1, <3>1 DEF OneWay
    <3>4. held["short"] + lots - c \in Nat /\ held["long"] - c \in Nat
      BY <1>3, <2>1, <3>2
    <3>5. held' \in [Legs -> Nat]
      BY <2>1, <3>1, <3>4 DEF OneWay
    <3> QED BY <1>3, <2>1, <3>2, <3>3, <3>5 DEF OneWay, HeldLots
  <2> QED BY <1>3, <2>2, <2>3
<1>7. IsFiniteSet(orders \ {o}) /\ orders \ {o} \subseteq Order /\ o \notin orders \ {o}
      /\ (orders \ {o}) \cup {o} = orders /\ rest \notin orders \ {o}
  BY <1>4, FS_Subset DEF OwnIds, Typed
<1>8. LotsOf(orders) = o.lots + LotsOf(orders \ {o})
  BY <1>3, <1>7, LotsAdd
<1>9. LotsOf(orders') = (o.lots - lots) + LotsOf(orders \ {o}) /\ LotsOf(orders \ {o}) \in Nat
  <2>1. LotsOf(orders \ {o}) \in Nat
    BY <1>7, LotsNat
  <2>2. CASE lots < o.lots
    <3>1. LotsOf((orders \ {o}) \cup {rest}) = rest.lots + LotsOf(orders \ {o})
      BY <1>4, <1>7, <2>2, LotsAdd
    <3>2. orders' = (orders \ {o}) \cup {rest}
      BY <1>5, <2>2
    <3> QED BY <1>4, <2>1, <3>1, <3>2
  <2>3. CASE ~(lots < o.lots)
    <3>1. orders' = orders \ {o} /\ o.lots - lots = 0
      BY <1>3, <1>5, <2>3
    <3> QED BY <2>1, <3>1
  <2> QED BY <2>1, <2>2, <2>3
<1>10. Exposure' <= Exposure
  <2>1. LotsOf(orders)' = LotsOf(orders')
    BY DEF LotsOf
  <2>2. HeldLots \in Nat /\ HeldLots' \in Nat
    BY <1>6 DEF OneWay, HeldLots, Legs
  <2>3. Exposure = HeldLots + LotsOf(orders) /\ Exposure' = HeldLots' + LotsOf(orders')
    BY <2>1 DEF Exposure, HeldLots
  <2> QED BY <1>3, <1>6, <1>8, <1>9, <2>2, <2>3
<1>11. orders' \subseteq orders \cup {rest} /\ (rest \in orders' => lots < o.lots) /\ o \notin orders'
  BY <1>3, <1>4, <1>5, <1>7
<1>12. OwnIds'
  <2>1. IsFiniteSet(orders')
    <3>1. IsFiniteSet((orders \ {o}) \cup {rest})
      BY <1>7, FS_AddElement
    <3>2. orders' \subseteq (orders \ {o}) \cup {rest}
      BY <1>5
    <3> QED BY <3>1, <3>2, FS_Subset
  <2>2. \A p, q \in orders' : p.id = q.id => p = q
    BY <1>4, <1>5 DEF OwnIds
  <2>3. \A p \in orders' : p.id <= issued
    BY <1>4, <1>11 DEF OwnIds
  <2> QED BY <1>3, <2>1, <2>2, <2>3 DEF OwnIds, Pending
<1>13. Covered'
  <2> SUFFICES ASSUME NEW p \in orders', NEW i \in Pending, levels[i].order = p.id
               PROVE  p.lots <= levels[i].qty
    BY <1>3 DEF Covered, Pending
  <2>1. CASE p \in orders
    BY <2>1 DEF Covered
  <2>2. CASE p = rest
    <3>1. o.lots <= levels[i].qty
      BY <1>4, <2>2 DEF Covered
    <3>2. levels[i].qty \in Nat
      BY DEF Typed, Pending, LevelInfo
    <3> QED BY <1>3, <1>4, <2>2, <3>1, <3>2
  <2> QED BY <1>11, <2>1, <2>2
<1> QED BY <1>4, <1>6, <1>10, <1>11, <1>12, <1>13 DEF Typed

\* What an order that is placed adds, and that its id is new.
LEMMA OrderedAdds ==
  ASSUME Typed, OwnIds, NEW side \in {"buy", "sell"}, NEW ask \in Asks,
         Ordered(side, Smaller(ask, LevelLots))
  PROVE  /\ issued' = issued + 1 /\ issued \in Nat
         /\ \E new \in Order : /\ new.id = issued' /\ new.lots = Smaller(ask, LevelLots)
                               /\ new \notin orders /\ orders' = orders \cup {new}
         /\ LotsOf(orders') = LotsOf(orders) + Smaller(ask, LevelLots)
         /\ IsFiniteSet(orders')
         /\ \A o, q \in orders' : o.id = q.id => o = q
         /\ \A o \in orders' : o.id <= issued'
<1> DEFINE new == [id |-> issued', side |-> side, lots |-> Smaller(ask, LevelLots)]
<1>1. issued \in Nat /\ issued < MaxOrders /\ issued' = issued + 1 /\ MaxOrders \in Nat
  BY TradingAssumption DEF Ordered, Typed
<1>2. Smaller(ask, LevelLots) \in Nat \ {0}
  BY TradingAssumption DEF Smaller
<1>3. issued' \in Ids
  BY <1>1 DEF Ids
<1>4. new \in Order /\ new.id = issued' /\ new.lots = Smaller(ask, LevelLots)
  BY <1>2, <1>3 DEF Order
<1>5. orders' = orders \cup {new}
  BY DEF Ordered
<1> HIDE DEF new
<1>6. \A o \in orders : o.id \in Nat /\ o.id <= issued
  BY DEF OwnIds, Typed, Order, Ids
<1>7. new \notin orders
  BY <1>1, <1>4, <1>6
<1>8. LotsOf(orders') = new.lots + LotsOf(orders) /\ LotsOf(orders) \in Nat
  BY <1>4, <1>5, <1>7, LotsAdd, LotsNat DEF OwnIds, Typed
<1>9. IsFiniteSet(orders')
  BY <1>5, FS_AddElement DEF OwnIds
<1>10. \A o, q \in orders' : o.id = q.id => o = q
  BY <1>1, <1>4, <1>5, <1>6 DEF OwnIds
<1>11. \A o \in orders' : o.id <= issued'
  BY <1>1, <1>4, <1>5, <1>6
<1>12. LotsOf(orders') = LotsOf(orders) + Smaller(ask, LevelLots)
  BY <1>2, <1>4, <1>8
<1> QED BY <1>1, <1>4, <1>5, <1>7, <1>9, <1>10, <1>11, <1>12

\* What may still fill is no more than what the pending levels remember, as long as
\* no order is lost.
LEMMA PendingCovers ==
  ASSUME Limited, ~blind
  PROVE  LotsOf(orders) <= PendingLots /\ PendingLots \in Nat
<1> DEFINE m == [o \in orders |-> CHOOSE i \in Pending : levels[i].order = o.id]
<1> DEFINE f == [o \in orders |-> o.lots]
<1> DEFINE h == [i \in Level |-> levels[i].qty]
<1>1. ASSUME NEW o \in orders PROVE m[o] \in Pending /\ levels[m[o]].order = o.id
  <2>1. o.id \in Tracked
    BY DEF Limited, Remembered, NoOrderForgotten, Within
  <2>2. \E i \in Pending : levels[i].order = o.id
    BY <2>1 DEF Tracked
  <2> QED BY <2>2
<1>2. m \in [orders -> Pending]
  BY <1>1
<1>3. \A o, q \in orders : m[o] = m[q] => o = q
  BY <1>1 DEF Limited, OwnIds
<1>4. IsFiniteSet(orders) /\ IsFiniteSet(Pending)
  <2>1. N \in Int /\ 1 \in Int
    BY RegimeAssumption
  <2>2. IsFiniteSet(Level)
    BY <2>1, FS_Interval DEF Level
  <2>3. Pending \subseteq Level
    BY DEF Pending
  <2> QED BY <2>2, <2>3, FS_Subset DEF Limited, OwnIds
<1>5. (\A o \in orders : f[o] \in Nat) /\ \A i \in Pending : h[i] \in Nat
  BY DEF Limited, Remembered, Typed, Order, Pending, LevelInfo
<1>6. \A o \in orders : f[o] <= h[m[o]]
  <2> HIDE DEF m
  <2>1. \A o \in orders : m[o] \in Pending /\ m[o] \in Level /\ o.lots <= levels[m[o]].qty
    BY <1>1 DEF Limited, Covered, Pending
  <2> QED BY <2>1
<1> HIDE DEF m, f, h
<1>7. SumFunctionOnSet(f, orders) <= SumFunctionOnSet(h, Pending)
  BY <1>2, <1>3, <1>4, <1>5, <1>6, SumCovers
<1>8. SumFunctionOnSet(h, Pending) \in Nat
  BY <1>4, <1>5, SumNat
<1> QED BY <1>7, <1>8 DEF LotsOf, PendingLots, f, h

\* On a one-way venue a list of positions that can be read tells what is held.
LEMMA ReadingTells ==
  ASSUME OneWay, NEW position \in Readings
  PROVE  position = HeldLots
<1>1. held["long"] \in Nat /\ held["short"] \in Nat /\ (held["long"] = 0 \/ held["short"] = 0)
  BY DEF OneWay, Legs
<1>2. Listings = {n \in {held["long"], held["short"]} : n > 0}
  BY DEF Listings, Legs
<1>3. CASE held["long"] = 0 /\ held["short"] = 0
  <2>1. Readings = {0}
    BY <1>2, <1>3 DEF Readings
  <2> QED BY <1>3, <2>1 DEF HeldLots
<1>4. CASE held["long"] > 0
  <2>1. held["short"] = 0 /\ Listings = {held["long"]}
    BY <1>1, <1>2, <1>4
  <2> QED BY <1>1, <2>1 DEF Readings, HeldLots
<1>5. CASE held["short"] > 0
  <2>1. held["long"] = 0 /\ Listings = {held["short"]}
    BY <1>1, <1>2, <1>5
  <2> QED BY <1>1, <2>1 DEF Readings, HeldLots
<1> QED BY <1>1, <1>3, <1>4, <1>5

\* An order is only placed when it fits beside all that is held and may still fill.
LEMMA PlaceFits ==
  ASSUME Limited, Placing
  PROVE  OneWay' /\ OwnIds' /\ Covered' /\ Within'
<1>a. Typed /\ OwnIds /\ Covered /\ OneWay /\ Within
  BY DEF Limited, Remembered
<1>b. ASSUME NEW ask \in Asks PROVE ask \in Nat /\ Smaller(ask, LevelLots) \in Nat /\ Smaller(ask, LevelLots) <= ask
  BY TradingAssumption DEF Smaller
<1>c. \A i \in Pending : i \in Level /\ levels[i].order \in Nat /\ levels[i].qty \in Nat /\ levels[i].order <= issued
  BY <1>a DEF Typed, LevelInfo, Pending, OwnIds, Ids, NoOrder
<1>1. ASSUME NEW side \in {"buy", "sell"}, NEW ask \in Asks, NEW i \in 0 .. N,
             PlaceGridLimitOrder(i, side, ask)
      PROVE  OneWay' /\ OwnIds' /\ Covered' /\ Within'
  <2> DEFINE lots == Smaller(ask, LevelLots)
  <2>1. /\ Ordered(side, lots) /\ UNCHANGED held
        /\ IF i \in Level THEN Remember(i, issued', ask) ELSE UNCHANGED grid
    BY <1>1 DEF PlaceGridLimitOrder
  <2>2. /\ issued' = issued + 1 /\ issued \in Nat
        /\ LotsOf(orders') = LotsOf(orders) + lots
        /\ IsFiniteSet(orders')
        /\ \A o, q \in orders' : o.id = q.id => o = q
        /\ \A o \in orders' : o.id <= issued'
    BY <2>1, <1>a, OrderedAdds
  <2>3. PICK new \in Order : /\ new.id = issued' /\ new.lots = lots
                             /\ new \notin orders /\ orders' = orders \cup {new}
    BY <2>1, <1>a, OrderedAdds
  <2>4. \A j \in Pending' : \/ j \in Pending /\ levels'[j].order = levels[j].order
                                /\ levels'[j].qty = levels[j].qty
                            \/ levels'[j].order = issued' /\ levels'[j].qty = ask
    <3>1. CASE i \in Level
      <4> DEFINE l == [levels[i] EXCEPT !.state = "pending", !.order = issued', !.qty = ask]
      <4>1. levels[i] \in LevelInfo
        BY <1>a, <3>1 DEF Typed
      <4>2. l.order = issued' /\ l.qty = ask
        BY <4>1 DEF LevelInfo
      <4>3. levels' = [levels EXCEPT ![i] = l]
        BY <1>a, <2>1, <3>1 DEF Remember, Typed
      <4> HIDE DEF l
      <4>4. levels'[i] = l /\ \A j \in Level \ {i} : levels'[j] = levels[j]
        BY <1>a, <3>1, <4>3 DEF Typed
      <4> QED BY <4>2, <4>4 DEF Pending
    <3>2. CASE i \notin Level
      BY <2>1, <3>2 DEF grid, Pending
    <3> QED BY <3>1, <3>2
  <2>5. OwnIds'
    <3>1. \A j \in Pending' : levels'[j].order <= issued'
      BY <1>c, <2>2, <2>4
    <3> QED BY <2>2, <3>1 DEF OwnIds
  <2>6. Covered'
    <3> SUFFICES ASSUME NEW o \in orders', NEW j \in Pending', levels'[j].order = o.id
                 PROVE  o.lots <= levels'[j].qty
      BY DEF Covered
    <3>1. o \in orders \/ o = new
      BY <2>3
    <3>2. o \in orders => o.id \in Nat /\ o.id <= issued
      BY <1>a DEF OwnIds, Typed, Order, Ids
    <3>3. CASE j \in Pending /\ levels'[j].order = levels[j].order /\ levels'[j].qty = levels[j].qty
      <4>1. o \in orders
        <5>1. levels[j].order \in Nat /\ levels[j].order <= issued
          BY <1>c, <3>3
        <5>2. levels[j].order # issued'
          BY <2>2, <5>1
        <5> QED BY <2>3, <3>1, <3>3, <5>2
      <4> QED BY <1>a, <3>3, <4>1 DEF Covered
    <3>4. CASE levels'[j].order = issued' /\ levels'[j].qty = ask
      <4>1. o = new
        BY <2>2, <3>1, <3>2, <3>4
      <4> QED BY <1>b, <2>3, <3>4, <4>1
    <3> QED BY <2>4, <3>3, <3>4
  <2>7. OneWay'
    BY <1>a, <2>1 DEF OneWay
  <2>8. Within'
    <3> SUFFICES ASSUME ~blind' PROVE lost' = {} /\ Exposure' <= TotalLots
      BY DEF Within
    <3>1. PICK position \in Positions : Fits(position, lots) /\ ~blind /\ lost' = {} /\ position \in Readings
      BY <1>1 DEF PlaceGridLimitOrder, DropUnread
    <3>2. position = HeldLots /\ HeldLots \in Nat
      BY <1>a, <3>1, ReadingTells DEF OneWay, HeldLots, Legs
    <3>3. position + PendingLots + lots <= TotalLots /\ TotalLots \in Nat
      BY <3>1, TradingAssumption DEF Fits
    <3>4. LotsOf(orders) <= PendingLots /\ PendingLots \in Nat /\ LotsOf(orders) \in Nat
      BY <1>a, <3>1, PendingCovers, LotsNat DEF OwnIds, Typed
    <3>5. Exposure' = HeldLots + LotsOf(orders')
      BY <2>1 DEF Exposure, HeldLots, LotsOf
    <3> HIDE DEF lots
    <3>6. lots \in Nat
      BY <1>b DEF lots
    <3> QED BY <2>2, <3>1, <3>2, <3>3, <3>4, <3>5, <3>6
  <2> QED BY <2>5, <2>6, <2>7, <2>8
<1>2. ASSUME NEW side \in {"buy", "sell"}, NEW ask \in Asks, ResponseLost(side, ask)
      PROVE  OneWay' /\ OwnIds' /\ Covered' /\ Within'
  <2>1. /\ Ordered(side, Smaller(ask, LevelLots)) /\ UNCHANGED <<held, levels>>
        /\ lost' = (lost \cup {issued'}) \cap IdsOf(orders') /\ (blind' <=> blind \/ lost' # {})
    BY <1>2 DEF ResponseLost, grid, Drop, DropUnread
  <2>2. /\ issued' = issued + 1 /\ issued \in Nat
        /\ IsFiniteSet(orders')
        /\ \A o, q \in orders' : o.id = q.id => o = q
        /\ \A o \in orders' : o.id <= issued'
    BY <2>1, <1>a, OrderedAdds
  <2>3. PICK new \in Order : new.id = issued' /\ new \notin orders /\ orders' = orders \cup {new}
    BY <2>1, <1>a, OrderedAdds
  <2>4. Within'
    <3>1. issued' \in lost'
      BY <2>1, <2>3 DEF IdsOf
    <3> QED BY <2>1, <3>1 DEF Within
  <2>5. OwnIds'
    <3>1. \A i \in Pending : levels[i].order <= issued'
      BY <1>c, <2>2
    <3> QED BY <2>1, <2>2, <3>1 DEF OwnIds, Pending
  <2>6. Covered'
    <3> SUFFICES ASSUME NEW o \in orders', NEW i \in Pending, levels[i].order = o.id
                 PROVE  o.lots <= levels[i].qty
      BY <2>1 DEF Covered, Pending
    <3>1. o \in orders
      BY <1>c, <2>2, <2>3
    <3> QED BY <1>a, <3>1 DEF Covered
  <2>7. OneWay'
    BY <1>a, <2>1 DEF OneWay
  <2> QED BY <2>4, <2>5, <2>6, <2>7
<1> QED BY <1>1, <1>2 DEF Placing

\* Nobody is blind to a lost order: what is lost while nobody was, is seen at once.
LEMMA BlindStays ==
  ASSUME Within, [Next]_vars, ~blind'
  PROVE  ~blind /\ lost' = {}
<1>a. ASSUME NEW ids, NEW misread, DropUnread(ids, misread) PROVE ~blind /\ lost' = {}
  BY <1>a DEF DropUnread
<1>b. ASSUME NEW S, Rest(S), UNCHANGED blind PROVE ~blind /\ lost' = {}
  BY <1>b DEF Rest, Within
<1>c. ASSUME UNCHANGED <<lost, blind>> PROVE ~blind /\ lost' = {}
  BY <1>c DEF Within
<1>d. ASSUME NEW of, Close(of), UNCHANGED blind PROVE ~blind /\ lost' = {}
  BY <1>b, <1>d DEF Close
<1>1. CASE Decide
  <2>1. ASSUME NEW side \in {"buy", "sell"}, NEW ask \in Asks, NEW i \in 0 .. N,
               PlaceGridLimitOrder(i, side, ask)
        PROVE  ~blind /\ lost' = {}
    BY <2>1, <1>a DEF PlaceGridLimitOrder
  <2>2. ASSUME NEW side \in {"buy", "sell"}, NEW ask \in Asks, ResponseLost(side, ask)
        PROVE  ~blind /\ lost' = {}
    BY <2>2, <1>a DEF ResponseLost, Drop
  <2>3. ASSUME NEW o \in orders, CancelGridOrder(o) PROVE ~blind /\ lost' = {}
    BY <2>3, <1>a DEF CancelGridOrder, Drop
  <2>4. ASSUME NEW leg \in Legs, NEW lots \in 1 .. held[leg], ClosePosition(leg, lots)
        PROVE  ~blind /\ lost' = {}
    BY <2>4, <1>d DEF ClosePosition
  <2>5. CASE ChangeGrid \/ StopDeciding
    BY <2>5, <1>c DEF ChangeGrid, StopDeciding
  <2> QED BY <1>1, <2>1, <2>2, <2>3, <2>4, <2>5 DEF Decide
<1>2. CASE CancelAllGridOrders
  BY <1>2, <1>a DEF CancelAllGridOrders, Drop
<1>3. CASE CloseAll
  BY <1>3, <1>d DEF CloseAll
<1>4. CASE Relevel
  BY <1>4, <1>a DEF Relevel, Drop
<1>5. CASE StopLosses
  BY <1>5, <1>d DEF StopLosses
<1>6. CASE Start
  BY <1>6, <1>a DEF Start, Drop
<1>7. CASE Fill
  BY <1>7, <1>b DEF Fill
<1>8. CASE Expire
  BY <1>8, <1>b DEF Expire
<1>9. ASSUME NEW h \in Histories, Recover(h) PROVE ~blind /\ lost' = {}
  BY <1>9, <1>c DEF Recover
<1>10. CASE StartCycle \/ CheckBoxBreakout \/ NoRecovery \/ Ask \/ CancelFails \/ NoPrice
             \/ List \/ Match \/ AutoAdjust \/ Stop \/ Crash \/ UNCHANGED vars
  <2>1. UNCHANGED <<lost, blind>>
    BY <1>10 DEF StartCycle, CheckBoxBreakout, NoRecovery, Ask, CancelFails, NoPrice,
                 List, Match, AutoAdjust, Stop, Crash, vars
  <2> QED BY <2>1, <1>c
<1> QED BY <1>1, <1>2, <1>3, <1>4, <1>5, <1>6, <1>7, <1>8, <1>9, <1>10 DEF Next, Cycle

\* Every step on a one-way venue keeps the limit.
LEMMA LimitedStep ==
  ASSUME Limited, venue.legs = "one", ~venue.stale, [Next]_vars
  PROVE  Limited'
<1>a. Typed /\ OwnIds /\ Covered /\ OneWay /\ Within /\ Remembered
  BY DEF Limited, Remembered
<1>1. Remembered'
  BY <1>a, RememberedStep
<1>2. CASE Placing
  BY <1>1, <1>2, PlaceFits DEF Limited
<1>3. CASE Fill
  <2>1. OneWay' /\ OwnIds' /\ Covered' /\ Exposure' <= Exposure /\ orders' \subseteq Order
    BY <1>3, <1>a, FillMoves
  <2>2. Exposure \in Nat /\ Exposure' \in Nat
    <3>1. LotsOf(orders) \in Nat /\ LotsOf(orders') \in Nat
      BY <1>a, <2>1, LotsNat DEF OwnIds, Typed
    <3>2. LotsOf(orders)' = LotsOf(orders')
      BY DEF LotsOf
    <3> QED BY <1>a, <2>1, <3>1, <3>2 DEF Exposure, OneWay, Legs
  <2>3. Within'
    BY <1>a, <2>1, <2>2, BlindStays, TradingAssumption DEF Within
  <2> QED BY <1>1, <2>1, <2>3 DEF Limited
<1>4. CASE ~Placing /\ ~Fill
  <2>1. orders' \subseteq orders /\ UNCHANGED issued /\ OneWay' /\ HeldLots' <= HeldLots
    BY <1>4, <1>a, OthersLess
  <2>2. \A i \in Pending' : i \in Pending /\ levels'[i].order = levels[i].order /\ levels'[i].qty = levels[i].qty
    BY <1>4, <1>a, PendingKept
  <2>3. OwnIds'
    <3>1. IsFiniteSet(orders')
      BY <1>a, <2>1, FS_Subset DEF OwnIds
    <3> QED BY <1>a, <2>1, <2>2, <3>1 DEF OwnIds
  <2>4. Covered'
    BY <1>a, <2>1, <2>2 DEF Covered
  <2>5. Exposure' <= Exposure /\ Exposure \in Nat /\ Exposure' \in Nat
    <3>1. /\ LotsOf(orders') <= LotsOf(orders)
          /\ LotsOf(orders) \in Nat /\ LotsOf(orders') \in Nat
      <4>1. orders' \subseteq Order /\ IsFiniteSet(orders')
        BY <1>a, <2>1, <2>3 DEF OwnIds, Typed
      <4> QED BY <1>a, <2>1, <4>1, LotsFewer, LotsNat DEF OwnIds, Typed
    <3>2. LotsOf(orders)' = LotsOf(orders')
      BY DEF LotsOf
    <3>3. HeldLots \in Nat /\ HeldLots' \in Nat
      BY <1>a, <2>1 DEF OneWay, HeldLots, Legs
    <3>4. Exposure = HeldLots + LotsOf(orders) /\ Exposure' = HeldLots' + LotsOf(orders')
      BY <3>2 DEF Exposure, HeldLots
    <3> QED BY <2>1, <3>1, <3>3, <3>4
  <2>6. Within'
    BY <1>a, <2>5, BlindStays, TradingAssumption DEF Within
  <2> QED BY <1>1, <2>1, <2>3, <2>4, <2>6 DEF Limited
<1> QED BY <1>2, <1>3, <1>4

\* "Total position should not exceed: TotalInvestment * Leverage": on a one-way
\* venue that lists the orders it has, an account that starts within the limit
\* holds, and has ordered, no more than it, while no order is lost and the positions
\* can be read (checkTotalPositionLimit).
THEOREM LimitKept ==
  ASSUME \A v \in Venues : v.legs = "one" => ~v.stale,
         \A lots \in Holdings : lots <= TotalLots
  PROVE  Spec => []WithinTotalLimit
<1> DEFINE Inv == venue \in Venues /\ (venue.legs = "one" => Limited)
<1>1. Init => Inv
  <2> SUFFICES ASSUME Init PROVE Inv
    OBVIOUS
  <2>1. Remembered
    <3>1. levels \in [Level -> LevelInfo]
      BY FreshLevels DEF Init
    <3>2. TodoOK /\ ~Now("match")
      BY DEF Init, TodoOK, ListsFirst, Now
    <3> QED BY <3>1, <3>2, TradingAssumption DEF Init, Remembered, Typed, NoOrderForgotten
  <2>2. PICK lots \in Holdings : held = [leg \in Legs |-> IF leg = "long" THEN lots ELSE 0]
    BY DEF Init
  <2>3. lots \in Nat /\ lots <= TotalLots /\ held["long"] = lots /\ held["short"] = 0
    BY <2>2, TradingAssumption DEF Legs
  <2>4. OneWay
    BY <2>2, <2>3 DEF OneWay
  <2>5. orders = {} /\ Pending = {}
    BY DEF Init, Pending, Fresh
  <2>6. OwnIds /\ Covered
    BY <2>5, FS_EmptySet DEF OwnIds, Covered
  <2>7. LotsOf(orders) = 0
    BY <2>5, FS_EmptySet, SumSplit DEF LotsOf
  <2>8. Within
    BY <2>3, <2>7 DEF Within, Exposure, Init
  <2> QED BY <2>1, <2>4, <2>6, <2>8 DEF Limited, Init
<1>2. Inv /\ [Next]_vars => Inv'
  <2> SUFFICES ASSUME Inv, [Next]_vars PROVE Inv'
    OBVIOUS
  <2>1. UNCHANGED venue
    BY VenueStays
  <2> QED BY <2>1, LimitedStep
<1>3. Inv => WithinTotalLimit
  BY DEF Limited, Within, WithinTotalLimit
<1> QED BY <1>1, <1>2, <1>3, PTL DEF Spec
=============================================================================
