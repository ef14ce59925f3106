--------------------------- MODULE TrailingArming ---------------------------
(***************************************************************************)
(* The trailing orders of one open position on OKX, one per drawdown tier: *)
(* who places, records, replaces and cancels them.  Sources:               *)
(* trader/auto_trader_risk.go (drawdown monitor, arming, re-arm breaker),  *)
(* protection_reconciler.go, drawdown_order_reclaim.go and                 *)
(* protection_execution.go (the opener).                                   *)
(*                                                                         *)
(* Three goroutines arm tiers: the opener once, the drawdown monitor and   *)
(* the reconciler at every poll.  What keeps them apart is one state per   *)
(* position, claimed by compare-and-set (arm), with a second dimension for *)
(* observations (obs); the ledger of records (rec) is persisted, arm, obs, *)
(* the breaker and the cooldowns are memory.                               *)
(*                                                                         *)
(* The module follows the position until a tier fires; what happens then   *)
(* is left out.  Data abstracted: profit is a level; an order has the      *)
(* shape of its tier, so a matcher without an order id recognises the tier *)
(* an order was placed for; one managed state stands for the four; timers  *)
(* count down in ticks.  Not modelled: the immediate order at entry,       *)
(* break-even stops, the static plan (its orders are in place), the        *)
(* reconciler's own cooldown (it may skip polls).                          *)
(***************************************************************************)
EXTENDS Integers, FiniteSets

CONSTANTS
  Tiers,           \* 1..n by rising profit threshold
  FullTiers,       \* the tiers that close the whole position
  MinProfit,       \* profit level from which a tier trails
  MaxDrawdown,     \* retracement that triggers it, in percent of the peak
  Top,             \* bound: highest profit level
  Crews,           \* the goroutines that may run: sets of monitor, reconciler, opener
  Ids,             \* order ids; when all are in use the exchange refuses
  ArmCooldown,     \* the 300 s after an arming, in ticks
  BreakerLimit,    \* failures in a row that trip the breaker
  BreakerCooldown, \* the 30 minutes of a tripped breaker, in ticks
  MaxFaults        \* bound: failing calls, lost orders, phantoms, restarts

ASSUME TiersAssumption ==
  /\ Tiers # {} /\ IsFiniteSet(Tiers) /\ Tiers \subseteq Nat \ {0}
  /\ FullTiers \subseteq Tiers
  /\ MinProfit \in [Tiers -> 1..Top] /\ MaxDrawdown \in [Tiers -> Nat]

ASSUME BoundsAssumption ==
  /\ Crews \subseteq SUBSET {"monitor", "reconciler", "opener"}
  /\ Ids \subseteq Nat \ {0}
  /\ {ArmCooldown, BreakerLimit, BreakerCooldown} \subseteq Nat \ {0}
  /\ Top \in Nat /\ MaxFaults \in Nat

VARIABLES
  pnl, peak, \* profit now, and the highest the monitor has polled
  orders,    \* live orders: [id, tier, anchored, st]; anchored: with activation price
  rec,       \* the tier's newest armed record: [id, deliberate], id 0 for none
  arm, obs,  \* the two dimensions of the position's protection state
  fails, trip, \* breaker: failures in a row, ticks until it allows a retry
  cool,      \* ticks until a tier may be armed again
  act,       \* what each goroutine is doing
  faults,    \* faults that may still happen
  late       \* placements of a tier since its breaker tripped

Actors == DOMAIN act

memory == <<arm, obs, fails, trip, cool>>
vars == <<pnl, peak, orders, rec, memory, act, faults, late>>

Arming == {"fullArming", "partArming"}
Armed == {"fullArmed", "partArmed"}
Native == Arming \cup Armed

ArmStates == {"none", "managed"} \cup Native
ObsStates == {"none", "verified", "failed"}

Idle == [pc |-> "idle", todo |-> {}, tier |-> 0, saw |-> "none", prev |-> "none",
         pnl |-> 0, new |-> 0, old |-> 0, count |-> 0, trigger |-> FALSE, cut |-> {}]

TypeOK ==
  /\ pnl \in 0..Top /\ peak \in 0..Top
  /\ orders \subseteq [id : Ids, tier : Tiers, anchored : BOOLEAN,
                       st : {"resting", "phantom", "active"}]
  /\ \A o, p \in orders : o.id = p.id => o = p
  /\ rec \in [Tiers -> [id : Ids \cup {0}, deliberate : BOOLEAN]]
  /\ arm \in ArmStates /\ obs \in ObsStates
  /\ fails \in [Tiers -> 0..BreakerLimit]
  /\ trip \in [Tiers -> 0..BreakerCooldown]
  /\ cool \in [Tiers -> 0..ArmCooldown]
  /\ faults \in 0..MaxFaults
  /\ Actors \in Crews
  /\ \A a \in Actors :
       /\ act[a].pc \in {"idle", "check", "cut", "danger", "select", "next", "look",
                         "claim", "place", "confirm", "account"}
       /\ act[a].todo \subseteq Tiers
       /\ act[a].pc \in {"look", "claim", "place", "confirm"} => act[a].tier \in Tiers
       /\ act[a].pc = "confirm" => act[a].new \in Ids

\* The opener begins with every tier to arm and does not know the mark price.
Init ==
  /\ pnl = 0 /\ peak = 0
  /\ orders = {}
  /\ rec = [t \in Tiers |-> [id |-> 0, deliberate |-> FALSE]]
  /\ arm = "none" /\ obs = "none"
  /\ fails = [t \in Tiers |-> 0]
  /\ trip = [t \in Tiers |-> 0]
  /\ cool = [t \in Tiers |-> 0]
  /\ \E crew \in Crews :
       act = [a \in crew |-> IF a = "opener"
                               THEN [Idle EXCEPT !.pc = "next", !.todo = Tiers, !.pnl = -1]
                               ELSE Idle]
  /\ faults = MaxFaults
  /\ late = [t \in Tiers |-> 0]

-----------------------------------------------------------------------------
(* The exchange and the clock *)

Fault == faults > 0 /\ faults' = faults - 1

\* A call: it works, or a fault is spent.
Call(ok) == IF ok THEN UNCHANGED faults ELSE Fault

\* The price moves; a resting order whose price is reached trails from then on,
\* or stays pending for good: the venue's phantom.
Move ==
  /\ pnl' \in {pnl - 1, pnl + 1} \cap 0..Top
  /\ LET reached == {o \in orders : o.st = "resting" /\ MinProfit[o.tier] <= pnl'}
     IN \E phantoms \in SUBSET reached :
          /\ Call(phantoms = {})
          /\ orders' = (orders \ reached)
                         \cup {[o EXCEPT !.st = "phantom"] : o \in phantoms}
                         \cup {[o EXCEPT !.st = "active"] : o \in reached \ phantoms}
  /\ UNCHANGED <<peak, rec, memory, act, late>>

\* The user or the venue cancels an order.
Lose ==
  /\ Fault
  /\ \E o \in orders : orders' = orders \ {o}
  /\ UNCHANGED <<pnl, peak, rec, memory, act, late>>

Down(timer) == [t \in Tiers |-> IF timer[t] > 0 THEN timer[t] - 1 ELSE 0]

\* A tick is minutes, a pass seconds: timers run out between two passes.
Tick ==
  /\ \A a \in Actors \ {"opener"} : act[a].pc = "idle"
  /\ \E t \in Tiers : cool[t] > 0 \/ trip[t] > 0
  /\ cool' = Down(cool) /\ trip' = Down(trip)
  /\ UNCHANGED <<pnl, peak, orders, rec, arm, obs, fails, act, faults, late>>

\* Orders, records and the peak survive; the opener does not run again.
Restart ==
  /\ Fault
  /\ arm' = "none" /\ obs' = "none"
  /\ fails' = [t \in Tiers |-> 0] /\ trip' = fails' /\ cool' = fails' /\ late' = fails'
  /\ act' = [a \in Actors |-> Idle]
  /\ UNCHANGED <<pnl, peak, orders, rec>>

-----------------------------------------------------------------------------
(* The position's state, the ledger and the breaker *)

\* getProtectionState: the arm dimension wins.
Derived == IF arm # "none" THEN arm ELSE obs

ArmingOf(t) == IF t \in FullTiers THEN "fullArming" ELSE "partArming"
ArmedOf(t) == IF t \in FullTiers THEN "fullArmed" ELSE "partArmed"

Live(id) == \E o \in orders : o.id = id

Claimed == {rec[t].id : t \in Tiers} \ {0}
\* Mutant: siblings' claims are not consulted.
NoneClaimed(t) == {}

ClaimedByOthers(t) == {rec[u].id : u \in Tiers \ {t}} \ {0}
Deliberate == {rec[t].id : t \in {u \in Tiers : rec[u].deliberate}} \ {0}

\* The tier's order: the recorded one, or one of its shape nobody else claims.
Matches(t) == IF rec[t].id # 0
                THEN {o \in orders : o.id = rec[t].id}
                ELSE {o \in orders : o.tier = t /\ o.id \notin ClaimedByOthers(t)}

\* Mutant: the breaker latches for good.
NeverExpired(t) == fails[t]

\* expireReArmBreaker: after the cooldown one attempt is allowed.
Expired(t) == IF fails[t] >= BreakerLimit /\ trip[t] = 0 THEN BreakerLimit - 1 ELSE fails[t]

Tripped(t) == Expired(t) >= BreakerLimit

\* Mutant: a caller that does not ask the breaker.
NotTripped(t) == FALSE

Barred(t) == Tripped(t)

-----------------------------------------------------------------------------
(* Arming one tier *)

Lowest(S) == CHOOSE t \in S : \A u \in S : t <= u

Done(a) == act' = [act EXCEPT ![a] = [Idle EXCEPT !.pc = "next", !.todo = act[a].todo,
                                        !.pnl = act[a].pnl, !.trigger = act[a].trigger]]

Goto(a, pc) == act' = [act EXCEPT ![a].pc = pc]

\* getDrawdownArmRulesForSelectedRule for every tier: a recorded tier whose
\* order is live is left alone; an unreadable order list looks like an empty one.
Select(a) ==
  /\ act[a].pc = "select"
  /\ \E ok \in BOOLEAN :
       /\ Call(ok)
       /\ act' = [act EXCEPT ![a].pc = "next",
                    ![a].todo = {t \in Tiers : /\ cool[t] = 0
                                                 /\ ~(ok /\ rec[t].id # 0 /\ Live(rec[t].id))}]
  /\ UNCHANGED <<pnl, peak, orders, rec, memory, late>>

Begin(a) ==
  /\ act[a].pc = "next" /\ act[a].todo # {}
  /\ LET t == Lowest(act[a].todo)
         rest == [act[a] EXCEPT !.todo = @ \ {t}]
     IN /\ fails' = [fails EXCEPT ![t] = Expired(t)]
        /\ act' = [act EXCEPT ![a] =
             IF Barred(t) \/ Derived \in Arming THEN rest
             ELSE [rest EXCEPT !.tier = t, !.saw = Derived,
                               !.pc = IF Derived \in Armed THEN "look" ELSE "claim"]]
  /\ UNCHANGED <<pnl, peak, orders, rec, arm, obs, trip, cool, faults, late>>

\* Something is armed already: is it this tier?  A partial tier's order that
\* stays pending above its price is cancelled to be placed without one.
Look(a) ==
  LET t == act[a].tier
      present == Matches(t)
      Stuck(o) == t \notin FullTiers /\ o.st # "active" /\ act[a].pnl >= MinProfit[t]
  IN /\ act[a].pc = "look"
     /\ \/ Fault /\ Goto(a, "claim") /\ UNCHANGED orders
        \/ present = {} /\ Goto(a, "claim") /\ UNCHANGED <<orders, faults>>
        \/ \E o \in present :
             \/ ~Stuck(o) /\ Done(a) /\ UNCHANGED <<orders, faults>>
             \/ Stuck(o) /\ orders' = orders \ {o} /\ Goto(a, "claim") /\ UNCHANGED faults
             \/ Stuck(o) /\ Fault /\ Done(a) /\ UNCHANGED orders
     /\ UNCHANGED <<pnl, peak, rec, memory, late>>

\* claimProtectionArmingState succeeds.
Unchanged(a) == Derived \notin Arming /\ Derived = act[a].saw

Claim(a) ==
  /\ act[a].pc = "claim"
  /\ IF Unchanged(a)
       THEN /\ arm' = ArmingOf(act[a].tier)
            /\ act' = [act EXCEPT ![a].pc = "place", ![a].prev = arm]
       ELSE Done(a) /\ UNCHANGED arm
  /\ UNCHANGED <<pnl, peak, orders, rec, obs, fails, trip, cool, faults, late>>

\* rollbackProtectionArmingState
Rollback(a) == arm' = IF arm = ArmingOf(act[a].tier) THEN act[a].prev ELSE arm

\* What is left when a full tier replaces the partial ones: the orders that
\* other tiers' records claim.
Collapsed(a) ==
  IF act[a].tier \in FullTiers /\ act[a].saw = "partArmed"
    THEN {o \in orders : o.id \in ClaimedByOthers(act[a].tier)}
    ELSE orders

\* The order a partial tier will replace: its own, or the nearest unclaimed one.
Replaced(a) ==
  LET t == act[a].tier
      free == {o \in orders : o.id \notin ClaimedByOthers(t)}
      own == {o \in free : o.tier = t}
  IN IF t \in FullTiers THEN {}
     ELSE IF Matches(t) # {} THEN Matches(t)
     ELSE IF own # {} THEN own ELSE free

FreeIds == Ids \ ({o.id : o \in orders} \cup Claimed \cup {act[a].old : a \in Actors})

\* An order without activation price trails at once; one whose price is
\* already passed may do so or stay pending.
Outcomes(anchored, t) ==
  IF ~anchored THEN {"active"}
  ELSE IF pnl < MinProfit[t] THEN {"resting"} ELSE {"active", "phantom"}

Refused(a) ==
  /\ act[a].pc = "place"
  /\ \/ Fault /\ orders' \in {orders, Collapsed(a)}
     \/ FreeIds = {} /\ orders' = Collapsed(a) /\ UNCHANGED faults
  /\ Rollback(a) /\ Done(a)
  /\ UNCHANGED <<pnl, peak, rec, obs, fails, trip, cool, late>>

Placed(a) ==
  LET t == act[a].tier
      anchored == act[a].pnl < MinProfit[t]
  IN /\ act[a].pc = "place" /\ FreeIds # {}
     /\ \E ok \in BOOLEAN, st \in Outcomes(anchored, t) :
          LET kept == IF ok THEN Collapsed(a) ELSE orders
              old == IF ok THEN Replaced(a) ELSE {}
              id == Lowest(FreeIds)
          IN /\ Call(ok)
             /\ orders' = kept \cup {[id |-> id, tier |-> t, anchored |-> anchored, st |-> st]}
             /\ \E o \in IF old = {} THEN {0} ELSE {p.id : p \in old} :
                  act' = [act EXCEPT ![a].pc = "confirm", ![a].new = id, ![a].old = o,
                            ![a].count = IF ok /\ t \notin FullTiers THEN Cardinality(orders) ELSE 0]
     /\ late' = [late EXCEPT ![t] = IF Tripped(t) THEN @ + 1 ELSE 0]
     /\ UNCHANGED <<pnl, peak, rec, memory>>

\* The order is there: state, record and cooldown are written.  A partial tier
\* looks for it first, and then cancels the order it replaces.
Seen(a) == LET t == act[a].tier
           IN \/ t \in FullTiers
              \/ \E o \in orders : o.tier = t /\ o.id # act[a].old
              \/ Cardinality(orders) > act[a].count

Confirm(a) ==
  LET t == act[a].tier
  IN /\ act[a].pc = "confirm" /\ Seen(a)
     /\ \E ok \in BOOLEAN :
          /\ Call(ok)
          /\ orders' = IF ok THEN {o \in orders : o.id # act[a].old} ELSE orders
     /\ arm' = ArmedOf(t)
     /\ rec' = [rec EXCEPT ![t] = [id |-> act[a].new, deliberate |-> act[a].pnl >= MinProfit[t]]]
     /\ cool' = [cool EXCEPT ![t] = ArmCooldown]
     /\ Done(a)
     /\ UNCHANGED <<pnl, peak, obs, fails, trip, late>>

\* The placed order is not seen: it stays, unrecorded.
Unseen(a) ==
  /\ act[a].pc = "confirm" /\ act[a].tier \notin FullTiers
  /\ Call(~Seen(a))
  /\ Rollback(a) /\ Done(a)
  /\ UNCHANGED <<pnl, peak, orders, rec, obs, fails, trip, cool, late>>

Arm(a) == \/ Select(a) \/ Begin(a) \/ Look(a) \/ Claim(a)
          \/ Refused(a) \/ Placed(a) \/ Confirm(a) \/ Unseen(a)

-----------------------------------------------------------------------------
(* The drawdown monitor *)

Floor == MinProfit[Lowest(Tiers)]

Poll ==
  LET a == "monitor"
  IN /\ a \in Actors /\ act[a].pc = "idle"
     /\ peak' = IF pnl > peak THEN pnl ELSE peak
     /\ act' = [act EXCEPT ![a].pc = "danger", ![a].pnl = pnl]
     /\ UNCHANGED <<pnl, orders, rec, memory, faults, late>>

\* An order that trails without an activation price, below the lowest profit
\* threshold, would close at a loss, unless it is recorded as placed so.
Dangerous(o) ==
  /\ o.st = "active" /\ ~o.anchored
  /\ act["monitor"].pnl < Floor
  /\ o.id \notin Deliberate

CancelDangerous ==
  LET a == "monitor"
  IN /\ a \in Actors /\ act[a].pc = "danger"
     /\ \E ok \in BOOLEAN :
          /\ Call(ok)
          /\ orders' = IF ok THEN {o \in orders : ~Dangerous(o)} ELSE orders
     /\ Goto(a, "select")
     /\ UNCHANGED <<pnl, peak, rec, memory, late>>

AllDone(a) == act[a].pc = "next" /\ act[a].todo = {}

ToAccount ==
  LET a == "monitor"
  IN /\ a \in Actors /\ AllDone(a)
     /\ Goto(a, "account")
     /\ UNCHANGED <<pnl, peak, orders, rec, memory, faults, late>>

\* The tier's order trails: only then the exchange covers a satisfied tier.
Effective(t) == \E o \in Matches(t) : o.st = "active"

\* accountReArmBreaker, over the tiers whose profit is reached.
Account ==
  LET a == "monitor"
      satisfied == {t \in Tiers : MinProfit[t] <= act[a].pnl}
      judged == {t \in satisfied : ~Tripped(t)}
      after == [t \in Tiers |-> IF t \in judged
                                  THEN IF Effective(t) THEN 0 ELSE Expired(t) + 1
                                  ELSE fails[t]]
      new == {t \in judged : after[t] >= BreakerLimit}
  IN /\ a \in Actors /\ act[a].pc = "account"
     /\ \/ Fault /\ UNCHANGED <<fails, trip, arm, late>>
        \/ /\ fails' = after
           /\ trip' = [t \in Tiers |-> IF t \in new THEN BreakerCooldown
                                       ELSE IF t \in judged THEN 0 ELSE trip[t]]
           /\ arm' \in IF new = {} THEN {arm}
                       ELSE IF new \cap FullTiers # {} THEN {"managed"} ELSE {arm, "managed"}
           /\ late' = [t \in Tiers |-> IF t \in new THEN 0 ELSE late[t]]
           /\ UNCHANGED faults
     /\ act' = [act EXCEPT ![a] = Idle]
     /\ UNCHANGED <<pnl, peak, orders, rec, obs, cool>>

-----------------------------------------------------------------------------
(* The reconciler *)

\* It reads the state before it asks the exchange for the orders.
ReconcilePoll ==
  LET a == "reconciler"
  IN /\ a \in Actors /\ act[a].pc = "idle"
     /\ act' = [act EXCEPT ![a].pc = "check", ![a].saw = Derived, ![a].pnl = pnl]
     /\ UNCHANGED <<pnl, peak, orders, rec, memory, faults, late>>

\* An armed state without a record is taken for another position's and cleared.
Orphaned(a) == act[a].saw \in Native /\ Claimed = {}

\* Lost memory: the ledger owns a live order, so the position was armed.
Rehydrated(a) == act[a].saw \notin Native \cup {"managed"} /\ \E t \in Tiers : Live(rec[t].id)

RehydratedState == IF \E t \in FullTiers : Live(rec[t].id) THEN "fullArmed" ELSE "partArmed"

\* Mutant: the order of a tier without a record is expected.
OnlyDuplicates(a) == {o \in orders : o.id \notin Claimed /\ rec[o.tier].id # 0}

\* Orders nobody claims; all of them when the position is not armed.
Unexpected(a) ==
  LET armed == (act[a].saw \in Native /\ ~Orphaned(a)) \/ Rehydrated(a)
  IN IF armed THEN {o \in orders : o.id \notin Claimed} ELSE orders

\* An unexpected order of a tier becomes the tier's recorded order; a second
\* one of the same tier is a stale duplicate and will be cancelled.
Check ==
  LET a == "reconciler"
      extra == Unexpected(a)
      found == {o.tier : o \in extra}
  IN /\ a \in Actors /\ act[a].pc = "check"
     /\ arm' = IF Orphaned(a) THEN "none" ELSE IF Rehydrated(a) THEN RehydratedState ELSE arm
     /\ obs' = IF Orphaned(a) THEN "none" ELSE obs
     /\ \E own \in [found -> extra] :
          /\ \A t \in found : own[t].tier = t
          /\ rec' = [t \in Tiers |-> IF t \in found THEN [id |-> own[t].id, deliberate |-> FALSE]
                                     ELSE rec[t]]
          /\ act' = [act EXCEPT
                ![a].pc = IF extra = {} THEN "select" ELSE "cut",
                ![a].saw = "none",
                ![a].cut = {o.id : o \in extra \ {own[t] : t \in found}}]
     /\ fails' = [t \in Tiers |-> IF t \in found THEN 0 ELSE fails[t]]
     /\ trip' = [t \in Tiers |-> IF t \in found THEN 0 ELSE trip[t]]
     /\ UNCHANGED <<pnl, peak, orders, cool, faults, late>>

\* A pass ends; verified says that the exchange has what the plan asks for.
EndPass(o) ==
  /\ obs' = o
  /\ act' = [act EXCEPT !["reconciler"] = Idle]

\* The exchange does not answer.
CheckFails ==
  /\ "reconciler" \in Actors /\ act["reconciler"].pc = "check"
  /\ Fault /\ EndPass("failed")
  /\ UNCHANGED <<pnl, peak, orders, rec, arm, fails, trip, cool, late>>

CutDuplicates ==
  LET a == "reconciler"
  IN /\ a \in Actors /\ act[a].pc = "cut"
     /\ \/ orders' = {o \in orders : o.id \notin act[a].cut} /\ EndPass("verified") /\ UNCHANGED faults
        \/ act[a].cut # {} /\ Fault /\ UNCHANGED orders /\ EndPass("failed")
     /\ UNCHANGED <<pnl, peak, rec, arm, fails, trip, cool, late>>

\* The reconciler measures the retracement against the peak profit, and arms
\* what it finds triggered whatever the cooldown and the live orders say.
TriggeredTiers(a) ==
  LET high == IF peak > act[a].pnl THEN peak ELSE act[a].pnl
  IN {t \in Tiers : /\ MinProfit[t] <= act[a].pnl
                    /\ (high - act[a].pnl) * 100 >= MaxDrawdown[t] * high}

ArmTriggered ==
  LET a == "reconciler"
  IN /\ a \in Actors /\ AllDone(a) /\ ~act[a].trigger
     /\ act' = [act EXCEPT ![a].todo = TriggeredTiers(a), ![a].trigger = TRUE]
     /\ UNCHANGED <<pnl, peak, orders, rec, memory, faults, late>>

EndReconcile ==
  /\ "reconciler" \in Actors /\ AllDone("reconciler") /\ act["reconciler"].trigger
  /\ \E o \in {obs, "verified"} : EndPass(o)
  /\ UNCHANGED <<pnl, peak, orders, rec, arm, fails, trip, cool, faults, late>>

-----------------------------------------------------------------------------

MonitorStep == Poll \/ CancelDangerous \/ ToAccount \/ Account

ReconcilerStep ==
  \/ ReconcilePoll \/ Check \/ CheckFails \/ CutDuplicates \/ ArmTriggered \/ EndReconcile

Goroutine(a) ==
  \/ Arm(a)
  \/ a = "monitor" /\ MonitorStep
  \/ a = "reconciler" /\ ReconcilerStep

Next ==
  \/ Move \/ Lose \/ Tick \/ Restart
  \/ \E a \in Actors : Arm(a)
  \/ MonitorStep
  \/ ReconcilerStep

\* Tickers and calls return in the end, and time passes.
Fairness ==
  /\ SF_vars(Tick)
  /\ \A a \in UNION Crews : WF_vars(a \in Actors /\ Goroutine(a))

Spec == Init /\ [][Next]_vars /\ Fairness

-----------------------------------------------------------------------------
(* Properties *)

\* Arming a tier never takes the order another tier's record claims off the
\* exchange: not by collapsing the old tiers, not by replacing an order.
SiblingKept ==
  \A a \in Actors :
    act[a].pc \in {"look", "place", "confirm"} /\ act'[a] # act[a] /\ act'[a].pc # "idle"
      => \A o \in orders : (\A p \in orders' : p.id # o.id)
                             => \A t \in Tiers : rec[t].id = o.id => t = act[a].tier

SiblingsKept == [][SiblingKept]_vars

\* After a breaker trips, each other goroutine makes at most the placement it
\* was at; the monitor, which trips it, makes none.
TrippedTierRests == \A t \in Tiers : late[t] <= Cardinality(Actors \ {"monitor"})

\* Whatever was lost, the breaker included, every tier has an order again.
MissingTierComesBack == \A t \in Tiers : []<>(\E o \in orders : o.tier = t)

\* A tier with orders but no record of a live one (the restart between placing
\* and recording, an order the verification did not see) does not stay so: the
\* reconciler adopts one.
OrphansAreAdopted ==
  "reconciler" \in Actors => []<>(\A o \in orders : Live(rec[o.tier].id))

\* A tier is placed only when it is missing: it never has two live orders.
NoStackedOrders == \A o, p \in orders : o.tier = p.tier => o = p
=============================================================================
