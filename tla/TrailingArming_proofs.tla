----------------------- MODULE TrailingArming_proofs -----------------------
(***************************************************************************)
(* Theorems about TrailingArming, for any tiers, prices, timers and faults *)
(***************************************************************************)
EXTENDS TrailingArming, FiniteSetTheorems, WellFoundedInduction, TLAPS

-----------------------------------------------------------------------------
(* Types *)

\* A set of numbers has a lowest one.
LEMMA LowestIn ==
  ASSUME NEW S, S \subseteq Nat, S # {}
  PROVE  Lowest(S) \in S
<1>1. PICK t \in S : \A u \in S : ~(<<u, t>> \in OpToRel(<, Nat))
  BY NatLessThanWellFounded, WFMin
<1>2. \A u \in S : ~(u < t)
  BY <1>1 DEF OpToRel
<1>3. \A u \in S : t <= u
  BY <1>2
<1> QED BY <1>3 DEF Lowest

Places == {"idle", "check", "cut", "danger", "select", "next", "look", "claim", "place",
           "confirm", "account"}

\* What a goroutine may be doing.
Acting(x) ==
  /\ x \in [pc : Places, todo : SUBSET Tiers, tier : Tiers \cup {0},
            saw : ArmStates \cup ObsStates, prev : ArmStates, pnl : Int,
            new : Ids \cup {0}, old : Ids \cup {0}, count : {x.count}, trigger : BOOLEAN,
            cut : SUBSET Ids]
  /\ x.pc \in {"look", "claim", "place", "confirm"} => x.tier \in Tiers
  /\ x.pc = "confirm" => x.new \in Ids

Order == [id : Ids, tier : Tiers, anchored : BOOLEAN, st : {"resting", "phantom", "active"}]

TypeInv == TypeOK /\ (\A a \in Actors : Acting(act[a])) /\ late \in [Tiers -> Nat]

\* A goroutine that rests.
LEMMA IdleActs == Acting(Idle)
BY DEF Acting, Idle, Places, ArmStates, ObsStates

\* A step of one goroutine is no step of another.
Only(a) == DOMAIN act' = DOMAIN act /\ \A b \in Actors \ {a} : act'[b] = act[b]

\* The goroutine arms one tier after the other, and comes back to the next.
LEMMA DoneActs ==
  ASSUME NEW a \in Actors, Acting(act[a]), Done(a)
  PROVE  Only(a) /\ Acting(act'[a]) /\ act'[a].pc = "next" /\ act'[a].tier = 0
<1> DEFINE x == [Idle EXCEPT !.pc = "next", !.todo = act[a].todo, !.pnl = act[a].pnl,
                           !.trigger = act[a].trigger]
<1>1. Only(a) /\ act'[a] = x
  BY DEF Done, Only, Actors
<1>2. x.pc = "next" /\ x.tier = 0
  BY DEF Idle
<1>3. act[a].todo \in SUBSET Tiers /\ act[a].pnl \in Int /\ act[a].trigger \in BOOLEAN
  BY DEF Acting
<1>4. x \in [pc : Places, todo : SUBSET Tiers, tier : Tiers \cup {0},
             saw : ArmStates \cup ObsStates, prev : ArmStates, pnl : Int,
             new : Ids \cup {0}, old : Ids \cup {0}, count : {Idle.count}, trigger : BOOLEAN,
             cut : SUBSET Ids]
  BY <1>3, IdleActs DEF Acting, Places
<1>5. Acting(x)
  <2> HIDE DEF x
  <2> QED BY <1>2, <1>4 DEF Acting
<1> QED BY <1>1, <1>2, <1>5

\* It goes on with the same tier.
LEMMA GotoActs ==
  ASSUME NEW a \in Actors, Acting(act[a]), NEW p \in Places, Goto(a, p)
  PROVE  /\ Only(a) /\ act'[a] = [act[a] EXCEPT !.pc = p]
         /\ act'[a].pc = p /\ act'[a].tier = act[a].tier /\ act'[a].new = act[a].new
         /\ act'[a].old = act[a].old
         /\ (p \in {"look", "claim", "place", "confirm"} => act[a].tier \in Tiers)
              /\ (p = "confirm" => act[a].new \in Ids) => Acting(act'[a])
<1>1. Only(a) /\ act'[a] = [act[a] EXCEPT !.pc = p]
  BY DEF Goto, Only, Actors
<1> QED BY <1>1 DEF Acting

\* Selecting the tiers to arm.
LEMMA SelectActs ==
  ASSUME NEW a \in Actors, Acting(act[a]), Select(a)
  PROVE  Only(a) /\ Acting(act'[a]) /\ act'[a].pc = "next"
<1>1. PICK S \in SUBSET Tiers : act' = [act EXCEPT ![a].pc = "next", ![a].todo = S]
  <2>1. PICK ok \in BOOLEAN :
          act' = [act EXCEPT ![a].pc = "next",
                    ![a].todo = {t \in Tiers : /\ cool[t] = 0
                                               /\ ~(ok /\ rec[t].id # 0 /\ Live(rec[t].id))}]
    BY DEF Select
  <2> QED BY <2>1
<1>2. Only(a) /\ act'[a] = [act[a] EXCEPT !.pc = "next", !.todo = S]
  BY <1>1 DEF Only, Actors
<1> QED BY <1>2 DEF Acting, Places

OrdersOK == orders \subseteq Order /\ \A o, p \in orders : o.id = p.id => o = p

RestOK ==
  /\ rec \in [Tiers -> [id : Ids \cup {0}, deliberate : BOOLEAN]]
  /\ arm \in ArmStates /\ obs \in ObsStates
  /\ fails \in [Tiers -> 0..BreakerLimit]
  /\ trip \in [Tiers -> 0..BreakerCooldown]
  /\ cool \in [Tiers -> 0..ArmCooldown]
  /\ faults \in 0..MaxFaults
  /\ late \in [Tiers -> Nat]

ActsOK == Actors \in Crews /\ \A a \in Actors : Acting(act[a])

\* The types, part by part.
LEMMA Parts == TypeInv <=> pnl \in 0..Top /\ peak \in 0..Top /\ OrdersOK /\ RestOK /\ ActsOK
<1>1. TypeInv => pnl \in 0..Top /\ peak \in 0..Top /\ OrdersOK /\ RestOK /\ ActsOK
  BY DEF TypeInv, TypeOK, OrdersOK, RestOK, ActsOK, Order
<1>2. ASSUME pnl \in 0..Top /\ peak \in 0..Top /\ OrdersOK /\ RestOK /\ ActsOK PROVE TypeInv
  <2>1. \A a \in Actors : /\ act[a].pc \in Places /\ act[a].todo \subseteq Tiers
                          /\ act[a].pc \in {"look", "claim", "place", "confirm"} => act[a].tier \in Tiers
                          /\ act[a].pc = "confirm" => act[a].new \in Ids
    BY <1>2 DEF ActsOK, Acting
  <2> QED BY <1>2, <2>1 DEF TypeInv, TypeOK, OrdersOK, RestOK, ActsOK, Order, Places
<1> QED BY <1>1, <1>2

\* The same, of the state a step leads to.
LEMMA PartsNext ==
  pnl' \in 0..Top /\ peak' \in 0..Top /\ OrdersOK' /\ RestOK' /\ ActsOK' => TypeInv'
<1> SUFFICES ASSUME pnl' \in 0..Top, peak' \in 0..Top, OrdersOK', RestOK', ActsOK' PROVE TypeInv'
  OBVIOUS
<1>1. \A a \in Actors' : /\ act'[a].pc \in Places /\ act'[a].todo \subseteq Tiers
                         /\ act'[a].pc \in {"look", "claim", "place", "confirm"} => act'[a].tier \in Tiers
                         /\ act'[a].pc = "confirm" => act'[a].new \in Ids
  BY DEF ActsOK, Acting
<1> QED BY <1>1 DEF TypeInv, TypeOK, OrdersOK, RestOK, ActsOK, Order, Places

\* What one goroutine does leaves the others typed.
LEMMA OnlyTypes ==
  ASSUME ActsOK, NEW a \in Actors, Only(a), Acting(act'[a])
  PROVE  ActsOK' /\ Actors' = Actors
<1>1. Actors' = Actors
  BY DEF Only, Actors
<1>2. \A b \in Actors : Acting(act'[b])
  BY DEF Only, ActsOK
<1> QED BY <1>1, <1>2 DEF ActsOK

\* Orders are taken away.
LEMMA FewerOrders == ASSUME OrdersOK, orders' \subseteq orders PROVE OrdersOK'
BY DEF OrdersOK

\* A call that fails spends a fault.
LEMMA Faults ==
  ASSUME faults \in 0..MaxFaults, UNCHANGED faults \/ Fault \/ \E ok \in BOOLEAN : Call(ok)
  PROVE  faults' \in 0..MaxFaults
BY BoundsAssumption DEF Fault, Call

\* The breaker of a tier is allowed a retry after its cooldown.
LEMMA ExpiredIs ==
  ASSUME RestOK, NEW t \in Tiers
  PROVE  /\ Expired(t) \in 0..BreakerLimit /\ fails[t] \in 0..BreakerLimit
         /\ trip[t] \in 0..BreakerCooldown /\ BreakerLimit \in Nat \ {0} /\ BreakerCooldown \in Nat \ {0}
         /\ Tripped(t) <=> fails[t] = BreakerLimit /\ trip[t] # 0
         /\ ~Tripped(t) => Expired(t) < BreakerLimit
<1>1. fails[t] \in 0..BreakerLimit /\ trip[t] \in 0..BreakerCooldown
      /\ BreakerLimit \in Nat \ {0} /\ BreakerCooldown \in Nat \ {0}
  BY BoundsAssumption DEF RestOK
<1> QED BY <1>1 DEF Tripped, Expired

-----------------------------------------------------------------------------
(* What the steps of arming do *)

\* Taking up a tier: one whose breaker is not tripped.
LEMMA BeginActs ==
  ASSUME TypeInv, NEW a \in Actors, Begin(a)
  PROVE  /\ Only(a) /\ Acting(act'[a]) /\ act[a].pc = "next"
         /\ \E t \in Tiers :
              /\ fails' = [fails EXCEPT ![t] = Expired(t)]
              /\ \/ act'[a].pc = "next"
                 \/ act'[a].pc \in {"look", "claim"} /\ act'[a].tier = t /\ ~Barred(t)
<1> DEFINE t == Lowest(act[a].todo)
           rest == [act[a] EXCEPT !.todo = @ \ {t}]
           up == [rest EXCEPT !.tier = t, !.saw = Derived,
                              !.pc = IF Derived \in Armed THEN "look" ELSE "claim"]
<1>1. act[a].pc = "next" /\ act[a].todo # {} /\ Acting(act[a]) /\ ActsOK
  BY Parts DEF Begin, ActsOK
<1>2. t \in Tiers
  <2>1. act[a].todo \subseteq Tiers /\ Tiers \subseteq Nat
    BY <1>1, TiersAssumption DEF Acting
  <2> QED BY <1>1, <2>1, LowestIn
<1>3. fails' = [fails EXCEPT ![t] = Expired(t)]
      /\ act' = [act EXCEPT ![a] = IF Barred(t) \/ Derived \in Arming THEN rest ELSE up]
  BY DEF Begin
<1> HIDE DEF t
<1>4. Acting(rest) /\ rest.pc = "next"
  BY <1>1 DEF Acting
<1>5. Derived \in ArmStates \cup ObsStates
  BY Parts DEF RestOK, Derived
<1>6. Acting(up) /\ up.tier = t /\ up.pc \in {"look", "claim"}
  <2> HIDE DEF rest
  <2>1. CASE Derived \in Armed
    BY <1>2, <1>4, <1>5, <2>1 DEF Acting, Places
  <2>2. CASE Derived \notin Armed
    BY <1>2, <1>4, <1>5, <2>2 DEF Acting, Places
  <2> QED BY <2>1, <2>2
<1> HIDE DEF rest, up
<1>7. Only(a) /\ act'[a] = IF Barred(t) \/ Derived \in Arming THEN rest ELSE up
  BY <1>3 DEF Only, Actors
<1> QED BY <1>1, <1>2, <1>3, <1>4, <1>6, <1>7

\* Looking for a tier's order.
LEMMA LookActs ==
  ASSUME TypeInv, NEW a \in Actors, Look(a)
  PROVE  /\ Only(a) /\ Acting(act'[a]) /\ act[a].pc = "look"
         /\ act'[a].pc = "next" \/ (act'[a].pc = "claim" /\ act'[a].tier = act[a].tier)
         /\ orders' \subseteq orders
         /\ \A o \in orders \ orders' : o \in Matches(act[a].tier)
         /\ faults' \in 0..MaxFaults
<1>1. act[a].pc = "look" /\ Acting(act[a]) /\ act[a].tier \in Tiers /\ faults \in 0..MaxFaults
      /\ "claim" \in Places
  BY Parts DEF Look, ActsOK, Acting, RestOK, Places
<1>2. Done(a) \/ Goto(a, "claim")
  BY DEF Look
<1>3. /\ Only(a) /\ Acting(act'[a])
      /\ act'[a].pc = "next" \/ (act'[a].pc = "claim" /\ act'[a].tier = act[a].tier)
  BY <1>1, <1>2, DoneActs, GotoActs
<1>4. UNCHANGED faults \/ Fault
  BY DEF Look
<1>5. orders' = orders \/ \E o \in Matches(act[a].tier) : orders' = orders \ {o}
  BY DEF Look
<1> QED BY <1>1, <1>3, <1>4, <1>5, Faults

\* Claiming the position's state.
LEMMA ClaimActs ==
  ASSUME TypeInv, NEW a \in Actors, Claim(a)
  PROVE  /\ Only(a) /\ Acting(act'[a]) /\ act[a].pc = "claim"
         /\ act'[a].pc = "next" \/ (act'[a].pc = "place" /\ act'[a].tier = act[a].tier)
         /\ arm' \in ArmStates
<1>1. act[a].pc = "claim" /\ Acting(act[a]) /\ act[a].tier \in Tiers /\ arm \in ArmStates
  BY Parts DEF Claim, ActsOK, Acting, RestOK
<1>2. CASE Done(a) /\ UNCHANGED arm
  BY <1>1, <1>2, DoneActs
<1>3. CASE arm' = ArmingOf(act[a].tier) /\ act' = [act EXCEPT ![a].pc = "place", ![a].prev = arm]
  <2>1. Only(a) /\ act'[a] = [act[a] EXCEPT !.pc = "place", !.prev = arm]
    BY <1>3 DEF Only, Actors
  <2>2. Acting(act'[a]) /\ act'[a].pc = "place" /\ act'[a].tier = act[a].tier
    BY <1>1, <2>1 DEF Acting, Places
  <2>3. arm' \in ArmStates
    BY <1>3 DEF ArmingOf, ArmStates, Native, Arming
  <2> QED BY <1>1, <2>1, <2>2, <2>3
<1> QED BY <1>2, <1>3 DEF Claim

\* Giving the state back.
LEMMA RollbackType == ASSUME RestOK, NEW a, Acting(act[a]), Rollback(a) PROVE arm' \in ArmStates
BY DEF Rollback, RestOK, Acting

\* The order is refused.
LEMMA RefusedActs ==
  ASSUME TypeInv, NEW a \in Actors, Refused(a)
  PROVE  /\ Only(a) /\ Acting(act'[a]) /\ act[a].pc = "place" /\ act'[a].pc = "next"
         /\ orders' \in {orders, Collapsed(a)} /\ arm' \in ArmStates /\ faults' \in 0..MaxFaults
<1>1. act[a].pc = "place" /\ Acting(act[a]) /\ RestOK /\ Rollback(a) /\ Done(a)
      /\ orders' \in {orders, Collapsed(a)} /\ (UNCHANGED faults \/ Fault)
  BY Parts DEF Refused, ActsOK
<1>2. faults' \in 0..MaxFaults
  BY <1>1, Faults DEF RestOK
<1> QED BY <1>1, <1>2, DoneActs, RollbackType

\* The order is placed, and the one it will replace chosen.
LEMMA PlacedActs ==
  ASSUME TypeInv, NEW a \in Actors, Placed(a)
  PROVE  /\ Only(a) /\ Acting(act'[a]) /\ act[a].pc = "place" /\ act'[a].pc = "confirm"
         /\ act[a].tier \in Tiers /\ act'[a].tier = act[a].tier
         /\ act'[a].new \in FreeIds
         /\ act'[a].old = 0 \/ \E p \in Replaced(a) : act'[a].old = p.id
         /\ \E kept \in {orders, Collapsed(a)}, o \in Order :
              /\ o.id = act'[a].new /\ o.tier = act[a].tier
              /\ orders' = kept \cup {o}
         /\ late' = [late EXCEPT ![act[a].tier] = IF Tripped(act[a].tier) THEN @ + 1 ELSE 0]
         /\ faults' \in 0..MaxFaults
<1> DEFINE t == act[a].tier
           id == Lowest(FreeIds)
           anchored == act[a].pnl < MinProfit[t]
<1>1. act[a].pc = "place" /\ Acting(act[a]) /\ t \in Tiers /\ RestOK /\ OrdersOK
  BY Parts DEF Placed, ActsOK, Acting
<1>2. FreeIds # {} /\ FreeIds \subseteq Ids /\ Ids \subseteq Nat
  BY BoundsAssumption DEF Placed, FreeIds
<1>3. id \in FreeIds /\ id \in Ids
  BY <1>2, LowestIn
<1>4. anchored \in BOOLEAN
  OBVIOUS
<1>5. PICK ok \in BOOLEAN, st \in Outcomes(anchored, t) :
        LET kept == IF ok THEN Collapsed(a) ELSE orders
            old == IF ok THEN Replaced(a) ELSE {}
        IN /\ Call(ok)
           /\ orders' = kept \cup {[id |-> id, tier |-> t, anchored |-> anchored, st |-> st]}
           /\ \E o \in IF old = {} THEN {0} ELSE {p.id : p \in old} :
                act' = [act EXCEPT ![a].pc = "confirm", ![a].new = id, ![a].old = o,
                          ![a].count = IF ok /\ t \notin FullTiers THEN Cardinality(orders) ELSE 0]
  BY DEF Placed
<1>6. st \in {"resting", "phantom", "active"}
  BY DEF Outcomes
<1> DEFINE order == [id |-> id, tier |-> t, anchored |-> anchored, st |-> st]
           kept == IF ok THEN Collapsed(a) ELSE orders
<1> HIDE DEF id, anchored
<1>7. order \in Order /\ order.id = id /\ order.tier = t
  BY <1>1, <1>3, <1>4, <1>6 DEF Order
<1>8. kept \in {orders, Collapsed(a)} /\ orders' = kept \cup {order}
  BY <1>5
<1>9. PICK o : /\ o = 0 \/ \E p \in Replaced(a) : o = p.id
               /\ act' = [act EXCEPT ![a].pc = "confirm", ![a].new = id, ![a].old = o,
                          ![a].count = IF ok /\ t \notin FullTiers THEN Cardinality(orders) ELSE 0]
  BY <1>5
<1>10. Replaced(a) \subseteq orders
  BY DEF Replaced, Matches
<1>11. o \in Ids \cup {0}
  BY <1>1, <1>9, <1>10 DEF OrdersOK, Order
<1> DEFINE n == IF ok /\ t \notin FullTiers THEN Cardinality(orders) ELSE 0
           x == [act[a] EXCEPT !.pc = "confirm", !.new = id, !.old = o, !.count = n]
<1>12. Only(a) /\ act'[a] = x
  BY <1>9 DEF Only, Actors
<1> HIDE DEF n
<1>13. x.pc = "confirm" /\ x.new = id /\ x.old = o /\ x.tier = t /\ x.count = n
  BY <1>1 DEF Acting
<1>14. Acting(x)
  <2>1. x \in [pc : Places, todo : SUBSET Tiers, tier : Tiers \cup {0},
               saw : ArmStates \cup ObsStates, prev : ArmStates, pnl : Int,
               new : Ids \cup {0}, old : Ids \cup {0}, count : {n}, trigger : BOOLEAN,
               cut : SUBSET Ids]
    BY <1>1, <1>3, <1>11 DEF Acting, Places
  <2> HIDE DEF x
  <2> QED BY <1>1, <1>3, <1>13, <2>1 DEF Acting
<1>15. faults' \in 0..MaxFaults
  BY <1>1, <1>5, Faults DEF RestOK
<1>16. late' = [late EXCEPT ![t] = IF Tripped(t) THEN @ + 1 ELSE 0]
  BY DEF Placed
<1> HIDE DEF order, kept, x
<1> QED BY <1>1, <1>3, <1>7, <1>8, <1>9, <1>12, <1>13, <1>14, <1>15, <1>16

\* The order is recorded, and the one it replaces cancelled.
LEMMA ConfirmActs ==
  ASSUME TypeInv, NEW a \in Actors, Confirm(a)
  PROVE  /\ Only(a) /\ Acting(act'[a]) /\ act[a].pc = "confirm" /\ act'[a].pc = "next"
         /\ act[a].tier \in Tiers /\ act[a].new \in Ids
         /\ orders' \subseteq orders /\ \A o \in orders \ orders' : o.id = act[a].old
         /\ \E d \in BOOLEAN : rec' = [rec EXCEPT ![act[a].tier] = [id |-> act[a].new, deliberate |-> d]]
         /\ arm' \in ArmStates /\ cool' \in [Tiers -> 0..ArmCooldown] /\ faults' \in 0..MaxFaults
<1>1. act[a].pc = "confirm" /\ Acting(act[a]) /\ act[a].tier \in Tiers /\ act[a].new \in Ids
      /\ RestOK /\ Done(a)
  BY Parts DEF Confirm, ActsOK, Acting
<1>2. faults' \in 0..MaxFaults
  <2>1. \E ok \in BOOLEAN : Call(ok)
    BY DEF Confirm
  <2> QED BY <1>1, <2>1, Faults DEF RestOK
<1>3. orders' = orders \/ orders' = {o \in orders : o.id # act[a].old}
  BY DEF Confirm
<1>4. arm' \in ArmStates
  BY DEF Confirm, ArmedOf, ArmStates, Native, Armed
<1>5. cool' \in [Tiers -> 0..ArmCooldown]
  BY <1>1, BoundsAssumption DEF Confirm, RestOK
<1>6. \E d \in BOOLEAN : rec' = [rec EXCEPT ![act[a].tier] = [id |-> act[a].new, deliberate |-> d]]
  <2>1. (act[a].pnl >= MinProfit[act[a].tier]) \in BOOLEAN
    OBVIOUS
  <2> QED BY <2>1 DEF Confirm
<1> QED BY <1>1, <1>2, <1>3, <1>4, <1>5, <1>6, DoneActs

\* The order that was placed is not seen.
LEMMA UnseenActs ==
  ASSUME TypeInv, NEW a \in Actors, Unseen(a)
  PROVE  /\ Only(a) /\ Acting(act'[a]) /\ act[a].pc = "confirm" /\ act'[a].pc = "next"
         /\ arm' \in ArmStates /\ faults' \in 0..MaxFaults
<1>1. act[a].pc = "confirm" /\ Acting(act[a]) /\ RestOK /\ Rollback(a) /\ Done(a)
  BY Parts DEF Unseen, ActsOK
<1>2. faults' \in 0..MaxFaults
  <2>1. Call(Seen(a) = FALSE)
    BY DEF Unseen
  <2>2. \E ok \in BOOLEAN : Call(ok)
    BY <2>1
  <2> QED BY <1>1, <2>2, Faults DEF RestOK
<1> QED BY <1>1, <1>2, DoneActs, RollbackType

-----------------------------------------------------------------------------
(* What the monitor and the reconciler do *)

\* The steps of the monitor between which it arms.
LEMMA MonitorActs ==
  ASSUME TypeInv, Poll \/ CancelDangerous \/ ToAccount \/ Account
  PROVE  /\ "monitor" \in Actors /\ Only("monitor") /\ Acting(act'["monitor"])
         /\ act'["monitor"].pc \in {"danger", "select", "account", "idle"}
         /\ orders' \subseteq orders /\ peak' \in 0..Top /\ UNCHANGED <<pnl, rec, obs, cool>>
         /\ Account \/ UNCHANGED <<memory, late>>
         /\ faults' \in 0..MaxFaults
<1> DEFINE a == "monitor"
<1>1. a \in Actors /\ Acting(act[a]) /\ RestOK /\ pnl \in 0..Top /\ peak \in 0..Top
  BY Parts DEF Poll, CancelDangerous, ToAccount, Account, ActsOK
<1>2. CASE Poll
  <2>1. Only(a) /\ act'[a] = [act[a] EXCEPT !.pc = "danger", !.pnl = pnl]
    BY <1>1, <1>2 DEF Poll, Only, Actors
  <2>2. pnl \in Int
    BY <1>1
  <2>3. Acting(act'[a]) /\ act'[a].pc = "danger"
    BY <1>1, <2>1, <2>2 DEF Acting, Places
  <2>4. peak' \in 0..Top /\ UNCHANGED <<pnl, orders, rec, memory, faults, late>>
    BY <1>1, <1>2 DEF Poll
  <2> QED BY <1>1, <2>1, <2>3, <2>4 DEF RestOK, memory
<1>3. CASE CancelDangerous
  <2>1. Goto(a, "select") /\ "select" \in Places
    BY <1>3 DEF CancelDangerous, Places
  <2>2. Only(a) /\ Acting(act'[a]) /\ act'[a].pc = "select"
    BY <1>1, <2>1, GotoActs
  <2>3. orders' \subseteq orders /\ UNCHANGED <<pnl, peak, rec, memory, late>>
        /\ \E ok \in BOOLEAN : Call(ok)
    BY <1>3 DEF CancelDangerous
  <2> QED BY <1>1, <2>2, <2>3, Faults DEF RestOK, memory
<1>4. CASE ToAccount
  <2>1. Goto(a, "account") /\ "account" \in Places
    BY <1>4 DEF ToAccount, Places
  <2>2. Only(a) /\ Acting(act'[a]) /\ act'[a].pc = "account"
    BY <1>1, <2>1, GotoActs
  <2> QED BY <1>1, <1>4, <2>2 DEF ToAccount, RestOK, memory
<1>5. CASE Account
  <2>1. act' = [act EXCEPT ![a] = Idle]
    BY <1>5 DEF Account
  <2>2. Only(a) /\ act'[a] = Idle
    BY <1>1, <2>1 DEF Only, Actors
  <2>3. Idle.pc = "idle"
    BY DEF Idle
  <2>4. UNCHANGED <<pnl, peak, orders, rec, obs, cool>> /\ (UNCHANGED faults \/ Fault)
    BY <1>5 DEF Account
  <2> QED BY <1>1, <1>5, <2>2, <2>3, <2>4, IdleActs, Faults DEF RestOK
<1> QED BY <1>2, <1>3, <1>4, <1>5

\* The accounting trips the breaker of a tier whose order does not trail, and
\* resets the others it judges.
LEMMA AccountTrips ==
  ASSUME TypeInv, Account
  PROVE  /\ fails' \in [Tiers -> 0..BreakerLimit] /\ trip' \in [Tiers -> 0..BreakerCooldown]
         /\ arm' \in ArmStates /\ late' \in [Tiers -> Nat]
         /\ \A t \in Tiers : \/ late'[t] = 0
                             \/ late'[t] = late[t] /\ (Tripped(t)' => Tripped(t))
<1> DEFINE a == "monitor"
           satisfied == {t \in Tiers : MinProfit[t] <= act[a].pnl}
           judged == {t \in satisfied : ~Tripped(t)}
           after == [t \in Tiers |-> IF t \in judged
                                       THEN IF Effective(t) THEN 0 ELSE Expired(t) + 1
                                       ELSE fails[t]]
           new == {t \in judged : after[t] >= BreakerLimit}
<1>1. RestOK
  BY Parts
<1>2. CASE UNCHANGED <<fails, trip, arm, late>>
  BY <1>1, <1>2 DEF RestOK, Tripped, Expired
<1>3. CASE /\ fails' = after
           /\ trip' = [t \in Tiers |-> IF t \in new THEN BreakerCooldown
                                       ELSE IF t \in judged THEN 0 ELSE trip[t]]
           /\ arm' \in IF new = {} THEN {arm}
                       ELSE IF new \cap FullTiers # {} THEN {"managed"} ELSE {arm, "managed"}
           /\ late' = [t \in Tiers |-> IF t \in new THEN 0 ELSE late[t]]
  <2>1. arm' \in ArmStates
    BY <1>1, <1>3 DEF RestOK, ArmStates
  <2>2. ASSUME NEW t \in Tiers
        PROVE  /\ after[t] \in 0..BreakerLimit /\ trip'[t] \in 0..BreakerCooldown
               /\ late'[t] \in Nat
               /\ late'[t] = 0 \/ (late'[t] = late[t] /\ (Tripped(t)' => Tripped(t)))
    <3>0. late[t] \in Nat
      BY <1>1 DEF RestOK
    <3>1. CASE t \in judged
      <4>1. after[t] = (IF Effective(t) THEN 0 ELSE Expired(t) + 1) /\ ~Tripped(t)
        BY <3>1
      <4>2. after[t] \in 0..BreakerLimit
        BY <1>1, <4>1, ExpiredIs
      <4>3. CASE t \in new
        BY <1>1, <1>3, <4>2, <4>3, ExpiredIs
      <4>4. CASE t \notin new
        <5>1. trip'[t] = 0 /\ late'[t] = late[t] /\ fails'[t] = after[t] /\ after[t] < BreakerLimit
          BY <1>1, <1>3, <3>1, <4>2, <4>4, ExpiredIs
        <5>2. ~Tripped(t)'
          BY <1>1, <4>2, <5>1, ExpiredIs DEF Tripped, Expired
        <5> QED BY <1>1, <3>0, <4>2, <5>1, <5>2, ExpiredIs
      <4> QED BY <4>3, <4>4
    <3>2. CASE t \notin judged
      <4>1. after[t] = fails[t] /\ trip'[t] = trip[t] /\ late'[t] = late[t] /\ fails'[t] = fails[t]
        BY <1>3, <3>2
      <4>2. Tripped(t)' => Tripped(t)
        BY <4>1 DEF Tripped, Expired
      <4> QED BY <1>1, <3>0, <4>1, <4>2, ExpiredIs
    <3> QED BY <3>1, <3>2
  <2> QED BY <1>3, <2>1, <2>2
<1>4. (UNCHANGED <<fails, trip, arm, late>>) \/
      (/\ fails' = after
       /\ trip' = [t \in Tiers |-> IF t \in new THEN BreakerCooldown
                                   ELSE IF t \in judged THEN 0 ELSE trip[t]]
       /\ arm' \in IF new = {} THEN {arm}
                   ELSE IF new \cap FullTiers # {} THEN {"managed"} ELSE {arm, "managed"}
       /\ late' = [t \in Tiers |-> IF t \in new THEN 0 ELSE late[t]])
  BY DEF Account
<1> QED BY <1>2, <1>3, <1>4

\* The steps of the reconciler between which it arms, but for the check.
LEMMA ReconcilerActs ==
  ASSUME TypeInv, ReconcilePoll \/ CheckFails \/ CutDuplicates \/ ArmTriggered \/ EndReconcile
  PROVE  /\ "reconciler" \in Actors /\ Only("reconciler") /\ Acting(act'["reconciler"])
         /\ act'["reconciler"].pc \in {"check", "idle", "next"}
         /\ orders' \subseteq orders /\ obs' \in ObsStates
         /\ UNCHANGED <<pnl, peak, rec, arm, fails, trip, cool, late>>
         /\ faults' \in 0..MaxFaults
<1> DEFINE a == "reconciler"
<1>1. a \in Actors /\ Acting(act[a]) /\ RestOK /\ pnl \in 0..Top
  BY Parts DEF ReconcilePoll, CheckFails, CutDuplicates, ArmTriggered, EndReconcile, ActsOK
<1>2. CASE ReconcilePoll
  <2>1. Only(a) /\ act'[a] = [act[a] EXCEPT !.pc = "check", !.saw = Derived, !.pnl = pnl]
    BY <1>1, <1>2 DEF ReconcilePoll, Only, Actors
  <2>2. pnl \in Int /\ Derived \in ArmStates \cup ObsStates
    BY <1>1 DEF Derived, RestOK
  <2>3. Acting(act'[a]) /\ act'[a].pc = "check"
    BY <1>1, <2>1, <2>2 DEF Acting, Places
  <2> QED BY <1>1, <1>2, <2>1, <2>3 DEF ReconcilePoll, RestOK, memory
<1>3. ASSUME NEW o, EndPass(o)
      PROVE  Only(a) /\ Acting(act'[a]) /\ act'[a].pc = "idle" /\ obs' = o
  <2>1. Only(a) /\ act'[a] = Idle /\ obs' = o
    BY <1>1, <1>3 DEF EndPass, Only, Actors
  <2>2. Idle.pc = "idle"
    BY DEF Idle
  <2> QED BY <2>1, <2>2, IdleActs
<1>4. CASE CheckFails
  <2>1. EndPass("failed") /\ Fault /\ UNCHANGED <<pnl, peak, orders, rec, arm, fails, trip, cool, late>>
    BY <1>4 DEF CheckFails
  <2>2. "failed" \in ObsStates
    BY DEF ObsStates
  <2> QED BY <1>1, <1>3, <2>1, <2>2, Faults DEF RestOK
<1>5. CASE CutDuplicates
  <2>1. PICK o \in {"verified", "failed"} : EndPass(o)
    BY <1>5 DEF CutDuplicates
  <2>2. /\ orders' \subseteq orders /\ (UNCHANGED faults \/ Fault)
        /\ UNCHANGED <<pnl, peak, rec, arm, fails, trip, cool, late>>
    BY <1>5 DEF CutDuplicates
  <2>3. o \in ObsStates
    BY DEF ObsStates
  <2> QED BY <1>1, <1>3, <2>1, <2>2, <2>3, Faults DEF RestOK
<1>6. CASE ArmTriggered
  <2>1. /\ act' = [act EXCEPT ![a].todo = TriggeredTiers(a), ![a].trigger = TRUE]
        /\ act[a].pc = "next"
    BY <1>6 DEF ArmTriggered, AllDone
  <2> DEFINE S == TriggeredTiers(a)
             x == [act[a] EXCEPT !.todo = S, !.trigger = TRUE]
  <2>2. S \subseteq Tiers
    BY DEF TriggeredTiers
  <2> HIDE DEF S
  <2>3. Only(a) /\ act'[a] = x
    BY <1>1, <2>1 DEF Only, Actors, S
  <2>4. Acting(act'[a]) /\ act'[a].pc = "next"
    <3>1. x \in [pc : Places, todo : SUBSET Tiers, tier : Tiers \cup {0},
                 saw : ArmStates \cup ObsStates, prev : ArmStates, pnl : Int,
                 new : Ids \cup {0}, old : Ids \cup {0}, count : {act[a].count},
                 trigger : BOOLEAN, cut : SUBSET Ids]
      BY <1>1, <2>2 DEF Acting
    <3>2. x.pc = "next" /\ x.count = act[a].count
      BY <1>1, <2>1 DEF Acting
    <3> HIDE DEF x
    <3>3. Acting(x)
      BY <3>1, <3>2 DEF Acting
    <3> QED BY <2>3, <3>2, <3>3
  <2> QED BY <1>1, <1>6, <2>3, <2>4 DEF ArmTriggered, RestOK, memory
<1>7. CASE EndReconcile
  <2>1. PICK o \in {obs, "verified"} : EndPass(o)
    BY <1>7 DEF EndReconcile
  <2>2. o \in ObsStates
    BY <1>1 DEF RestOK, ObsStates
  <2> QED BY <1>1, <1>3, <1>7, <2>1, <2>2 DEF EndReconcile, RestOK
<1> QED BY <1>2, <1>4, <1>5, <1>6, <1>7

\* The reconciler's check: orders nobody claims become the records of their tiers.
LEMMA CheckActs ==
  ASSUME TypeInv, Check
  PROVE  /\ "reconciler" \in Actors /\ Only("reconciler") /\ Acting(act'["reconciler"])
         /\ act'["reconciler"].pc \in {"select", "cut"}
         /\ UNCHANGED <<pnl, peak, orders, cool, faults, late>>
         /\ arm' \in ArmStates /\ obs' \in ObsStates
         /\ rec' \in [Tiers -> [id : Ids \cup {0}, deliberate : BOOLEAN]]
         /\ LET extra == Unexpected("reconciler")
            IN \A t \in Tiers :
                 \/ /\ fails'[t] = 0 /\ trip'[t] = 0
                    /\ \E o \in extra : o.tier = t /\ rec'[t].id = o.id
                 \/ /\ fails'[t] = fails[t] /\ trip'[t] = trip[t] /\ rec'[t] = rec[t]
                    /\ \A o \in extra : o.tier # t
         /\ fails' \in [Tiers -> 0..BreakerLimit] /\ trip' \in [Tiers -> 0..BreakerCooldown]
<1> DEFINE a == "reconciler"
           extra == Unexpected(a)
           found == {o.tier : o \in extra}
<1>1. a \in Actors /\ Acting(act[a]) /\ RestOK /\ OrdersOK
  BY Parts DEF Check, ActsOK
<1>2. extra \subseteq orders
  BY DEF Unexpected
<1>3. PICK own \in [found -> extra] :
        /\ \A t \in found : own[t].tier = t
        /\ rec' = [t \in Tiers |-> IF t \in found THEN [id |-> own[t].id, deliberate |-> FALSE]
                                   ELSE rec[t]]
        /\ act' = [act EXCEPT ![a].pc = IF extra = {} THEN "select" ELSE "cut",
                              ![a].saw = "none",
                              ![a].cut = {o.id : o \in extra \ {own[t] : t \in found}}]
  BY DEF Check
<1>4. /\ fails' = [t \in Tiers |-> IF t \in found THEN 0 ELSE fails[t]]
      /\ trip' = [t \in Tiers |-> IF t \in found THEN 0 ELSE trip[t]]
      /\ UNCHANGED <<pnl, peak, orders, cool, faults, late>>
      /\ arm' = (IF Orphaned(a) THEN "none" ELSE IF Rehydrated(a) THEN RehydratedState ELSE arm)
      /\ obs' = (IF Orphaned(a) THEN "none" ELSE obs)
  BY DEF Check
<1> DEFINE p == IF extra = {} THEN "select" ELSE "cut"
           cut == {o.id : o \in extra \ {own[t] : t \in found}}
<1>5. cut \subseteq Ids /\ p \in {"select", "cut"}
  BY <1>1, <1>2 DEF OrdersOK, Order
<1>6. arm' \in ArmStates /\ obs' \in ObsStates
  BY <1>1, <1>4 DEF RestOK, RehydratedState, ArmStates, Native, Armed, ObsStates
<1>7. Only(a) /\ act'[a] = [act[a] EXCEPT !.pc = p, !.saw = "none", !.cut = cut]
  BY <1>1, <1>3 DEF Only, Actors
<1> HIDE DEF p, cut, extra
<1>8. Acting(act'[a]) /\ act'[a].pc = p
  BY <1>1, <1>5, <1>7 DEF Acting, Places, ArmStates
<1>9. ASSUME NEW t \in Tiers
      PROVE  /\ rec'[t] \in [id : Ids \cup {0}, deliberate : BOOLEAN]
             /\ fails'[t] \in 0..BreakerLimit /\ trip'[t] \in 0..BreakerCooldown
             /\ \/ /\ fails'[t] = 0 /\ trip'[t] = 0
                   /\ \E o \in extra : o.tier = t /\ rec'[t].id = o.id
                \/ /\ fails'[t] = fails[t] /\ trip'[t] = trip[t] /\ rec'[t] = rec[t]
                   /\ \A o \in extra : o.tier # t
  <2>1. CASE t \in found
    <3>1. rec'[t] = [id |-> own[t].id, deliberate |-> FALSE] /\ own[t] \in extra /\ own[t].tier = t
      BY <1>3, <2>1
    <3>2. own[t].id \in Ids
      BY <1>1, <1>2, <3>1 DEF OrdersOK, Order
    <3> QED BY <1>1, <1>4, <2>1, <3>1, <3>2, ExpiredIs
  <2>2. CASE t \notin found
    <3>1. rec'[t] = rec[t] /\ fails'[t] = fails[t] /\ trip'[t] = trip[t] /\ \A o \in extra : o.tier # t
      BY <1>3, <1>4, <2>2
    <3> QED BY <1>1, <3>1 DEF RestOK
  <2> QED BY <2>1, <2>2
<1>10. /\ rec' \in [Tiers -> [id : Ids \cup {0}, deliberate : BOOLEAN]]
       /\ fails' \in [Tiers -> 0..BreakerLimit] /\ trip' \in [Tiers -> 0..BreakerCooldown]
  BY <1>3, <1>4, <1>9
<1> QED BY <1>1, <1>4, <1>5, <1>6, <1>7, <1>8, <1>9, <1>10 DEF extra

-----------------------------------------------------------------------------
(* Type correctness *)

\* The start: nothing is armed, and the opener has every tier to do.
LEMMA StartTyped == Init => TypeInv
<1> SUFFICES ASSUME Init PROVE TypeInv
  OBVIOUS
<1>1. pnl \in 0..Top /\ peak \in 0..Top /\ OrdersOK
  BY BoundsAssumption DEF Init, OrdersOK
<1>2. RestOK
  BY BoundsAssumption DEF Init, RestOK, ArmStates, ObsStates
<1>3. PICK opening : /\ opening = [Idle EXCEPT !.pc = "next", !.todo = Tiers, !.pnl = -1]
                     /\ Acting(opening)
  <2>1. ASSUME NEW n \in Int, NEW S \in SUBSET Tiers
        PROVE  Acting([Idle EXCEPT !.pc = "next", !.todo = S, !.pnl = n])
    <3> DEFINE x == [Idle EXCEPT !.pc = "next", !.todo = S, !.pnl = n]
    <3>1. x \in [pc : Places, todo : SUBSET Tiers, tier : Tiers \cup {0},
                 saw : ArmStates \cup ObsStates, prev : ArmStates, pnl : Int,
                 new : Ids \cup {0}, old : Ids \cup {0}, count : {Idle.count},
                 trigger : BOOLEAN, cut : SUBSET Ids]
      BY IdleActs DEF Acting, Places
    <3>2. x.pc = "next" /\ x.count = Idle.count
      BY DEF Idle
    <3> HIDE DEF x
    <3>3. Acting(x)
      BY <3>1, <3>2 DEF Acting
    <3> QED BY <3>3 DEF x
  <2>2. -1 \in Int /\ Tiers \in SUBSET Tiers
    OBVIOUS
  <2>3. Acting([Idle EXCEPT !.pc = "next", !.todo = Tiers, !.pnl = -1])
    BY <2>1, <2>2
  <2> QED BY <2>3
<1>4. PICK crew \in Crews : act = [a \in crew |-> IF a = "opener" THEN opening ELSE Idle]
  BY <1>3 DEF Init
<1>5. ActsOK
  BY <1>3, <1>4, IdleActs DEF ActsOK, Actors
<1> QED BY <1>1, <1>2, <1>5, Parts

\* The exchange moves on, the timers run down, the program restarts.
LEMMA OutsideTyped == TypeInv /\ (Move \/ Lose \/ Tick \/ Restart) => TypeInv'
<1> SUFFICES ASSUME TypeInv PROVE Move \/ Lose \/ Tick \/ Restart => TypeInv'
  OBVIOUS
<1>1. pnl \in 0..Top /\ peak \in 0..Top /\ OrdersOK /\ RestOK /\ ActsOK
  BY Parts
<1>2. ASSUME Move PROVE TypeInv'
  <2>1. /\ pnl' \in 0..Top
        /\ UNCHANGED <<peak, rec, memory, act, late>>
    BY <1>2 DEF Move
  <2> DEFINE reached == {o \in orders : o.st = "resting" /\ MinProfit[o.tier] <= pnl'}
  <2>2. PICK phantoms \in SUBSET reached :
          /\ Call(phantoms = {})
          /\ orders' = (orders \ reached)
                         \cup {[o EXCEPT !.st = "phantom"] : o \in phantoms}
                         \cup {[o EXCEPT !.st = "active"] : o \in reached \ phantoms}
    BY <1>2 DEF Move
  <2> DEFINE after(o) == IF o \notin reached THEN o
                         ELSE IF o \in phantoms THEN [o EXCEPT !.st = "phantom"]
                         ELSE [o EXCEPT !.st = "active"]
  <2>3. \A o \in orders : after(o) \in Order /\ after(o).id = o.id
    BY <1>1 DEF OrdersOK, Order
  <2>4. \A p \in orders' : \E o \in orders : p = after(o)
    BY <2>2
  <2> HIDE DEF after, reached
  <2>5. OrdersOK'
    <3>1. orders' \subseteq Order
      BY <2>3, <2>4
    <3>2. ASSUME NEW p \in orders', NEW q \in orders', p.id = q.id PROVE p = q
      <4>1. PICK o \in orders, r \in orders : p = after(o) /\ q = after(r)
        BY <2>4
      <4>2. o.id = r.id
        BY <2>3, <3>2, <4>1
      <4>3. o = r
        BY <1>1, <4>2 DEF OrdersOK
      <4> QED BY <4>1, <4>3
    <3> QED BY <3>1, <3>2 DEF OrdersOK
  <2>6. faults' \in 0..MaxFaults
    <3>1. (phantoms = {}) \in BOOLEAN
      OBVIOUS
    <3> QED BY <1>1, <2>2, <3>1, Faults DEF RestOK
  <2>7. RestOK'
    BY <1>1, <2>1, <2>6 DEF RestOK, memory
  <2>8. ActsOK'
    BY <1>1, <2>1 DEF ActsOK, Actors
  <2>9. peak' \in 0..Top
    BY <1>1, <2>1
  <2> QED BY <2>1, <2>5, <2>7, <2>8, <2>9, PartsNext
<1>3. ASSUME Lose PROVE TypeInv'
  <2>1. orders' \subseteq orders /\ Fault /\ UNCHANGED <<pnl, peak, rec, memory, act, late>>
    BY <1>3 DEF Lose
  <2>2. OrdersOK'
    BY <1>1, <2>1, FewerOrders
  <2>3. faults' \in 0..MaxFaults
    BY <1>1, <2>1, Faults DEF RestOK
  <2>4. RestOK'
    BY <1>1, <2>1, <2>3 DEF RestOK, memory
  <2>5. ActsOK' /\ pnl' \in 0..Top /\ peak' \in 0..Top
    BY <1>1, <2>1 DEF ActsOK, Actors
  <2> QED BY <2>2, <2>4, <2>5, PartsNext
<1>4. ASSUME Tick PROVE TypeInv'
  <2>1. /\ cool' = Down(cool) /\ trip' = Down(trip)
        /\ UNCHANGED <<pnl, peak, orders, rec, arm, obs, fails, act, faults, late>>
    BY <1>4 DEF Tick
  <2>2. ASSUME NEW n \in Nat, NEW timer \in [Tiers -> 0..n] PROVE Down(timer) \in [Tiers -> 0..n]
    <3>1. \A t \in Tiers : (IF timer[t] > 0 THEN timer[t] - 1 ELSE 0) \in 0..n
      <4> TAKE t \in Tiers
      <4>1. timer[t] \in 0..n
        OBVIOUS
      <4> QED BY <4>1
    <3> QED BY <3>1 DEF Down
  <2>3. cool' \in [Tiers -> 0..ArmCooldown] /\ trip' \in [Tiers -> 0..BreakerCooldown]
    BY <1>1, <2>1, <2>2, BoundsAssumption DEF RestOK
  <2>4. RestOK'
    BY <1>1, <2>1, <2>3 DEF RestOK
  <2>5. ActsOK' /\ OrdersOK' /\ pnl' \in 0..Top /\ peak' \in 0..Top
    BY <1>1, <2>1 DEF ActsOK, Actors, OrdersOK
  <2> QED BY <2>4, <2>5, PartsNext
<1>5. ASSUME Restart PROVE TypeInv'
  <2>1. /\ arm' = "none" /\ obs' = "none" /\ Fault
        /\ fails' = [t \in Tiers |-> 0] /\ trip' = [t \in Tiers |-> 0]
        /\ cool' = [t \in Tiers |-> 0] /\ late' = [t \in Tiers |-> 0]
        /\ act' = [a \in Actors |-> Idle]
        /\ UNCHANGED <<pnl, peak, orders, rec>>
    BY <1>5 DEF Restart
  <2>2. faults' \in 0..MaxFaults
    BY <1>1, <2>1, Faults DEF RestOK
  <2>3. rec' \in [Tiers -> [id : Ids \cup {0}, deliberate : BOOLEAN]]
    BY <1>1, <2>1 DEF RestOK
  <2>4. RestOK'
    BY <2>1, <2>2, <2>3, BoundsAssumption DEF RestOK, ArmStates, ObsStates
  <2>5. Actors' = Actors /\ \A a \in Actors : act'[a] = Idle
    BY <2>1 DEF Actors
  <2>6. ActsOK'
    BY <1>1, <2>5, IdleActs DEF ActsOK
  <2>7. OrdersOK' /\ pnl' \in 0..Top /\ peak' \in 0..Top
    BY <1>1, <2>1 DEF OrdersOK
  <2> QED BY <2>4, <2>6, <2>7, PartsNext
<1> QED BY <1>2, <1>3, <1>4, <1>5

\* What is left when the partial tiers collapse was there.
LEMMA CollapsedFewer == ASSUME NEW a PROVE Collapsed(a) \subseteq orders
BY DEF Collapsed

\* Arming keeps the types.
LEMMA ArmTyped == ASSUME TypeInv, NEW a \in Actors, Arm(a) PROVE TypeInv'
<1>1. pnl \in 0..Top /\ peak \in 0..Top /\ OrdersOK /\ RestOK /\ ActsOK /\ Acting(act[a])
  BY Parts DEF ActsOK
<1>2. UNCHANGED <<pnl, peak>>
  BY DEF Arm, Select, Begin, Look, Claim, Refused, Placed, Confirm, Unseen
<1>3. Only(a) /\ Acting(act'[a])
  BY <1>1, SelectActs, BeginActs, LookActs, ClaimActs, RefusedActs, PlacedActs, ConfirmActs,
     UnseenActs DEF Arm
<1>4. ActsOK'
  BY <1>1, <1>3, OnlyTypes
<1>5. OrdersOK'
  <2>1. CASE Placed(a)
    <3>1. PICK kept \in {orders, Collapsed(a)}, o \in Order :
            orders' = kept \cup {o} /\ o.id \in FreeIds
      BY <2>1, PlacedActs
    <3>2. kept \subseteq orders /\ \A p \in orders : p.id # o.id
      BY <3>1, CollapsedFewer DEF FreeIds
    <3> QED BY <1>1, <3>1, <3>2 DEF OrdersOK
  <2>2. CASE Refused(a)
    BY <1>1, <2>2, RefusedActs, CollapsedFewer, FewerOrders
  <2>3. CASE Look(a) \/ Confirm(a)
    BY <1>1, <2>3, LookActs, ConfirmActs, FewerOrders
  <2>4. CASE Select(a) \/ Begin(a) \/ Claim(a) \/ Unseen(a)
    <3>1. orders' = orders
      BY <2>4 DEF Select, Begin, Claim, Unseen
    <3> QED BY <1>1, <3>1 DEF OrdersOK
  <2> QED BY <2>1, <2>2, <2>3, <2>4 DEF Arm
<1>6. RestOK'
  <2>1. CASE Select(a)
    <3>1. UNCHANGED <<rec, memory, late>> /\ \E ok \in BOOLEAN : Call(ok)
      BY <2>1 DEF Select
    <3> QED BY <1>1, <3>1, Faults DEF RestOK, memory
  <2>2. CASE Begin(a)
    <3>1. UNCHANGED <<rec, arm, obs, trip, cool, faults, late>>
      BY <2>2 DEF Begin
    <3>2. PICK t \in Tiers : fails' = [fails EXCEPT ![t] = Expired(t)]
      BY <2>2, BeginActs
    <3>3. fails' \in [Tiers -> 0..BreakerLimit]
      BY <1>1, <3>2, ExpiredIs DEF RestOK
    <3> QED BY <1>1, <3>1, <3>3 DEF RestOK
  <2>3. CASE Look(a)
    <3>1. UNCHANGED <<rec, memory, late>>
      BY <2>3 DEF Look
    <3> QED BY <1>1, <2>3, <3>1, LookActs DEF RestOK, memory
  <2>4. CASE Claim(a)
    <3>1. UNCHANGED <<rec, obs, fails, trip, cool, faults, late>>
      BY <2>4 DEF Claim
    <3> QED BY <1>1, <2>4, <3>1, ClaimActs DEF RestOK
  <2>5. CASE Refused(a)
    <3>1. UNCHANGED <<rec, obs, fails, trip, cool, late>>
      BY <2>5 DEF Refused
    <3> QED BY <1>1, <2>5, <3>1, RefusedActs DEF RestOK
  <2>6. CASE Placed(a)
    <3>1. UNCHANGED <<rec, memory>>
      BY <2>6 DEF Placed
    <3>2. /\ late' = [late EXCEPT ![act[a].tier] = IF Tripped(act[a].tier) THEN @ + 1 ELSE 0]
          /\ act[a].tier \in Tiers /\ faults' \in 0..MaxFaults
      BY <2>6, PlacedActs
    <3>3. late' \in [Tiers -> Nat]
      BY <1>1, <3>2 DEF RestOK
    <3> QED BY <1>1, <3>1, <3>2, <3>3 DEF RestOK, memory
  <2>7. CASE Confirm(a)
    <3>1. UNCHANGED <<obs, fails, trip, late>>
      BY <2>7 DEF Confirm
    <3>2. PICK d \in BOOLEAN : rec' = [rec EXCEPT ![act[a].tier] = [id |-> act[a].new, deliberate |-> d]]
      BY <2>7, ConfirmActs
    <3>3. act[a].tier \in Tiers /\ act[a].new \in Ids
      BY <2>7, ConfirmActs
    <3>4. rec' \in [Tiers -> [id : Ids \cup {0}, deliberate : BOOLEAN]]
      BY <1>1, <3>2, <3>3 DEF RestOK
    <3>5. arm' \in ArmStates /\ cool' \in [Tiers -> 0..ArmCooldown] /\ faults' \in 0..MaxFaults
      BY <2>7, ConfirmActs
    <3> QED BY <1>1, <3>1, <3>4, <3>5 DEF RestOK
  <2>8. CASE Unseen(a)
    <3>1. UNCHANGED <<rec, obs, fails, trip, cool, late>>
      BY <2>8 DEF Unseen
    <3> QED BY <1>1, <2>8, <3>1, UnseenActs DEF RestOK
  <2> QED BY <2>1, <2>2, <2>3, <2>4, <2>5, <2>6, <2>7, <2>8 DEF Arm
<1>7. pnl' \in 0..Top /\ peak' \in 0..Top
  BY <1>1, <1>2
<1> QED BY <1>4, <1>5, <1>6, <1>7, PartsNext

\* The monitor and the reconciler keep them.
LEMMA LoopsTyped == ASSUME TypeInv, MonitorStep \/ ReconcilerStep PROVE TypeInv'
<1>1. pnl \in 0..Top /\ peak \in 0..Top /\ OrdersOK /\ RestOK /\ ActsOK
  BY Parts
<1>2. CASE MonitorStep
  <2>1. Poll \/ CancelDangerous \/ ToAccount \/ Account
    BY <1>2 DEF MonitorStep
  <2>2. /\ "monitor" \in Actors /\ Only("monitor") /\ Acting(act'["monitor"])
        /\ orders' \subseteq orders /\ peak' \in 0..Top /\ UNCHANGED <<pnl, rec, obs, cool>>
        /\ Account \/ UNCHANGED <<memory, late>>
        /\ faults' \in 0..MaxFaults
    BY <2>1, MonitorActs
  <2>3. ActsOK' /\ OrdersOK'
    BY <1>1, <2>2, OnlyTypes, FewerOrders
  <2>4. RestOK'
    <3>1. CASE Account
      <4>1. /\ fails' \in [Tiers -> 0..BreakerLimit] /\ trip' \in [Tiers -> 0..BreakerCooldown]
            /\ arm' \in ArmStates /\ late' \in [Tiers -> Nat]
        BY <3>1, AccountTrips
      <4> QED BY <1>1, <2>2, <4>1 DEF RestOK
    <3>2. CASE UNCHANGED <<memory, late>>
      BY <1>1, <2>2, <3>2 DEF RestOK, memory
    <3> QED BY <2>2, <3>1, <3>2
  <2>5. pnl' \in 0..Top /\ peak' \in 0..Top
    BY <1>1, <2>2
  <2> QED BY <2>3, <2>4, <2>5, PartsNext
<1>3. CASE Check
  <2>1. /\ "reconciler" \in Actors /\ Only("reconciler") /\ Acting(act'["reconciler"])
        /\ UNCHANGED <<pnl, peak, orders, cool, faults, late>>
        /\ arm' \in ArmStates /\ obs' \in ObsStates
        /\ rec' \in [Tiers -> [id : Ids \cup {0}, deliberate : BOOLEAN]]
        /\ fails' \in [Tiers -> 0..BreakerLimit] /\ trip' \in [Tiers -> 0..BreakerCooldown]
    BY <1>3, CheckActs
  <2>2. ActsOK'
    BY <1>1, <2>1, OnlyTypes
  <2>3. RestOK' /\ OrdersOK'
    BY <1>1, <2>1 DEF RestOK, OrdersOK
  <2>4. pnl' \in 0..Top /\ peak' \in 0..Top
    BY <1>1, <2>1
  <2> QED BY <2>2, <2>3, <2>4, PartsNext
<1>4. CASE ReconcilePoll \/ CheckFails \/ CutDuplicates \/ ArmTriggered \/ EndReconcile
  <2>1. /\ "reconciler" \in Actors /\ Only("reconciler") /\ Acting(act'["reconciler"])
        /\ orders' \subseteq orders /\ obs' \in ObsStates
        /\ UNCHANGED <<pnl, peak, rec, arm, fails, trip, cool, late>>
        /\ faults' \in 0..MaxFaults
    BY <1>4, ReconcilerActs
  <2>2. ActsOK' /\ OrdersOK'
    BY <1>1, <2>1, OnlyTypes, FewerOrders
  <2>3. RestOK'
    BY <1>1, <2>1 DEF RestOK
  <2>4. pnl' \in 0..Top /\ peak' \in 0..Top
    BY <1>1, <2>1
  <2> QED BY <2>2, <2>3, <2>4, PartsNext
<1> QED BY <1>2, <1>3, <1>4 DEF ReconcilerStep

\* Every step keeps the types.
LEMMA Typed == TypeInv /\ [Next]_vars => TypeInv'
<1> SUFFICES ASSUME TypeInv, [Next]_vars PROVE TypeInv'
  OBVIOUS
<1>1. CASE Move \/ Lose \/ Tick \/ Restart
  BY <1>1, OutsideTyped
<1>2. CASE \E a \in Actors : Arm(a)
  BY <1>2, ArmTyped
<1>3. CASE MonitorStep \/ ReconcilerStep
  BY <1>3, LoopsTyped
<1>4. CASE UNCHANGED vars
  <2>1. pnl \in 0..Top /\ peak \in 0..Top /\ OrdersOK /\ RestOK /\ ActsOK
    BY Parts
  <2>2. pnl' \in 0..Top /\ peak' \in 0..Top /\ OrdersOK' /\ RestOK' /\ ActsOK'
    BY <1>4, <2>1 DEF vars, memory, OrdersOK, RestOK, ActsOK, Actors
  <2> QED BY <2>2, PartsNext
<1> QED BY <1>1, <1>2, <1>3, <1>4 DEF Next

\* Whatever the goroutines do and in whatever order: orders keep distinct ids,
\* a record names an order id, the breaker and the timers keep their bounds,
\* and a goroutine that arms (applyNativeTrailing...) has a tier to arm.
THEOREM TypeCorrect == Spec => []TypeOK
<1>1. TypeInv => TypeOK
  BY DEF TypeInv
<1> QED BY <1>1, StartTyped, Typed, PTL DEF Spec

-----------------------------------------------------------------------------
(* A tripped breaker *)

\* The goroutines about to place an order of the tier.
Underway(t) == {a \in Actors : act[a].tier = t /\ act[a].pc \in {"look", "claim", "place"}}

Others == Actors \ {"monitor"}

\* While the breaker is tripped, every placement made since and every one still
\* to come is of a goroutine of its own, and none is the monitor's.
TripInvOf(t) ==
  /\ late[t] <= Cardinality(Others)
  /\ Tripped(t) => /\ "monitor" \notin Underway(t)
                   /\ late[t] + Cardinality(Underway(t)) <= Cardinality(Others)

TripInv == \A t \in Tiers : TripInvOf(t)

\* The goroutines are few.
LEMMA FewActors ==
  ASSUME ActsOK, NEW S \in SUBSET Actors
  PROVE  IsFiniteSet(S) /\ Cardinality(S) \in Nat
<1>1. Actors \subseteq {"monitor", "reconciler", "opener"}
  BY BoundsAssumption DEF ActsOK
<1>2. IsFiniteSet({"monitor", "reconciler", "opener"})
  <2>1. IsFiniteSet({})
    BY FS_EmptySet
  <2>2. IsFiniteSet({} \cup {"monitor"})
    BY <2>1, FS_AddElement
  <2>3. IsFiniteSet(({} \cup {"monitor"}) \cup {"reconciler"})
    BY <2>2, FS_AddElement
  <2>4. IsFiniteSet((({} \cup {"monitor"}) \cup {"reconciler"}) \cup {"opener"})
    BY <2>3, FS_AddElement
  <2>5. (({} \cup {"monitor"}) \cup {"reconciler"}) \cup {"opener"}
          = {"monitor", "reconciler", "opener"}
    OBVIOUS
  <2> QED BY <2>4, <2>5
<1>3. IsFiniteSet(S)
  BY <1>1, <1>2, FS_Subset
<1> QED BY <1>3, FS_CardinalityType

\* Nobody new is about to place the tier, and its breaker does not trip.
LEMMA NoneMore ==
  ASSUME ActsOK, Actors' = Actors, NEW t \in Tiers, late[t] \in Nat, TripInvOf(t),
         late'[t] = late[t], Tripped(t)' => Tripped(t), Underway(t)' \subseteq Underway(t)
  PROVE  TripInvOf(t)'
<1>1. Others' = Others
  BY DEF Others
<1>2. Underway(t) \subseteq Actors
  BY DEF Underway
<1>3. /\ IsFiniteSet(Underway(t)) /\ Cardinality(Underway(t)) \in Nat
      /\ Cardinality(Underway(t)') \in Nat /\ Cardinality(Others) \in Nat
  BY <1>2, FewActors DEF Others
<1>4. Cardinality(Underway(t)') <= Cardinality(Underway(t))
  BY <1>3, FS_Subset
<1>5. late'[t] <= Cardinality(Others)'
  BY <1>1 DEF TripInvOf
<1>6. ASSUME Tripped(t)' PROVE "monitor" \notin Underway(t)'
  BY <1>6 DEF TripInvOf
<1>7. ASSUME Tripped(t)'
      PROVE  late'[t] + Cardinality(Underway(t)') <= Cardinality(Others)'
  <2>1. late[t] + Cardinality(Underway(t)) <= Cardinality(Others)
    BY <1>7 DEF TripInvOf
  <2> QED BY <1>1, <1>3, <1>4, <2>1
<1> QED BY <1>5, <1>6, <1>7 DEF TripInvOf

\* Nothing was placed yet and the monitor is not about to.
LEMMA FreshTrip ==
  ASSUME ActsOK, Actors' = Actors, NEW t \in Tiers, late'[t] = 0,
         Tripped(t)' => "monitor" \notin Underway(t)'
  PROVE  TripInvOf(t)'
<1>1. Others' = Others
  BY DEF Others
<1>2. Cardinality(Others) \in Nat /\ IsFiniteSet(Others)
  BY FewActors DEF Others
<1>3. late'[t] <= Cardinality(Others)'
  BY <1>1, <1>2
<1>4. ASSUME Tripped(t)'
      PROVE  late'[t] + Cardinality(Underway(t)') <= Cardinality(Others)'
  <2>1. Underway(t)' \subseteq Others
    BY <1>4 DEF Underway, Others
  <2>2. Cardinality(Underway(t)') <= Cardinality(Others) /\ Cardinality(Underway(t)') \in Nat
    BY <1>2, <2>1, FS_Subset, FS_CardinalityType
  <2> QED BY <1>1, <1>2, <2>2
<1> QED BY <1>3, <1>4 DEF TripInvOf

\* The step of a goroutine that does not take the tier up.
LEMMA OthersUnderway ==
  ASSUME NEW a \in Actors, Only(a), NEW t,
         \/ act'[a].pc \notin {"look", "claim", "place"}
         \/ act'[a].tier # t
         \/ a \in Underway(t)
  PROVE  Underway(t)' \subseteq Underway(t) /\ Actors' = Actors
BY DEF Only, Underway, Actors

\* The breaker is as it was.
LEMMA SameBreaker ==
  ASSUME NEW t, fails'[t] = fails[t], trip'[t] = trip[t]
  PROVE  Tripped(t)' <=> Tripped(t)
BY DEF Tripped, Expired

\* A breaker that was reset is not tripped.
LEMMA ResetBreaker ==
  ASSUME NEW t, fails'[t] = 0 PROVE ~Tripped(t)'
BY BoundsAssumption DEF Tripped, Expired

\* The exchange, the clock and a restart trip no breaker.
LEMMA TripOutside ==
  ASSUME TypeInv, TripInv, Move \/ Lose \/ Tick \/ Restart
  PROVE  TripInv'
<1>1. RestOK /\ ActsOK
  BY Parts
<1> SUFFICES ASSUME NEW t \in Tiers PROVE TripInvOf(t)'
  BY DEF TripInv
<1>2. TripInvOf(t) /\ late[t] \in Nat
  BY <1>1 DEF TripInv, RestOK
<1>3. CASE Move \/ Lose
  <2>1. UNCHANGED <<act, fails, trip, late>>
    BY <1>3 DEF Move, Lose, memory
  <2>2. Actors' = Actors /\ Underway(t)' = Underway(t) /\ (Tripped(t)' <=> Tripped(t))
    BY <2>1, SameBreaker DEF Actors, Underway
  <2> QED BY <1>1, <1>2, <2>1, <2>2, NoneMore
<1>4. CASE Tick
  <2>1. UNCHANGED <<act, fails, late>> /\ trip' = Down(trip)
    BY <1>4 DEF Tick
  <2>2. Actors' = Actors /\ Underway(t)' = Underway(t)
    BY <2>1 DEF Actors, Underway
  <2>3. Tripped(t)' => Tripped(t)
    <3>1. trip'[t] = IF trip[t] > 0 THEN trip[t] - 1 ELSE 0
      BY <2>1 DEF Down
    <3>2. trip'[t] # 0 => trip[t] # 0
      BY <3>1, <1>1, ExpiredIs
    <3>3. fails'[t] = fails[t] /\ fails[t] \in 0..BreakerLimit /\ BreakerLimit \in Nat \ {0}
      BY <1>1, <2>1, ExpiredIs
    <3>4. Tripped(t)' => fails'[t] = BreakerLimit /\ trip'[t] # 0
      BY <3>3 DEF Tripped, Expired
    <3> QED BY <1>1, <3>2, <3>3, <3>4, ExpiredIs
  <2> QED BY <1>1, <1>2, <2>1, <2>2, <2>3, NoneMore
<1>5. CASE Restart
  <2>1. fails'[t] = 0 /\ late'[t] = 0 /\ Actors' = Actors
    BY <1>5 DEF Restart, Actors
  <2>2. ~Tripped(t)'
    BY <2>1, ResetBreaker
  <2> QED BY <1>1, <2>1, <2>2, FreshTrip
<1> QED BY <1>3, <1>4, <1>5

\* Placing an order of the tier: the goroutine is no longer about to.
LEMMA TripPlaced ==
  ASSUME TypeInv, TripInv, NEW a \in Actors, Placed(a), NEW t \in Tiers
  PROVE  TripInvOf(t)'
<1>1. RestOK /\ ActsOK
  BY Parts
<1>2. /\ Only(a) /\ act[a].pc = "place" /\ act'[a].pc = "confirm" /\ act[a].tier \in Tiers
      /\ late' = [late EXCEPT ![act[a].tier] = IF Tripped(act[a].tier) THEN @ + 1 ELSE 0]
  BY PlacedActs
<1>3. fails'[t] = fails[t] /\ trip'[t] = trip[t]
  BY DEF Placed, memory
<1>4. TripInvOf(t) /\ late[t] \in Nat /\ (Tripped(t)' <=> Tripped(t))
  BY <1>1, <1>3, SameBreaker DEF TripInv, RestOK
<1>5. Underway(t)' \subseteq Underway(t) /\ Actors' = Actors
  BY <1>2, OthersUnderway
<1>6. CASE act[a].tier # t
  <2>1. late'[t] = late[t]
    BY <1>1, <1>2, <1>6 DEF RestOK
  <2> QED BY <1>1, <1>4, <1>5, <2>1, NoneMore
<1>7. CASE act[a].tier = t /\ ~Tripped(t)
  <2>1. late'[t] = 0
    BY <1>1, <1>2, <1>7 DEF RestOK
  <2> QED BY <1>1, <1>4, <1>5, <1>7, <2>1, FreshTrip
<1>8. CASE act[a].tier = t /\ Tripped(t)
  <2>1. late'[t] = late[t] + 1
    BY <1>1, <1>2, <1>8 DEF RestOK
  <2>2. a \in Underway(t) /\ Underway(t)' \subseteq Underway(t) \ {a}
    BY <1>2, <1>5, <1>8 DEF Underway
  <2>3. Underway(t) \in SUBSET Actors /\ Underway(t) \ {a} \in SUBSET Actors /\ Others \in SUBSET Actors
    BY DEF Underway, Others
  <2>4. /\ IsFiniteSet(Underway(t)) /\ IsFiniteSet(Underway(t) \ {a})
        /\ Cardinality(Underway(t)) \in Nat /\ Cardinality(Others) \in Nat
    BY <1>1, <2>3, FewActors
  <2>5. Cardinality(Underway(t) \ {a}) = Cardinality(Underway(t)) - 1
    BY <2>2, <2>4, FS_RemoveElement
  <2>6. /\ Cardinality(Underway(t)') <= Cardinality(Underway(t) \ {a})
        /\ Cardinality(Underway(t)') \in Nat
    BY <2>2, <2>4, FS_Subset, FS_CardinalityType
  <2>7. "monitor" \notin Underway(t)'
        /\ late[t] + Cardinality(Underway(t)) <= Cardinality(Others)
    BY <1>4, <1>5, <1>8 DEF TripInvOf
  <2>8. late'[t] + Cardinality(Underway(t)') <= Cardinality(Others)
        /\ late'[t] <= Cardinality(Others)
    BY <1>4, <2>1, <2>4, <2>5, <2>6, <2>7
  <2>9. Others' = Others
    BY <1>5 DEF Others
  <2> QED BY <2>7, <2>8, <2>9 DEF TripInvOf
<1> QED BY <1>6, <1>7, <1>8

\* Arming: a tier is taken up only while its breaker is not tripped.
LEMMA TripArm ==
  ASSUME TypeInv, TripInv, NEW a \in Actors, Arm(a)
  PROVE  TripInv'
<1>1. RestOK /\ ActsOK /\ Acting(act[a])
  BY Parts DEF ActsOK
<1> SUFFICES ASSUME NEW t \in Tiers PROVE TripInvOf(t)'
  BY DEF TripInv
<1>2. TripInvOf(t) /\ late[t] \in Nat
  BY <1>1 DEF TripInv, RestOK
<1>3. CASE Begin(a)
  <2>1. late'[t] = late[t] /\ trip'[t] = trip[t]
    BY <1>3 DEF Begin
  <2>2. /\ Only(a)
        /\ \E u \in Tiers :
              /\ fails' = [fails EXCEPT ![u] = Expired(u)]
              /\ \/ act'[a].pc = "next"
                 \/ act'[a].pc \in {"look", "claim"} /\ act'[a].tier = u /\ ~Barred(u)
    BY <1>3, BeginActs
  <2>3. PICK u \in Tiers :
          /\ fails' = [fails EXCEPT ![u] = Expired(u)]
          /\ \/ act'[a].pc = "next"
             \/ act'[a].pc \in {"look", "claim"} /\ act'[a].tier = u /\ ~Barred(u)
    BY <2>2
  <2>4. CASE t # u
    <3>1. fails'[t] = fails[t]
      BY <1>1, <2>3, <2>4 DEF RestOK
    <3>2. Underway(t)' \subseteq Underway(t) /\ Actors' = Actors
      BY <2>2, <2>3, <2>4, OthersUnderway
    <3>3. Tripped(t)' <=> Tripped(t)
      BY <2>1, <3>1, SameBreaker
    <3> QED BY <1>1, <1>2, <2>1, <3>2, <3>3, NoneMore
  <2>5. CASE t = u
    <3>1. fails'[t] = Expired(t)
      BY <1>1, <2>3, <2>5 DEF RestOK
    <3>2. Tripped(t)' => Tripped(t)
      <4>1. ASSUME ~Tripped(t) PROVE ~Tripped(t)'
        <5>1. Expired(t) < BreakerLimit /\ Expired(t) \in 0..BreakerLimit /\ BreakerLimit \in Nat \ {0}
          BY <1>1, <4>1, ExpiredIs
        <5> QED BY <3>1, <5>1 DEF Tripped, Expired
      <4> QED BY <4>1
    <3>3. CASE act'[a].pc = "next"
      <4>1. Underway(t)' \subseteq Underway(t) /\ Actors' = Actors
        BY <2>2, <3>3, OthersUnderway
      <4> QED BY <1>1, <1>2, <2>1, <3>2, <4>1, NoneMore
    <3>4. CASE ~Barred(t)
      <4>1. ~Tripped(t)'
        BY <3>2, <3>4 DEF Barred
      <4>2. Others' = Others
        BY <2>2 DEF Only, Actors, Others
      <4> QED BY <1>2, <2>1, <4>1, <4>2 DEF TripInvOf
    <3> QED BY <2>3, <2>5, <3>3, <3>4
  <2> QED BY <2>4, <2>5
<1>4. CASE Placed(a)
  BY <1>4, TripPlaced
<1>5. CASE Select(a) \/ Look(a) \/ Claim(a) \/ Refused(a) \/ Confirm(a) \/ Unseen(a)
  <2>1. UNCHANGED <<fails, trip, late>>
    BY <1>5 DEF Select, Look, Claim, Refused, Confirm, Unseen, memory
  <2>2. Only(a) /\ (\/ act'[a].pc \notin {"look", "claim", "place"}
                    \/ act'[a].tier # t
                    \/ a \in Underway(t))
    <3>1. CASE Look(a)
      <4>1. /\ Only(a) /\ act[a].pc = "look"
            /\ act'[a].pc = "next" \/ (act'[a].pc = "claim" /\ act'[a].tier = act[a].tier)
        BY <3>1, LookActs
      <4> QED BY <4>1 DEF Underway
    <3>2. CASE Claim(a)
      <4>1. /\ Only(a) /\ act[a].pc = "claim"
            /\ act'[a].pc = "next" \/ (act'[a].pc = "place" /\ act'[a].tier = act[a].tier)
        BY <3>2, ClaimActs
      <4> QED BY <4>1 DEF Underway
    <3>3. CASE Select(a)
      BY <1>1, <3>3, SelectActs
    <3>4. CASE Refused(a) \/ Confirm(a) \/ Unseen(a)
      BY <3>4, RefusedActs, ConfirmActs, UnseenActs
    <3> QED BY <1>5, <3>1, <3>2, <3>3, <3>4
  <2>3. Underway(t)' \subseteq Underway(t) /\ Actors' = Actors
    BY <2>2, OthersUnderway
  <2>4. Tripped(t)' <=> Tripped(t)
    BY <2>1, SameBreaker
  <2> QED BY <1>1, <1>2, <2>1, <2>3, <2>4, NoneMore
<1> QED BY <1>3, <1>4, <1>5 DEF Arm

\* The monitor trips a breaker between its passes, the reconciler's adoption
\* resets one.
LEMMA TripLoops ==
  ASSUME TypeInv, TripInv, MonitorStep \/ ReconcilerStep
  PROVE  TripInv'
<1>1. RestOK /\ ActsOK
  BY Parts
<1> SUFFICES ASSUME NEW t \in Tiers PROVE TripInvOf(t)'
  BY DEF TripInv
<1>2. TripInvOf(t) /\ late[t] \in Nat
  BY <1>1 DEF TripInv, RestOK
<1>3. CASE MonitorStep
  <2>1. /\ "monitor" \in Actors /\ Only("monitor")
        /\ act'["monitor"].pc \in {"danger", "select", "account", "idle"}
        /\ Account \/ UNCHANGED <<memory, late>>
    BY <1>3, MonitorActs DEF MonitorStep
  <2>2. Underway(t)' \subseteq Underway(t) /\ Actors' = Actors
    BY <2>1, OthersUnderway
  <2>3. "monitor" \notin Underway(t)'
    BY <2>1 DEF Underway
  <2>4. \/ late'[t] = 0
        \/ late'[t] = late[t] /\ (Tripped(t)' => Tripped(t))
    <3>1. CASE Account
      BY <3>1, AccountTrips
    <3>2. CASE UNCHANGED <<memory, late>>
      BY <3>2, SameBreaker DEF memory
    <3> QED BY <2>1, <3>1, <3>2
  <2>5. CASE late'[t] = 0
    BY <1>1, <2>2, <2>3, <2>5, FreshTrip
  <2>6. CASE late'[t] = late[t] /\ (Tripped(t)' => Tripped(t))
    BY <1>1, <1>2, <2>2, <2>6, NoneMore
  <2> QED BY <2>4, <2>5, <2>6
<1>4. CASE Check
  <2>1. /\ "reconciler" \in Actors /\ Only("reconciler")
        /\ act'["reconciler"].pc \in {"select", "cut"}
        /\ late' = late
        /\ fails'[t] = 0 \/ (fails'[t] = fails[t] /\ trip'[t] = trip[t])
    BY <1>4, CheckActs
  <2>2. Underway(t)' \subseteq Underway(t) /\ Actors' = Actors
    BY <2>1, OthersUnderway
  <2>3. Tripped(t)' => Tripped(t)
    BY <2>1, SameBreaker, ResetBreaker
  <2> QED BY <1>1, <1>2, <2>1, <2>2, <2>3, NoneMore
<1>5. CASE ReconcilePoll \/ CheckFails \/ CutDuplicates \/ ArmTriggered \/ EndReconcile
  <2>1. /\ "reconciler" \in Actors /\ Only("reconciler")
        /\ act'["reconciler"].pc \in {"check", "idle", "next"}
        /\ UNCHANGED <<fails, trip, late>>
    BY <1>5, ReconcilerActs
  <2>2. Underway(t)' \subseteq Underway(t) /\ Actors' = Actors
    BY <2>1, OthersUnderway
  <2>3. Tripped(t)' <=> Tripped(t)
    BY <2>1, SameBreaker
  <2> QED BY <1>1, <1>2, <2>1, <2>2, <2>3, NoneMore
<1> QED BY <1>3, <1>4, <1>5 DEF ReconcilerStep

\* Nothing is tripped at the start.
LEMMA TripStart == Init => TripInv
<1> SUFFICES ASSUME Init, NEW t \in Tiers PROVE TripInvOf(t)
  BY DEF TripInv
<1>1. ActsOK
  BY StartTyped, Parts
<1>2. Cardinality(Others) \in Nat
  BY <1>1, FewActors DEF Others
<1>3. late[t] = 0 /\ fails[t] = 0
  BY DEF Init
<1>4. ~Tripped(t)
  BY <1>3, BoundsAssumption DEF Tripped, Expired
<1> QED BY <1>2, <1>3, <1>4 DEF TripInvOf

\* Once the monitor's accounting (accountReArmBreaker) has tripped a tier's
\* breaker, isReArmBreakerTripped keeps everybody from taking the tier up; what
\* is still placed is what each other goroutine had taken up before, one order
\* each, however long the breaker stays tripped.
THEOREM TripRests == Spec => []TrippedTierRests
<1> DEFINE Inv == TypeInv /\ TripInv
<1>1. Init => Inv
  BY StartTyped, TripStart
<1>2. Inv /\ [Next]_vars => Inv'
  <2> SUFFICES ASSUME TypeInv, TripInv, [Next]_vars PROVE Inv'
    OBVIOUS
  <2>1. TypeInv'
    BY Typed
  <2>2. CASE UNCHANGED vars
    <3>1. UNCHANGED <<act, fails, trip, late>>
      BY <2>2 DEF vars, memory
    <3> QED BY <2>1, <3>1 DEF TripInv, TripInvOf, Underway, Others, Actors, Tripped, Expired
  <2>3. CASE Next
    <3>1. TripInv'
      BY <2>3, TripOutside, TripArm, TripLoops DEF Next
    <3> QED BY <2>1, <3>1
  <2> QED BY <2>2, <2>3
<1>3. Inv => TrippedTierRests
  BY DEF TripInv, TripInvOf, TrippedTierRests, Others
<1> QED BY <1>1, <1>2, <1>3, PTL DEF Spec

-----------------------------------------------------------------------------
(* One goroutine at a time: arming a tier leaves its siblings' orders *)

\* Nobody else arms tiers meanwhile.
Alone == \A crew \in Crews : \A a, b \in crew : a = b

\* A record names an order of its own tier.
OwnTier == \A t \in Tiers, o \in orders : o.id = rec[t].id => o.tier = t

\* Between placing and recording: the new order is the tier's, and no sibling's
\* record claims the order it will replace.
Confirming ==
  \A a \in Actors : act[a].pc = "confirm" =>
    \A o \in orders :
      /\ o.id = act[a].new => o.tier = act[a].tier
      /\ o.id = act[a].old => \A u \in Tiers : rec[u].id = o.id => u = act[a].tier

\* Nothing is taken off but moves and orders that keep their tier.
LEMMA SameTiers ==
  ASSUME OwnTier, Confirming, UNCHANGED rec, Actors' = Actors,
         \A p \in orders' : \E o \in orders : o.id = p.id /\ o.tier = p.tier,
         \A a \in Actors : act'[a].pc = "confirm" => act'[a] = act[a]
  PROVE  OwnTier' /\ Confirming'
<1>1. OwnTier'
  BY DEF OwnTier
<1>2. Confirming'
  BY DEF Confirming
<1> QED BY <1>1, <1>2

\* An order a sibling's record claims is neither the tier's own nor one it replaces.
LEMMA NotASiblings ==
  ASSUME TypeInv, OwnTier, NEW a \in Actors, act[a].tier \in Tiers,
         NEW o \in Matches(act[a].tier) \cup Replaced(a), NEW u \in Tiers, rec[u].id = o.id
  PROVE  u = act[a].tier
<1> DEFINE t == act[a].tier
<1>1. \A p \in orders : p.id # 0
  BY BoundsAssumption, Parts DEF OrdersOK, Order
<1>2. ASSUME o \in orders, o.id \notin ClaimedByOthers(t) PROVE u = t
  <2>1. o.id # 0
    BY <1>1, <1>2
  <2> QED BY <1>2, <2>1 DEF ClaimedByOthers
<1>3. ASSUME o \in Matches(t) PROVE u = t
  <2>1. CASE rec[t].id # 0
    <3>1. o \in orders /\ o.id = rec[t].id
      BY <1>3, <2>1 DEF Matches
    <3>2. o.tier = t /\ o.tier = u
      BY <3>1 DEF OwnTier
    <3> QED BY <3>2
  <2>2. CASE rec[t].id = 0
    <3>1. o \in orders /\ o.id \notin ClaimedByOthers(t)
      BY <1>3, <2>2 DEF Matches
    <3> QED BY <1>2, <3>1
  <2> QED BY <2>1, <2>2
<1>4. ASSUME o \in Replaced(a), o \notin Matches(t) PROVE u = t
  <2>1. o \in orders /\ o.id \notin ClaimedByOthers(t)
    BY <1>4 DEF Replaced
  <2> QED BY <1>2, <2>1
<1> QED BY <1>3, <1>4

\* Arming, of a goroutine that is alone.
LEMMA SiblingsArm ==
  ASSUME TypeInv, OwnTier, Confirming, NEW a \in Actors, \A b \in Actors : b = a, Arm(a)
  PROVE  OwnTier' /\ Confirming'
<1>1. OrdersOK /\ RestOK /\ ActsOK /\ Acting(act[a])
  BY Parts DEF ActsOK
<1>2. Only(a)
  BY <1>1, SelectActs, BeginActs, LookActs, ClaimActs, RefusedActs, PlacedActs, ConfirmActs,
     UnseenActs DEF Arm
<1>3. Actors' = Actors
  BY <1>2 DEF Only, Actors
<1>4. CASE Placed(a)
  <2> DEFINE t == act[a].tier
  <2>1. /\ act'[a].pc = "confirm" /\ act'[a].tier = t /\ t \in Tiers
        /\ act'[a].new \in FreeIds
        /\ act'[a].old = 0 \/ \E p \in Replaced(a) : act'[a].old = p.id
        /\ UNCHANGED rec
    BY <1>4, PlacedActs DEF Placed
  <2>2. PICK o \in Order :
          /\ o.id = act'[a].new /\ o.tier = t
          /\ orders' \subseteq orders \cup {o}
    BY <1>4, PlacedActs, CollapsedFewer
  <2>3. o.id \notin Claimed /\ o.id # 0 /\ \A p \in orders : p.id # o.id
    BY <2>1, <2>2, BoundsAssumption DEF FreeIds
  <2>4. \A u \in Tiers : rec[u].id # o.id
    BY <2>3 DEF Claimed
  <2>5. OwnTier'
    BY <2>1, <2>2, <2>4 DEF OwnTier
  <2>6. ASSUME NEW p \in orders', p.id = act'[a].new PROVE p.tier = t
    BY <2>2, <2>3, <2>6
  <2>7. ASSUME NEW p \in orders', p.id = act'[a].old, NEW u \in Tiers, rec[u].id = p.id
        PROVE  u = t
    <3>1. p \in orders
      BY <2>2, <2>4, <2>7
    <3>2. p.id # 0
      BY <1>1, <3>1, BoundsAssumption DEF OrdersOK, Order
    <3>3. PICK q \in Replaced(a) : q.id = p.id
      BY <2>1, <2>7, <3>2
    <3> QED BY <2>1, <2>7, <3>3, NotASiblings
  <2>8. Confirming'
    BY <1>3, <2>1, <2>6, <2>7 DEF Confirming
  <2> QED BY <2>5, <2>8
<1>5. CASE Confirm(a)
  <2>1. /\ act[a].pc = "confirm" /\ act'[a].pc = "next" /\ act[a].tier \in Tiers
        /\ orders' \subseteq orders
        /\ \E d \in BOOLEAN : rec' = [rec EXCEPT ![act[a].tier] = [id |-> act[a].new, deliberate |-> d]]
    BY <1>5, ConfirmActs
  <2>2. \A t \in Tiers : rec'[t].id = IF t = act[a].tier THEN act[a].new ELSE rec[t].id
    BY <1>1, <2>1 DEF RestOK
  <2>3. OwnTier'
    <3> SUFFICES ASSUME NEW t \in Tiers, NEW o \in orders', o.id = rec'[t].id PROVE o.tier = t
      BY DEF OwnTier
    <3>1. CASE t = act[a].tier
      BY <2>1, <2>2, <3>1 DEF Confirming
    <3>2. CASE t # act[a].tier
      BY <2>1, <2>2, <3>2 DEF OwnTier
    <3> QED BY <3>1, <3>2
  <2>4. Confirming'
    BY <1>3, <2>1 DEF Confirming
  <2> QED BY <2>3, <2>4
<1>6. CASE Select(a) \/ Begin(a) \/ Look(a) \/ Claim(a) \/ Refused(a) \/ Unseen(a)
  <2>1. orders' \subseteq orders
    <3>1. CASE Look(a)
      BY <3>1, LookActs
    <3>2. CASE Refused(a)
      BY <3>2, RefusedActs, CollapsedFewer
    <3>3. CASE Select(a) \/ Begin(a) \/ Claim(a) \/ Unseen(a)
      BY <3>3 DEF Select, Begin, Claim, Unseen
    <3> QED BY <1>6, <3>1, <3>2, <3>3
  <2>2. act'[a].pc # "confirm"
    BY <1>1, <1>6, SelectActs, BeginActs, LookActs, ClaimActs, RefusedActs, UnseenActs
  <2>3. UNCHANGED rec
    BY <1>6 DEF Select, Begin, Look, Claim, Refused, Unseen
  <2> QED BY <1>3, <2>1, <2>2, <2>3, SameTiers
<1> QED BY <1>4, <1>5, <1>6 DEF Arm

\* The exchange, the clock and a restart.
LEMMA SiblingsOutside ==
  ASSUME TypeInv, OwnTier, Confirming, Move \/ Lose \/ Tick \/ Restart
  PROVE  OwnTier' /\ Confirming'
<1>1. OrdersOK
  BY Parts
<1>2. CASE Move
  <2> DEFINE reached == {o \in orders : o.st = "resting" /\ MinProfit[o.tier] <= pnl'}
  <2>1. PICK phantoms \in SUBSET reached :
          orders' = (orders \ reached)
                      \cup {[o EXCEPT !.st = "phantom"] : o \in phantoms}
                      \cup {[o EXCEPT !.st = "active"] : o \in reached \ phantoms}
    BY <1>2 DEF Move
  <2>2. \A o \in orders : /\ [o EXCEPT !.st = "phantom"].id = o.id /\ [o EXCEPT !.st = "phantom"].tier = o.tier
                          /\ [o EXCEPT !.st = "active"].id = o.id /\ [o EXCEPT !.st = "active"].tier = o.tier
    BY <1>1 DEF OrdersOK, Order
  <2>3. ASSUME NEW p \in orders' PROVE \E o \in orders : o.id = p.id /\ o.tier = p.tier
    <3>1. PICK o \in orders : \/ p = o \/ p = [o EXCEPT !.st = "phantom"]
                              \/ p = [o EXCEPT !.st = "active"]
      BY <2>1
    <3> QED BY <2>2, <3>1
  <2>4. UNCHANGED <<rec, act>>
    BY <1>2 DEF Move
  <2> QED BY <2>3, <2>4, SameTiers DEF Actors
<1>3. CASE Lose \/ Tick
  <2>1. orders' \subseteq orders /\ UNCHANGED <<rec, act>>
    BY <1>3 DEF Lose, Tick
  <2> QED BY <2>1, SameTiers DEF Actors
<1>4. CASE Restart
  <2>1. orders' \subseteq orders /\ UNCHANGED rec /\ act' = [a \in Actors |-> Idle]
    BY <1>4 DEF Restart
  <2>2. Actors' = Actors /\ \A a \in Actors : act'[a].pc = "idle"
    BY <2>1 DEF Actors, Idle
  <2> QED BY <2>1, <2>2, SameTiers
<1> QED BY <1>2, <1>3, <1>4

\* The monitor and the reconciler besides arming; what the reconciler adopts is
\* recorded for the order's own tier.
LEMMA SiblingsLoops ==
  ASSUME TypeInv, OwnTier, Confirming, \A a, b \in Actors : a = b, MonitorStep \/ ReconcilerStep
  PROVE  OwnTier' /\ Confirming'
<1>1. OrdersOK /\ ActsOK
  BY Parts
<1>2. CASE MonitorStep
  <2>1. /\ "monitor" \in Actors /\ Only("monitor")
        /\ act'["monitor"].pc \in {"danger", "select", "account", "idle"}
        /\ orders' \subseteq orders /\ UNCHANGED rec
    BY <1>2, MonitorActs DEF MonitorStep
  <2>2. Actors' = Actors /\ \A a \in Actors : act'[a].pc # "confirm"
    BY <2>1 DEF Only, Actors
  <2> QED BY <2>1, <2>2, SameTiers
<1>3. CASE ReconcilePoll \/ CheckFails \/ CutDuplicates \/ ArmTriggered \/ EndReconcile
  <2>1. /\ "reconciler" \in Actors /\ Only("reconciler")
        /\ act'["reconciler"].pc \in {"check", "idle", "next"}
        /\ orders' \subseteq orders /\ UNCHANGED rec
    BY <1>3, ReconcilerActs
  <2>2. Actors' = Actors /\ \A a \in Actors : act'[a].pc # "confirm"
    BY <2>1 DEF Only, Actors
  <2> QED BY <2>1, <2>2, SameTiers
<1>4. CASE Check
  <2>1. /\ "reconciler" \in Actors /\ Only("reconciler")
        /\ act'["reconciler"].pc \in {"select", "cut"}
        /\ orders' = orders
        /\ \A t \in Tiers : \/ \E o \in Unexpected("reconciler") : o.tier = t /\ rec'[t].id = o.id
                            \/ rec'[t] = rec[t]
    BY <1>4, CheckActs
  <2>2. Actors' = Actors /\ \A a \in Actors : act'[a].pc # "confirm"
    BY <2>1 DEF Only, Actors
  <2>3. Unexpected("reconciler") \subseteq orders
    BY DEF Unexpected
  <2>4. OwnTier'
    BY <1>1, <2>1, <2>3 DEF OwnTier, OrdersOK
  <2>5. Confirming'
    BY <2>2 DEF Confirming
  <2> QED BY <2>4, <2>5
<1> QED BY <1>2, <1>3, <1>4 DEF ReconcilerStep

\* What arming takes off the exchange no sibling's record claims.
LEMMA ArmKeepsSiblings ==
  ASSUME TypeInv, OwnTier, Confirming, NEW a \in Actors, Arm(a),
         act[a].pc \in {"look", "place", "confirm"},
         NEW o \in orders \ orders', NEW t \in Tiers, rec[t].id = o.id
  PROVE  t = act[a].tier
<1>1. Acting(act[a]) /\ act[a].tier \in Tiers /\ OrdersOK
  BY Parts DEF ActsOK, Acting
<1>2. o.id # 0
  BY <1>1, BoundsAssumption DEF OrdersOK, Order
<1>3. CASE Look(a)
  BY <1>1, <1>3, LookActs, NotASiblings
<1>4. CASE Refused(a) \/ Placed(a)
  <2>1. o \notin Collapsed(a)
    BY <1>4, RefusedActs, PlacedActs, CollapsedFewer
  <2>2. o.id \notin ClaimedByOthers(act[a].tier)
    BY <2>1 DEF Collapsed
  <2> QED BY <1>2, <2>2 DEF ClaimedByOthers
<1>5. CASE Confirm(a)
  <2>1. act[a].pc = "confirm" /\ o.id = act[a].old
    BY <1>5, ConfirmActs
  <2> QED BY <2>1 DEF Confirming
<1>6. CASE Unseen(a)
  BY <1>6 DEF Unseen
<1>7. Look(a) \/ Refused(a) \/ Placed(a) \/ Confirm(a) \/ Unseen(a)
  BY DEF Arm, Select, Begin, Claim
<1> QED BY <1>3, <1>4, <1>5, <1>6, <1>7

\* With one goroutine at work, neither the collapse of the partial tiers under a
\* full one, nor the replacement of a tier's order, nor the cancelling of a stuck
\* one ever takes off the order a sibling's ledger record claims.
THEOREM SiblingsRest == Alone => (Spec => SiblingsKept)
<1> SUFFICES ASSUME Alone PROVE Spec => SiblingsKept
  OBVIOUS
<1> DEFINE Inv == TypeInv /\ OwnTier /\ Confirming
<1>1. Init => Inv
  <2>1. ASSUME Init PROVE OwnTier /\ Confirming
    BY <2>1 DEF Init, OwnTier, Confirming
  <2> QED BY <2>1, StartTyped
<1>2. TypeInv => \A a, b \in Actors : a = b
  BY Parts DEF Alone, ActsOK
<1>3. Inv /\ [Next]_vars => Inv'
  <2> SUFFICES ASSUME TypeInv, OwnTier, Confirming, [Next]_vars PROVE Inv'
    OBVIOUS
  <2>1. TypeInv'
    BY Typed
  <2>2. CASE UNCHANGED vars
    <3>1. UNCHANGED <<orders, rec, act>>
      BY <2>2 DEF vars
    <3> QED BY <2>1, <3>1, SameTiers DEF Actors
  <2>3. CASE Next
    <3>1. OwnTier' /\ Confirming'
      BY <1>2, <2>3, SiblingsOutside, SiblingsArm, SiblingsLoops DEF Next
    <3> QED BY <2>1, <3>1
  <2> QED BY <2>2, <2>3
<1>4. Inv /\ [Next]_vars => [SiblingKept]_vars
  <2> SUFFICES ASSUME TypeInv, OwnTier, Confirming, Next,
                      NEW a \in Actors,
                      act[a].pc \in {"look", "place", "confirm"} /\ act'[a] # act[a] /\ act'[a].pc # "idle",
                      NEW o \in orders, \A p \in orders' : p.id # o.id,
                      NEW t \in Tiers, rec[t].id = o.id
               PROVE  t = act[a].tier
    BY DEF SiblingKept
  <2>1. o \in orders \ orders'
    OBVIOUS
  <2>2. ~(Move \/ Lose \/ Tick \/ Restart)
    BY DEF Move, Lose, Tick, Restart, Idle
  <2>3. ~MonitorStep
    BY <1>2 DEF MonitorStep, Poll, CancelDangerous, ToAccount, Account, AllDone
  <2>4. ~ReconcilerStep
    BY <1>2 DEF ReconcilerStep, ReconcilePoll, Check, CheckFails, CutDuplicates, ArmTriggered,
                EndReconcile, AllDone
  <2>5. PICK b \in Actors : Arm(b)
    BY <2>2, <2>3, <2>4 DEF Next
  <2>6. b = a
    BY <1>2
  <2> QED BY <2>1, <2>5, <2>6, ArmKeepsSiblings
<1> QED BY <1>1, <1>3, <1>4, PTL DEF Spec, SiblingsKept
=============================================================================
