---------------------------- MODULE CloseIntents ----------------------------
(***************************************************************************)
(* The close-intent ledger (store/close_intent.go) of one trader, symbol   *)
(* and side: who writes intents, how the fill sync matches a close fill to *)
(* one (order id, trigger price, time window), and what a full close       *)
(* expires.                                                                *)
(*                                                                         *)
(* An order reaches the exchange before its intent reaches the table, so   *)
(* the sync may meet a fill whose intent is still `unwritten'.  Selecting  *)
(* an intent and marking it consumed are two statements.                   *)
(*                                                                         *)
(* Data abstracted: a position has Lots lots and every fill is one lot;    *)
(* prices are levels, seen from a long position (a short one mirrors       *)
(* them); reasons are the ones the matchers tell apart; `pos' of an intent *)
(* and `cause' of a fill are what really happened, the code does not have  *)
(* them.  A fill whose order carries its coded client id is `exact'.       *)
(***************************************************************************)
EXTENDS Integers, Sequences, FiniteSets

CONSTANTS
  MaxPos,     \* bound: positions opened one after the other
  Lots,       \* lots of a position
  MaxTime,    \* bound on the clock
  Tiers,      \* protection orders the bot places: [reason, trigger]
  Prices,     \* price levels
  Tol,        \* tolerance on the slippage side, in levels
  Window,     \* the +-5 minutes of the last-resort match
  StaleAfter, \* the 72 hours after which an intent is pruned
  WithIds,    \* {TRUE}: every order result carries its id
  Sweeping,   \* the absence sweep closes rows without expiring intents
  Manual,     \* the positions that are closed from the dashboard
  Prompt      \* the intents of a position are written before the next one opens

ASSUME IntentsAssumption ==
  /\ Lots \in Nat \ {0} /\ {MaxPos, MaxTime, Tol, Window, StaleAfter} \subseteq Nat
  /\ Tiers \subseteq [reason : {"sl", "tp"}, trigger : Nat \ {0}]
  /\ Prices \subseteq Nat /\ Prices # {}
  /\ WithIds \subseteq BOOLEAN /\ {Sweeping, Prompt} \subseteq BOOLEAN
  /\ Manual \subseteq Nat

VARIABLES
  now,
  held,       \* the exchange's position: [pos, lots], pos = 0 when flat
  entered,    \* entry time of the positions opened so far
  resting,    \* protection orders on the exchange
  fills,      \* the exchange's trades, oldest first
  unwritten,  \* intents whose order is placed and that are not recorded yet
  intents,    \* the table close_intents, a row's id is its index
  row,        \* the open row of the position ledger: [pos, lots]
  manual,     \* manual closes placed and not yet applied by their handler
  sync        \* the fill sync: [pc, upto, next, found], and what it has `said'

exchange == <<held, entered, resting, fills>>
vars == <<now, held, entered, resting, fills, unwritten, intents, row, manual, sync>>

Flat == [pos |-> 0, lots |-> 0]

Causes == {"open", "sl", "tp", "ai", "manual"}

Fill == [open : BOOLEAN, pos : 1..MaxPos, order : Nat, cause : Causes,
         exact : BOOLEAN, price : Prices, time : 0..MaxTime]

Intent == [order : Nat, reason : Causes \cup {"pruned"}, trigger : Nat, pos : 1..MaxPos,
           time : 0..MaxTime, consumed : BOOLEAN]

TypeOK ==
  /\ now \in 0..MaxTime
  /\ held \in [pos : 0..MaxPos, lots : 0..Lots]
  /\ row \in [pos : 0..MaxPos, lots : Int]
  /\ entered \in Seq(0..MaxTime) /\ Len(entered) <= MaxPos
  /\ resting \subseteq Tiers
  /\ fills \in Seq(Fill)
  /\ intents \in Seq(Intent)
  /\ \A w \in unwritten : w \in Intent
  /\ manual \subseteq unwritten
  /\ sync.pc \in {"next", "mark", "apply"}
  /\ sync.upto \in 0..Len(fills) /\ sync.next \in 1..sync.upto + 1
  /\ sync.found \in 0..Len(intents)
  /\ Len(sync.said) = IF sync.pc = "next" THEN sync.next - 1 ELSE sync.next

Init ==
  /\ now = 0
  /\ held = Flat
  /\ entered = <<>>
  /\ resting = {}
  /\ fills = <<>>
  /\ unwritten = {}
  /\ intents = <<>>
  /\ row = Flat
  /\ manual = {}
  /\ sync = [pc |-> "next", upto |-> 0, next |-> 1, found |-> 0, said |-> <<>>]

-----------------------------------------------------------------------------
(* The exchange, the bot's orders and the intents it writes *)

Later == now < MaxTime /\ now' = now + 1

Tick == Later /\ UNCHANGED <<exchange, unwritten, intents, row, manual, sync>>

\* Orders are numbered by their first fill.
NextOrder == Len(fills) + 1

Trade(pos, cause, exact, price) ==
  [open |-> cause = "open", pos |-> pos, order |-> NextOrder, cause |-> cause,
   exact |-> exact, price |-> price, time |-> now']

OpenPosition ==
  /\ held = Flat /\ Len(entered) < MaxPos
  /\ Prompt => unwritten = {}
  /\ Later
  /\ held' = [pos |-> Len(entered) + 1, lots |-> Lots]
  /\ entered' = Append(entered, now')
  /\ fills' = Append(fills, Trade(held'.pos, "open", TRUE, CHOOSE p \in Prices : TRUE))
  /\ UNCHANGED <<resting, unwritten, intents, row, manual, sync>>

\* The intent of an order the bot has just placed for the position.
Written(order, reason, trigger) ==
  [order |-> order, reason |-> reason, trigger |-> trigger, pos |-> held.pos,
   time |-> now, consumed |-> FALSE]

\* The bot records the intent of one order before it places the next one.
Idle == unwritten = manual

\* Bound: a position gets each tier once.
PlacedBefore(t) == \E i \in DOMAIN intents : /\ intents[i].pos = held.pos
                                               /\ intents[i].reason = t.reason
                                               /\ intents[i].trigger = t.trigger

\* Tiers are placed when the position is opened or its stop is moved.
PlaceProtection(t) ==
  /\ held # Flat
  /\ t \notin resting
  /\ Idle /\ ~PlacedBefore(t)
  /\ resting' = resting \cup {t}
  /\ unwritten' = unwritten \cup {Written(0, t.reason, t.trigger)}
  /\ UNCHANGED <<now, held, entered, fills, intents, row, manual, sync>>

Left(n) == IF held.lots <= n THEN Flat ELSE [held EXCEPT !.lots = held.lots - n]

\* A resting tier fires, with slippage on the adverse side only.
Slipped(t) ==
  IF t.reason = "sl" THEN {p \in Prices : p <= t.trigger /\ t.trigger <= p + Tol}
                     ELSE {p \in Prices : p >= t.trigger /\ p <= t.trigger + Tol}

TierFires(t, exact) ==
  /\ held # Flat /\ t \in resting
  /\ Later
  /\ held' = Left(1)
  /\ resting' = IF held' = Flat THEN {} ELSE resting \ {t}
  /\ \E p \in Slipped(t) :
       fills' = Append(fills, Trade(held.pos, t.reason, exact, p))
  /\ UNCHANGED <<entered, unwritten, intents, row, manual, sync>>

\* A market close of the whole position: one order, one fill per lot.
MarketClose(reason, withId) ==
  LET w == Written(IF withId THEN NextOrder ELSE 0, reason, 0)
  IN /\ held # Flat
     /\ Later
     /\ held' = Flat
     /\ resting' = {}
     /\ \E p \in Prices :
          fills' = fills \o [i \in 1..held.lots |-> Trade(held.pos, reason, FALSE, p)]
     /\ unwritten' = unwritten \cup {w}
     /\ manual' = IF reason = "manual" THEN manual \cup {w} ELSE manual
     /\ UNCHANGED <<entered, intents, row, sync>>

ClosePositionByReason(withId) == held.pos \notin Manual /\ Idle /\ MarketClose("ai", withId)

\* The dashboard's handler always has the id, else it records nothing.
ManualClose == held.pos \in Manual /\ MarketClose("manual", TRUE)

\* Record and RecordProtection: intent_time is the time of the write.
Record(w) ==
  /\ w \in unwritten \ manual
  /\ unwritten' = unwritten \ {w}
  /\ intents' = Append(intents, [w EXCEPT !.time = now])
  /\ UNCHANGED <<now, exchange, row, manual, sync>>

-----------------------------------------------------------------------------
(* The queries of the store *)

\* Mutant: the lookup by order id skips consumed intents.
UnconsumedOrderOnly(order) ==
  {i \in DOMAIN intents : order # 0 /\ intents[i].order = order /\ ~intents[i].consumed}

\* Not gated on consumed: an order has many fills.
MatchByOrderID(order) ==
  {i \in DOMAIN intents : order # 0 /\ intents[i].order = order}

\* A stop fills at or below its trigger, a take-profit at or above it.
PossibleSide(reason, trigger, price) ==
  IF reason = "sl" THEN price <= trigger ELSE price >= trigger

Distance(trigger, price) == IF trigger > price THEN trigger - price ELSE price - trigger

\* Mutant: any intent within the band, consumed or not.
TriggerPriceReused(price, notBefore) ==
  {i \in DOMAIN intents : /\ intents[i].trigger > 0
                          /\ Distance(intents[i].trigger, price) <= Tol
                          /\ intents[i].time >= notBefore
                          /\ PossibleSide(intents[i].reason, intents[i].trigger, price)}

TriggerPriceCandidates(price, notBefore) ==
  {i \in DOMAIN intents : /\ ~intents[i].consumed
                          /\ intents[i].trigger > 0
                          /\ Distance(intents[i].trigger, price) <= Tol
                          /\ intents[i].time >= notBefore
                          /\ PossibleSide(intents[i].reason, intents[i].trigger, price)}

\* The closest trigger.
MatchByTriggerPrice(price, notBefore) ==
  LET S == TriggerPriceCandidates(price, notBefore)
  IN {i \in S : \A j \in S : Distance(intents[i].trigger, price) <= Distance(intents[j].trigger, price)}

\* Protection placements are excluded: they are matched by their trigger.
MatchByWindow(t) ==
  {i \in DOMAIN intents : /\ ~intents[i].consumed
                          /\ intents[i].trigger = 0
                          /\ intents[i].time \in t - Window..t + Window}

\* ORDER BY intent_time DESC, of one candidate set.
Newest(S) == {i \in S : \A j \in S : intents[j].time < intents[i].time
                                      \/ (intents[j].time = intents[i].time /\ i <= j)}

Expire(is, upTo) ==
  [i \in DOMAIN is |-> IF is[i].time <= upTo THEN [is[i] EXCEPT !.consumed = TRUE] ELSE is[i]]

-----------------------------------------------------------------------------
(* The fill sync *)

Cur == fills[sync.next]

\* Mutant: the search is not bounded by the entry of the open position.
Unbounded == 0

\* EntryTime of the open row, 0 when no row is open.
NotBefore == IF row = Flat THEN 0 ELSE entered[row.pos]

Said(via, i) == [via |-> via, intent |-> i, row |-> row.pos,
                 reason |-> IF via = "exact" THEN Cur.cause
                            ELSE IF i = 0 THEN "unresolved" ELSE intents[i].reason]

\* The cascade: coded id, order id, trigger price, window.
Attribution ==
  LET byOrder   == Newest(MatchByOrderID(Cur.order))
      byTrigger == Newest(MatchByTriggerPrice(Cur.price, NotBefore))
      byWindow  == Newest(MatchByWindow(Cur.time))
      first(S)  == CHOOSE i \in S : TRUE
  IN IF Cur.exact THEN Said("exact", 0)
     ELSE IF byOrder # {} THEN Said("order", first(byOrder))
     ELSE IF byTrigger # {} THEN Said("trigger", first(byTrigger))
     ELSE IF byWindow # {} THEN Said("window", first(byWindow))
     ELSE Said("none", 0)

Polling == sync.next <= sync.upto

TradesSoFar == Len(fills)

\* A poll handles the trades made until then.
Poll ==
  /\ ~Polling /\ TradesSoFar > sync.upto
  /\ sync' = [sync EXCEPT !.upto = TradesSoFar]
  /\ UNCHANGED <<now, exchange, unwritten, intents, row, manual>>

\* The SELECT of the match.
Match ==
  /\ sync.pc = "next" /\ Polling
  /\ LET a == IF Cur.open THEN [via |-> "open", intent |-> 0, row |-> row.pos, reason |-> "open"]
                          ELSE Attribution
     IN sync' = [sync EXCEPT !.pc = IF a.intent = 0 THEN "apply" ELSE "mark",
                             !.found = a.intent, !.said = Append(sync.said, a)]
  /\ UNCHANGED <<now, exchange, unwritten, intents, row, manual>>

Marked(i) == [intents EXCEPT ![i].consumed = TRUE]

\* UPDATE ... WHERE id = ? AND consumed = false; the row count is ignored.
Mark ==
  /\ sync.pc = "mark"
  /\ intents' = Marked(sync.found)
  /\ sync' = [sync EXCEPT !.pc = "apply"]
  /\ UNCHANGED <<now, exchange, unwritten, row, manual>>

\* Mutant: a full close expires the intents written after it too.
ExpireAll(is, t) == Expire(is, MaxTime)

\* ClosePositionFully: the open row is closed and its intents expire.
Expired(is, t) == Expire(is, t)

\* ProcessTrade of n lots at time t on the open row.
HandleClose(n, t) ==
  IF row = Flat THEN UNCHANGED <<row, intents>>
  ELSE IF n < row.lots
       THEN row' = [row EXCEPT !.lots = row.lots - n] /\ UNCHANGED intents
       ELSE row' = Flat /\ intents' = Expired(intents, t)

HandleOpen ==
  /\ row' = IF row = Flat THEN [pos |-> Cur.pos, lots |-> Lots]
                          ELSE [row EXCEPT !.lots = row.lots + Lots]
  /\ UNCHANGED intents

ProcessTrade ==
  /\ sync.pc = "apply"
  /\ IF Cur.open THEN HandleOpen ELSE HandleClose(1, Cur.time)
  /\ sync' = [sync EXCEPT !.pc = "next", !.next = sync.next + 1, !.found = 0]
  /\ UNCHANGED <<now, exchange, unwritten, manual>>

\* recordManualClosePosition: the handler applies the whole close itself,
\* then its intent is recorded.
ApplyManual(w) ==
  /\ w \in manual
  /\ manual' = manual \ {w}
  /\ HandleClose(Lots, now)
  /\ UNCHANGED <<now, exchange, unwritten, sync>>

\* MarkOpenPositionsAbsentFromExchangeClosed expires no intent.
Sweep ==
  /\ Sweeping /\ held = Flat /\ row # Flat
  /\ row' = Flat
  /\ UNCHANGED <<now, exchange, unwritten, intents, manual, sync>>

\* PruneStale runs between polls and deletes: a deleted intent is one that
\* can never match again.
PruneStale ==
  /\ ~Polling
  /\ \E i \in DOMAIN intents : intents[i].time < now - StaleAfter /\ intents[i].reason # "pruned"
  /\ intents' = [i \in DOMAIN intents |->
                   IF intents[i].time < now - StaleAfter
                   THEN [intents[i] EXCEPT !.consumed = TRUE, !.order = 0, !.reason = "pruned"]
                   ELSE intents[i]]
  /\ UNCHANGED <<now, exchange, unwritten, row, manual, sync>>

Next ==
  \/ Tick \/ OpenPosition
  \/ \E t \in Tiers : PlaceProtection(t)
  \/ \E t \in Tiers, e \in BOOLEAN : TierFires(t, e)
  \/ \E b \in WithIds : ClosePositionByReason(b)
  \/ ManualClose
  \/ \E w \in unwritten : Record(w)
  \/ Poll \/ Match \/ Mark \/ ProcessTrade
  \/ \E w \in manual : ApplyManual(w)
  \/ Sweep \/ PruneStale

Spec == Init /\ [][Next]_vars

-----------------------------------------------------------------------------
(* Properties *)

SaidOf(f) == sync.said[f]
Attributed == DOMAIN sync.said

\* All fills of one close order carry one reason once one of them was matched
\* by order id, although that match has consumed the intent and the position's
\* close expires it (close_intent.go:258, "Every one of those fills must
\* resolve to the same reason").
OneReasonPerOrder ==
  \A f, g \in Attributed :
    (f < g /\ fills[f].order = fills[g].order /\ SaidOf(f).via = "order")
      => SaidOf(g).reason = SaidOf(f).reason

\* A protection intent, and one matched by time window, explains one fill only.
IntentExplainsOneFill ==
  \A f, g \in Attributed :
    (f # g /\ SaidOf(f).via \in {"trigger", "window"} /\ SaidOf(g).via \in {"trigger", "window"})
      => SaidOf(f).intent # SaidOf(g).intent

\* A close synced while its position's row is open is never explained by a
\* protection order of an earlier position (close_intent.go:143).
NoTierOfAnEarlierPosition ==
  \A f \in Attributed :
    (SaidOf(f).via = "trigger" /\ SaidOf(f).row = fills[f].pos)
      => intents[SaidOf(f).intent].pos >= fills[f].pos

\* The tiers of the position that is live are used up by fills only, never by
\* the close of an earlier position or by pruning, unless it is held longer
\* than a pruned intent lives.
LiveTiersKept ==
  \A i \in DOMAIN intents :
    (/\ intents[i].consumed /\ intents[i].trigger > 0
     /\ intents[i].pos = held.pos /\ entered[held.pos] >= now - StaleAfter)
      => \E f \in Attributed : SaidOf(f).intent = i
=============================================================================
