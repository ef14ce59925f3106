------------------------ MODULE CloseIntents_proofs ------------------------
(***************************************************************************)
(* Theorems about CloseIntents, for any number of positions, lots, tiers,  *)
(* prices and windows.                                                     *)
(***************************************************************************)
EXTENDS CloseIntents, SequenceTheorems, TLAPS

-----------------------------------------------------------------------------
(* Types *)

SaidRecord == [via : {"open", "exact", "order", "trigger", "window", "none"},
               intent : Nat, row : Nat, reason : Causes \cup {"pruned", "unresolved"}]

Held == {Flat} \cup [pos : {Len(entered)} \ {0}, lots : 1 .. Lots]
OpenRow == {Flat} \cup [pos : 1 .. Len(entered), lots : Int]

\* The fill sync has said something of every trade before the next one, and of
\* that one, too, while it is being booked.
Synced ==
  /\ sync \in [pc : {"next", "mark", "apply"}, upto : Nat, next : Nat \ {0},
               found : Nat, said : Seq(SaidRecord)]
  /\ sync.upto <= Len(fills)
  /\ sync.next <= (IF sync.pc = "next" THEN sync.upto + 1 ELSE sync.upto)
  /\ Len(sync.said) = (IF sync.pc = "next" THEN sync.next - 1 ELSE sync.next)
  /\ sync.pc = "mark" => sync.found \in DOMAIN intents

Types ==
  /\ now \in 0 .. MaxTime
  /\ entered \in Seq(0 .. MaxTime) /\ Len(entered) <= MaxPos
  /\ held \in Held
  /\ row \in OpenRow
  /\ fills \in Seq(Fill)
  /\ intents \in Seq(Intent)
  /\ unwritten \subseteq Intent
  /\ \A f \in DOMAIN fills : fills[f].pos <= Len(entered)
  /\ Synced

\* A trade of the position that is held, or of the one being opened.
LEMMA TradeType ==
  ASSUME Types, Later, NEW pos \in 1 .. MaxPos, NEW cause \in Causes, NEW exact \in BOOLEAN,
         NEW price \in Prices
  PROVE  Trade(pos, cause, exact, price) \in Fill
<1>1. Len(fills) \in Nat
  BY DEF Types
<1>2. now' \in 0 .. MaxTime
  BY IntentsAssumption DEF Types, Later
<1>3. (cause = "open") \in BOOLEAN
  OBVIOUS
<1> QED BY <1>1, <1>2, <1>3 DEF Trade, NextOrder, Fill

\* What the exchange holds is the position entered last.
LEMMA HeldType ==
  ASSUME Types, held # Flat
  PROVE  /\ held.pos = Len(entered) /\ held.pos \in 1 .. MaxPos
         /\ held.lots \in 1 .. Lots
         /\ \A n \in Nat \ {0} : Left(n) \in Held
<1>1. Len(entered) \in Nat /\ Lots \in Nat /\ MaxPos \in Nat
  BY IntentsAssumption DEF Types
<1>2. held \in [pos : {Len(entered)} \ {0}, lots : 1 .. Lots]
  BY DEF Types, Held
<1>3. held.pos = Len(entered) /\ held.pos # 0 /\ held.lots \in 1 .. Lots
  BY <1>2
<1>4. held.pos \in 1 .. MaxPos
  BY <1>1, <1>3 DEF Types
<1>5. ASSUME NEW n \in Nat \ {0}
      PROVE  Left(n) \in Held
  <2>1. CASE held.lots <= n
    BY <2>1 DEF Left, Held
  <2>2. CASE ~(held.lots <= n)
    <3>1. held.lots - n \in 1 .. Lots
      BY <1>1, <1>3, <2>2
    <3> QED BY <1>2, <2>2, <3>1 DEF Left, Held
  <2> QED BY <2>1, <2>2
<1> QED BY <1>3, <1>4, <1>5

\* The parts of the type that an action leaves alone.
LEMMA SyncedKept ==
  ASSUME Types, sync' = sync, fills \in Seq(Fill), fills' \in Seq(Fill), Len(fills) <= Len(fills'),
         DOMAIN intents \subseteq DOMAIN intents'
  PROVE  Synced'
<1>1. Len(fills) \in Nat /\ Len(fills') \in Nat /\ sync.upto \in Nat
  BY DEF Types, Synced
<1>2. sync.upto <= Len(fills')
  BY <1>1 DEF Types, Synced
<1> QED BY <1>2 DEF Types, Synced

-----------------------------------------------------------------------------
(* The exchange *)

\* Time passes, a position is opened.
LEMMA OpenTypes == ASSUME Types, OpenPosition PROVE Types'
<1> DEFINE trade == Trade(held'.pos, "open", TRUE, CHOOSE p \in Prices : TRUE)
<1>1. Len(entered) \in Nat /\ MaxPos \in Nat /\ Len(entered) + 1 \in 1 .. MaxPos /\ Lots \in Nat \ {0}
  BY IntentsAssumption DEF Types, OpenPosition
<1>2. now' \in 0 .. MaxTime
  BY IntentsAssumption DEF Types, OpenPosition, Later
<1>3. /\ entered' \in Seq(0 .. MaxTime) /\ Len(entered') = Len(entered) + 1
  BY <1>2, AppendProperties DEF Types, OpenPosition
<1>4. held'.pos = Len(entered) + 1 /\ held' \in Held'
  BY <1>1, <1>3 DEF OpenPosition, Held
<1>5. trade \in Fill /\ trade.pos = Len(entered) + 1
  <2>1. (CHOOSE p \in Prices : TRUE) \in Prices
    BY IntentsAssumption
  <2>2. held'.pos \in 1 .. MaxPos /\ Later
    BY <1>1, <1>4 DEF OpenPosition
  <2>3. \A p \in Prices : Trade(held'.pos, "open", TRUE, p) \in Fill
    <3> SUFFICES ASSUME NEW p \in Prices, NEW pos \in 1 .. MaxPos PROVE Trade(pos, "open", TRUE, p) \in Fill
      BY <2>2
    <3>1. TRUE \in BOOLEAN
      OBVIOUS
    <3>2. "open" \in Causes
      BY DEF Causes
    <3> QED BY <2>2, <3>1, <3>2, TradeType
  <2>4. trade \in Fill
    BY <2>1, <2>3
  <2>5. trade.pos = held'.pos
    BY DEF Trade
  <2> QED BY <1>4, <2>4, <2>5
<1>6. /\ fills' \in Seq(Fill) /\ Len(fills') = Len(fills) + 1
      /\ \A f \in 1 .. Len(fills) : fills'[f] = fills[f]
      /\ fills'[Len(fills) + 1] = trade
  <2> HIDE DEF trade
  <2>1. fills \in Seq(Fill)
    BY DEF Types
  <2>2. fills' = Append(fills, trade)
    BY DEF OpenPosition, trade
  <2> QED BY <1>5, <2>1, <2>2, AppendProperties
<1>7. \A f \in DOMAIN fills' : fills'[f].pos <= Len(entered')
  <2> HIDE DEF trade
  <2>1. Len(fills) \in Nat /\ DOMAIN fills = 1 .. Len(fills) /\ DOMAIN fills' = 1 .. Len(fills) + 1
    BY <1>6 DEF Types
  <2>2. \A f \in 1 .. Len(fills) : fills[f].pos \in Nat /\ fills[f].pos <= Len(entered)
    <3>1. \A f \in 1 .. Len(fills) : fills[f] \in Fill
      BY <2>1 DEF Types
    <3>2. \A f \in 1 .. Len(fills) : fills[f].pos \in 1 .. MaxPos
      BY <3>1 DEF Fill
    <3>3. \A f \in 1 .. Len(fills) : fills[f].pos <= Len(entered)
      BY <2>1 DEF Types
    <3> QED BY <1>1, <3>2, <3>3
  <2> QED BY <1>1, <1>3, <1>5, <1>6, <2>1, <2>2
<1>8. row' \in OpenRow'
  BY <1>1, <1>3 DEF Types, OpenPosition, OpenRow
<1>9. Synced'
  <2>1. Len(fills) \in Nat
    BY DEF Types
  <2> HIDE DEF trade
  <2> QED BY <1>6, <2>1, SyncedKept DEF Types, OpenPosition
<1>10. intents' \in Seq(Intent) /\ unwritten' \subseteq Intent
  BY DEF Types, OpenPosition
<1>11. Len(entered') <= MaxPos
  BY <1>1, <1>3
<1> QED
  <2> HIDE DEF trade
  <2> QED BY <1>2, <1>3, <1>4, <1>6, <1>7, <1>8, <1>9, <1>10, <1>11 DEF Types

\* Trades of the position that is held are appended.
LEMMA CloseTypes ==
  ASSUME Types, Later, held # Flat, held' \in Held, UNCHANGED <<entered, intents, row, sync>>,
         unwritten' \subseteq Intent, NEW new \in Seq(Fill), fills' = fills \o new,
         \A i \in DOMAIN new : new[i].pos = held.pos
  PROVE  Types'
<1>1. /\ fills' \in Seq(Fill) /\ Len(fills') = Len(fills) + Len(new)
      /\ \A f \in 1 .. Len(fills) + Len(new) :
           fills'[f] = IF f <= Len(fills) THEN fills[f] ELSE new[f - Len(fills)]
  BY ConcatProperties DEF Types
<1>2. Len(fills) \in Nat /\ Len(new) \in Nat /\ DOMAIN fills = 1 .. Len(fills)
      /\ DOMAIN new = 1 .. Len(new) /\ DOMAIN fills' = 1 .. Len(fills) + Len(new)
  BY <1>1 DEF Types
<1>3. \A f \in DOMAIN fills' : fills'[f].pos <= Len(entered)
  <2> SUFFICES ASSUME NEW f \in DOMAIN fills' PROVE fills'[f].pos <= Len(entered)
    OBVIOUS
  <2>1. CASE f <= Len(fills)
    BY <1>1, <1>2, <2>1 DEF Types
  <2>2. CASE ~(f <= Len(fills))
    <3>1. f - Len(fills) \in DOMAIN new /\ fills'[f] = new[f - Len(fills)]
      BY <1>1, <1>2, <2>2
    <3>2. Len(entered) \in Nat
      BY DEF Types
    <3> QED BY <3>1, <3>2, HeldType
  <2> QED BY <2>1, <2>2
<1>4. now' \in 0 .. MaxTime
  BY IntentsAssumption DEF Types, Later
<1>5. Synced'
  BY <1>1, <1>2, SyncedKept DEF Types
<1> QED BY <1>1, <1>3, <1>4, <1>5 DEF Types, Held, OpenRow

\* One lot of a tier that fires.
LEMMA FireTypes ==
  ASSUME Types, NEW t \in Tiers, NEW exact \in BOOLEAN, TierFires(t, exact)
  PROVE  Types'
<1>1. held # Flat /\ Later /\ held' = Left(1)
  BY DEF TierFires
<1>2. PICK p \in Slipped(t) : fills' = Append(fills, Trade(held.pos, t.reason, exact, p))
  BY DEF TierFires
<1>3. p \in Prices /\ t.reason \in Causes
  BY IntentsAssumption DEF Slipped, Causes
<1> DEFINE trade == Trade(held.pos, t.reason, exact, p)
<1>4. trade \in Fill /\ trade.pos = held.pos
  <2>1. trade \in Fill
    BY <1>1, <1>3, HeldType, TradeType
  <2> QED BY <2>1 DEF Trade
<1> HIDE DEF trade
<1>5. <<trade>> \in Seq(Fill) /\ fills' = fills \o <<trade>>
  <2>1. fills \in Seq(Fill) /\ fills' = Append(fills, trade)
    BY <1>2 DEF Types, trade
  <2> QED BY <1>4, <2>1, AppendIsConcat
<1>6. \A i \in DOMAIN <<trade>> : <<trade>>[i].pos = held.pos
  BY <1>4
<1>7. held' \in Held
  BY <1>1, HeldType
<1>8. UNCHANGED <<entered, intents, row, sync>> /\ unwritten' \subseteq Intent
  BY DEF TierFires, Types
<1> QED BY <1>1, <1>5, <1>6, <1>7, <1>8, CloseTypes

\* What a close order leaves to be written down is an intent.
LEMMA WrittenType ==
  ASSUME Types, held # Flat, NEW order \in Nat, NEW reason \in Causes, NEW trigger \in Nat
  PROVE  Written(order, reason, trigger) \in Intent
<1>1. held.pos \in 1 .. MaxPos /\ now \in 0 .. MaxTime
  BY HeldType DEF Types
<1>2. FALSE \in BOOLEAN
  OBVIOUS
<1> QED BY <1>1, <1>2 DEF Written, Intent

\* All lots of a market close.
LEMMA MarketTypes ==
  ASSUME Types, NEW reason \in {"ai", "manual"}, NEW withId \in BOOLEAN, MarketClose(reason, withId)
  PROVE  Types'
<1>1. held # Flat /\ Later /\ held' = Flat /\ reason \in Causes
  BY DEF MarketClose, Causes
<1>2. PICK p \in Prices :
        fills' = fills \o [i \in 1 .. held.lots |-> Trade(held.pos, reason, FALSE, p)]
  BY DEF MarketClose
<1> DEFINE trade == Trade(held.pos, reason, FALSE, p)
           new == [i \in 1 .. held.lots |-> trade]
<1>3. trade \in Fill /\ trade.pos = held.pos
  <2>0. FALSE \in BOOLEAN
    OBVIOUS
  <2>1. trade \in Fill
    BY <1>1, <2>0, HeldType, TradeType
  <2> QED BY <2>1 DEF Trade
<1>4. fills' = fills \o new
  BY <1>2
<1> HIDE DEF trade
<1>5. held.lots \in Nat
  BY <1>1, HeldType
<1>6. new \in Seq(Fill) /\ \A i \in DOMAIN new : new[i].pos = held.pos
  <2>1. new \in [1 .. held.lots -> Fill] /\ \A i \in DOMAIN new : new[i] = trade
    BY <1>3
  <2>2. new \in Seq(Fill)
    BY <1>3, <1>5, IsASeq
  <2> QED BY <1>3, <2>1, <2>2
<1>7. unwritten' \subseteq Intent
  <2>1. Len(fills) \in Nat
    BY DEF Types
  <2>2. (IF withId THEN NextOrder ELSE 0) \in Nat
    BY <2>1 DEF NextOrder
  <2>3. Written(IF withId THEN NextOrder ELSE 0, reason, 0) \in Intent
    BY <1>1, <2>2, WrittenType
  <2> QED BY <2>3 DEF MarketClose, Types
<1>8. held' \in Held /\ UNCHANGED <<entered, intents, row, sync>>
  BY <1>1 DEF MarketClose, Held
<1> HIDE DEF new
<1> QED BY <1>1, <1>4, <1>6, <1>7, <1>8, CloseTypes

-----------------------------------------------------------------------------
(* The table of intents *)

\* What no step takes back of a recorded intent.
Kept ==
  /\ DOMAIN intents \subseteq DOMAIN intents'
  /\ \A i \in DOMAIN intents :
       /\ intents'[i].pos = intents[i].pos
       /\ intents'[i].time = intents[i].time
       /\ intents'[i].trigger = intents[i].trigger
       /\ intents[i].consumed => intents'[i].consumed

\* Writing an intent down appends it and changes no other.
LEMMA RecordKeeps ==
  ASSUME Types, NEW w \in unwritten, Record(w)
  PROVE  /\ intents' \in Seq(Intent) /\ Kept
         /\ DOMAIN intents' = DOMAIN intents \cup {Len(intents) + 1}
         /\ \A i \in DOMAIN intents : intents'[i] = intents[i]
         /\ intents'[Len(intents) + 1] = [w EXCEPT !.time = now]
<1> DEFINE new == [w EXCEPT !.time = now]
<1>1. new \in Intent
  BY DEF Types, Intent
<1>2. intents \in Seq(Intent) /\ intents' = Append(intents, new)
  BY DEF Types, Record
<1> HIDE DEF new
<1>3. /\ intents' \in Seq(Intent) /\ Len(intents') = Len(intents) + 1
      /\ \A i \in 1 .. Len(intents) : intents'[i] = intents[i]
      /\ intents'[Len(intents) + 1] = new
  BY <1>1, <1>2, AppendProperties
<1>4. /\ Len(intents) \in Nat /\ DOMAIN intents = 1 .. Len(intents)
      /\ DOMAIN intents' = 1 .. Len(intents) + 1
  BY <1>2, <1>3
<1> QED BY <1>3, <1>4 DEF Kept, new

\* Some intents are consumed, nothing else of them changes.
LEMMA ConsumeKeeps ==
  ASSUME Types, NEW S, intents' = [i \in DOMAIN intents |->
                   IF i \in S THEN [intents[i] EXCEPT !.consumed = TRUE] ELSE intents[i]]
  PROVE  /\ intents' \in Seq(Intent) /\ Kept
         /\ DOMAIN intents' = DOMAIN intents
         /\ \A i \in DOMAIN intents : /\ intents'[i].order = intents[i].order
                                      /\ intents'[i].reason = intents[i].reason
                                      /\ i \in S => intents'[i].consumed
<1>1. Len(intents) \in Nat /\ DOMAIN intents = 1 .. Len(intents)
  BY DEF Types
<1>2. \A i \in DOMAIN intents : intents[i] \in Intent
  BY <1>1 DEF Types
<1>3. ASSUME NEW i \in DOMAIN intents
      PROVE  /\ intents'[i] \in Intent
             /\ intents'[i].pos = intents[i].pos /\ intents'[i].time = intents[i].time
             /\ intents'[i].trigger = intents[i].trigger
             /\ intents'[i].order = intents[i].order /\ intents'[i].reason = intents[i].reason
             /\ intents[i].consumed => intents'[i].consumed
             /\ i \in S => intents'[i].consumed
  <2>1. intents[i] \in Intent
    BY <1>2
  <2>2. CASE i \in S
    <3>1. intents'[i] = [intents[i] EXCEPT !.consumed = TRUE]
      BY <2>2
    <3> QED BY <2>1, <3>1 DEF Intent
  <2>3. CASE i \notin S
    BY <2>1, <2>3
  <2> QED BY <2>2, <2>3
<1>4. intents' \in [1 .. Len(intents) -> Intent]
  BY <1>1, <1>3
<1>5. intents' \in Seq(Intent) /\ DOMAIN intents' = DOMAIN intents
  BY <1>1, <1>4, IsASeq
<1> QED BY <1>3, <1>5 DEF Kept

\* Writing an intent down keeps the types.
LEMMA RecordTypes == ASSUME Types, NEW w \in unwritten, Record(w) PROVE Types'
<1>1. unwritten' \subseteq Intent
  BY DEF Types, Record
<1>2. Synced'
  BY RecordKeeps, SyncedKept DEF Types, Record, Kept, exchange
<1> QED BY <1>1, <1>2, RecordKeeps DEF Types, Record, exchange, Held, OpenRow

\* A full close expires intents, any other booking leaves the table alone.
LEMMA HandleKeeps ==
  ASSUME Types, NEW n \in Nat \ {0}, NEW t, HandleClose(n, t), UNCHANGED entered
  PROVE  /\ intents' \in Seq(Intent) /\ Kept
         /\ DOMAIN intents' = DOMAIN intents
         /\ \A i \in DOMAIN intents : /\ intents'[i].order = intents[i].order
                                      /\ intents'[i].reason = intents[i].reason
         /\ row' \in OpenRow /\ (row' = Flat \/ row'.pos = row.pos)
<1>1. CASE UNCHANGED <<row, intents>>
  BY <1>1 DEF Types, Kept, OpenRow
<1>2. CASE row # Flat /\ n < row.lots /\ row' = [row EXCEPT !.lots = row.lots - n] /\ UNCHANGED intents
  <2>1. row \in [pos : 1 .. Len(entered), lots : Int]
    BY <1>2 DEF Types, OpenRow
  <2>2. row' \in [pos : 1 .. Len(entered), lots : Int] /\ row'.pos = row.pos
    BY <1>2, <2>1
  <2> QED BY <1>2, <2>2 DEF Types, Kept, OpenRow
<1>3. CASE row' = Flat /\ intents' = Expired(intents, t)
  <2> DEFINE S == {i \in DOMAIN intents : intents[i].time <= t}
  <2>1. intents' = [i \in DOMAIN intents |->
                      IF i \in S THEN [intents[i] EXCEPT !.consumed = TRUE] ELSE intents[i]]
    BY <1>3 DEF Expired, Expire
  <2> HIDE DEF S
  <2> QED BY <1>3, <2>1, ConsumeKeeps DEF OpenRow
<1> QED BY <1>1, <1>2, <1>3 DEF HandleClose

\* Marking the intent found changes no order and no reason.
LEMMA MarkKeeps ==
  ASSUME Types, Mark
  PROVE  /\ intents' \in Seq(Intent) /\ Kept
         /\ DOMAIN intents' = DOMAIN intents
         /\ \A i \in DOMAIN intents : /\ intents'[i].order = intents[i].order
                                      /\ intents'[i].reason = intents[i].reason
         /\ sync.found \in DOMAIN intents /\ intents'[sync.found].consumed
<1>1. sync.found \in DOMAIN intents
  BY DEF Types, Synced, Mark
<1>2. intents' = [i \in DOMAIN intents |->
                    IF i \in {sync.found} THEN [intents[i] EXCEPT !.consumed = TRUE] ELSE intents[i]]
  BY DEF Mark, Marked
<1> QED BY <1>1, <1>2, ConsumeKeeps

\* Pruning may take an intent's order away; where it was made, and when, stays.
LEMMA PruneKeeps ==
  ASSUME Types, PruneStale
  PROVE  /\ intents' \in Seq(Intent) /\ Kept
         /\ DOMAIN intents' = DOMAIN intents
         /\ \A i \in DOMAIN intents : intents'[i].order \in {intents[i].order, 0}
<1>1. Len(intents) \in Nat /\ DOMAIN intents = 1 .. Len(intents)
  BY DEF Types
<1>2. ASSUME NEW i \in DOMAIN intents
      PROVE  /\ intents'[i] \in Intent
             /\ intents'[i].pos = intents[i].pos /\ intents'[i].time = intents[i].time
             /\ intents'[i].trigger = intents[i].trigger
             /\ intents'[i].order \in {intents[i].order, 0}
             /\ intents[i].consumed => intents'[i].consumed
  <2>1. intents[i] \in Intent
    BY <1>1 DEF Types
  <2>2. CASE intents[i].time < now - StaleAfter
    <3>1. intents'[i] = [intents[i] EXCEPT !.consumed = TRUE, !.order = 0, !.reason = "pruned"]
      BY <2>2 DEF PruneStale
    <3>2. TRUE \in BOOLEAN
      OBVIOUS
    <3>3. intents[i] \in [order : Nat, reason : Causes \cup {"pruned"}, trigger : Nat,
                         pos : 1 .. MaxPos, time : 0 .. MaxTime, consumed : BOOLEAN]
      BY <2>1 DEF Intent
    <3>4. intents'[i] \in Intent
      <4>1. intents'[i] = [order |-> 0, reason |-> "pruned", trigger |-> intents[i].trigger,
                           pos |-> intents[i].pos, time |-> intents[i].time, consumed |-> TRUE]
        BY <3>1, <3>3
      <4>2. 0 \in Nat /\ "pruned" \in Causes \cup {"pruned"}
        OBVIOUS
      <4>3. /\ intents[i].trigger \in Nat /\ intents[i].pos \in 1 .. MaxPos
            /\ intents[i].time \in 0 .. MaxTime
        BY <3>3
      <4> QED BY <3>2, <4>1, <4>2, <4>3 DEF Intent
    <3>5. intents'[i].order = 0 /\ intents'[i].consumed
      BY <3>1, <3>3
    <3> QED BY <3>1, <3>3, <3>4, <3>5
  <2>3. CASE ~(intents[i].time < now - StaleAfter)
    <3>1. intents'[i] = intents[i]
      BY <2>3 DEF PruneStale
    <3> QED BY <2>1, <3>1
  <2> QED BY <2>2, <2>3
<1>3. /\ intents' = [i \in DOMAIN intents |-> intents'[i]] /\ DOMAIN intents' = DOMAIN intents
  BY DEF PruneStale
<1>4. intents' \in [1 .. Len(intents) -> Intent]
  BY <1>1, <1>2, <1>3
<1>5. intents' \in Seq(Intent)
  BY <1>1, <1>4, IsASeq
<1> QED BY <1>2, <1>3, <1>5 DEF Kept

-----------------------------------------------------------------------------
(* What the sync says of a trade *)

\* The intent that explains a trade is one its matcher selects.
LEMMA AttributionFacts ==
  ASSUME Types, sync.pc = "next", Polling
  PROVE  /\ Attribution \in SaidRecord
         /\ Attribution.row = row.pos
         /\ Attribution.intent \in DOMAIN intents \cup {0}
         /\ Attribution.intent # 0 => /\ Attribution.reason = intents[Attribution.intent].reason
                                      /\ Attribution.via \in {"order", "trigger", "window"}
         /\ Attribution.via = "order" => ~Cur.exact
         /\ ~Cur.exact /\ Newest(MatchByOrderID(Cur.order)) # {}
              => Attribution.via = "order"
         /\ Attribution.via = "order" => Attribution.intent \in Newest(MatchByOrderID(Cur.order))
         /\ Attribution.via = "trigger"
              => Attribution.intent \in TriggerPriceCandidates(Cur.price, NotBefore)
         /\ Attribution.via = "window" => Attribution.intent \in MatchByWindow(Cur.time)
<1> DEFINE byOrder == Newest(MatchByOrderID(Cur.order))
           byTrigger == Newest(MatchByTriggerPrice(Cur.price, NotBefore))
           byWindow == Newest(MatchByWindow(Cur.time))
           first(S) == CHOOSE i \in S : TRUE
<1>1. /\ byOrder \subseteq MatchByOrderID(Cur.order)
      /\ byTrigger \subseteq TriggerPriceCandidates(Cur.price, NotBefore)
      /\ byWindow \subseteq MatchByWindow(Cur.time)
  BY DEF Newest, MatchByTriggerPrice
<1>2. /\ byOrder \subseteq DOMAIN intents /\ byTrigger \subseteq DOMAIN intents
      /\ byWindow \subseteq DOMAIN intents
  BY <1>1 DEF MatchByOrderID, TriggerPriceCandidates, MatchByWindow
<1>3. /\ byOrder # {} => first(byOrder) \in byOrder
      /\ byTrigger # {} => first(byTrigger) \in byTrigger
      /\ byWindow # {} => first(byWindow) \in byWindow
  <2>1. \A S : S # {} => first(S) \in S
    OBVIOUS
  <2> QED BY <2>1
<1>4. row.pos \in Nat /\ DOMAIN intents \subseteq Nat \ {0} /\ Len(fills) \in Nat
  BY DEF Types, OpenRow, Flat
<1>5. Cur \in Fill /\ Cur.cause \in Causes /\ Cur.exact \in BOOLEAN
  <2>1. sync.next \in DOMAIN fills
    BY <1>4 DEF Types, Synced, Polling
  <2>2. Cur \in Fill
    BY <2>1 DEF Types, Cur
  <2> QED BY <2>2 DEF Fill
<1>6. \A i \in DOMAIN intents : intents[i].reason \in Causes \cup {"pruned"}
  <2>1. \A i \in DOMAIN intents : intents[i] \in Intent
    BY DEF Types
  <2> QED BY <2>1 DEF Intent
<1>7. \A v \in {"order", "trigger", "window"}, i \in DOMAIN intents :
        Said(v, i) \in SaidRecord /\ Said(v, i).row = row.pos /\ Said(v, i).via = v
        /\ Said(v, i).intent = i /\ Said(v, i).reason = intents[i].reason
  BY <1>4, <1>6 DEF Said, SaidRecord
<1>8. \A v \in {"exact", "none"} :
        Said(v, 0) \in SaidRecord /\ Said(v, 0).row = row.pos /\ Said(v, 0).via = v
        /\ Said(v, 0).intent = 0
  BY <1>4, <1>5 DEF Said, SaidRecord
<1>9. Attribution =
        IF Cur.exact THEN Said("exact", 0)
        ELSE IF byOrder # {} THEN Said("order", first(byOrder))
        ELSE IF byTrigger # {} THEN Said("trigger", first(byTrigger))
        ELSE IF byWindow # {} THEN Said("window", first(byWindow))
        ELSE Said("none", 0)
  BY DEF Attribution
<1> HIDE DEF byOrder, byTrigger, byWindow, first
<1>10. CASE Cur.exact
  <2>1. Attribution = Said("exact", 0)
    BY <1>9, <1>10
  <2> QED BY <2>1, <1>8, <1>10
<1>11. CASE ~Cur.exact /\ byOrder # {}
  <2>1. Attribution = Said("order", first(byOrder)) /\ first(byOrder) \in DOMAIN intents
    BY <1>9, <1>11, <1>3, <1>2
  <2> QED BY <2>1, <1>7, <1>11, <1>3, <1>4 DEF byOrder
<1>12. CASE ~Cur.exact /\ byOrder = {} /\ byTrigger # {}
  <2>1. Attribution = Said("trigger", first(byTrigger)) /\ first(byTrigger) \in DOMAIN intents
    BY <1>9, <1>12, <1>3, <1>2
  <2> QED BY <2>1, <1>7, <1>12, <1>3, <1>4, <1>1 DEF byOrder
<1>13. CASE ~Cur.exact /\ byOrder = {} /\ byTrigger = {} /\ byWindow # {}
  <2>1. Attribution = Said("window", first(byWindow)) /\ first(byWindow) \in DOMAIN intents
    BY <1>9, <1>13, <1>3, <1>2
  <2> QED BY <2>1, <1>7, <1>13, <1>3, <1>4, <1>1 DEF byOrder
<1>14. CASE ~Cur.exact /\ byOrder = {} /\ byTrigger = {} /\ byWindow = {}
  <2>1. Attribution = Said("none", 0)
    BY <1>9, <1>14
  <2> QED BY <2>1, <1>8, <1>14 DEF byOrder
<1> QED BY <1>10, <1>11, <1>12, <1>13, <1>14

\* What a step of the sync appends to what it has said.
Answer == IF Cur.open THEN [via |-> "open", intent |-> 0, row |-> row.pos, reason |-> "open"]
                      ELSE Attribution

\* Matching appends one answer to what was said and moves to marking or applying.
LEMMA MatchSays ==
  ASSUME Types, Match
  PROVE  /\ Types'
         /\ sync'.said \in Seq(SaidRecord) /\ DOMAIN sync'.said = DOMAIN sync.said \cup {sync.next}
         /\ sync.next \notin DOMAIN sync.said /\ sync.next \in DOMAIN fills
         /\ DOMAIN sync.said = 1 .. sync.next - 1
         /\ \A f \in DOMAIN sync.said : sync'.said[f] = sync.said[f]
         /\ sync'.said[sync.next] = Answer
         /\ sync'.next = sync.next /\ sync'.upto = sync.upto
         /\ sync'.pc = (IF Answer.intent = 0 THEN "apply" ELSE "mark") /\ sync'.found = Answer.intent
<1>1. sync.pc = "next" /\ Polling
  BY DEF Match
<1>2. Answer \in SaidRecord /\ Answer.intent \in DOMAIN intents \cup {0}
  <2>1. row.pos \in Nat
    BY DEF Types, OpenRow, Flat
  <2>2. [via |-> "open", intent |-> 0, row |-> row.pos, reason |-> "open"] \in SaidRecord
    BY <2>1 DEF SaidRecord, Causes
  <2>3. Attribution \in SaidRecord /\ Attribution.intent \in DOMAIN intents \cup {0}
    BY <1>1, AttributionFacts
  <2> QED BY <2>2, <2>3 DEF Answer
<1>3. sync' = [sync EXCEPT !.pc = IF Answer.intent = 0 THEN "apply" ELSE "mark",
                           !.found = Answer.intent, !.said = Append(sync.said, Answer)]
  BY DEF Match, Answer
<1>4. /\ sync.next \in Nat \ {0} /\ sync.upto \in Nat /\ Len(fills) \in Nat
      /\ sync.next <= sync.upto /\ sync.upto <= Len(fills)
      /\ Len(sync.said) = sync.next - 1 /\ sync.said \in Seq(SaidRecord)
  BY <1>1 DEF Types, Synced, Polling
<1>5. /\ Append(sync.said, Answer) \in Seq(SaidRecord)
      /\ Len(Append(sync.said, Answer)) = sync.next
      /\ \A f \in 1 .. sync.next - 1 : Append(sync.said, Answer)[f] = sync.said[f]
      /\ Append(sync.said, Answer)[sync.next] = Answer
  BY <1>2, <1>4, AppendProperties
<1>6. sync \in [pc : {"next", "mark", "apply"}, upto : Nat, next : Nat \ {0},
                found : Nat, said : Seq(SaidRecord)]
  BY DEF Types, Synced
<1>7. Answer.intent \in Nat
  BY <1>2 DEF SaidRecord
<1> HIDE DEF Answer
<1>8. /\ sync' \in [pc : {"next", "mark", "apply"}, upto : Nat, next : Nat \ {0},
                    found : Nat, said : Seq(SaidRecord)]
      /\ sync'.said = Append(sync.said, Answer)
      /\ sync'.next = sync.next /\ sync'.upto = sync.upto
      /\ sync'.pc = (IF Answer.intent = 0 THEN "apply" ELSE "mark") /\ sync'.found = Answer.intent
  BY <1>3, <1>5, <1>6, <1>7
<1>9. Synced'
  <2>1. UNCHANGED <<fills, intents>>
    BY DEF Match, exchange
  <2> QED BY <1>2, <1>4, <1>5, <1>8, <2>1 DEF Synced
<1>10. Types'
  BY <1>9 DEF Types, Match, exchange, Held, OpenRow
<1>11. DOMAIN sync.said = 1 .. sync.next - 1 /\ DOMAIN sync'.said = 1 .. sync.next
       /\ DOMAIN fills = 1 .. Len(fills)
  BY <1>4, <1>5, <1>8 DEF Types
<1> QED BY <1>4, <1>5, <1>8, <1>10, <1>11

-----------------------------------------------------------------------------
(* The kinds of steps *)

FillsGrow ==
  /\ \A f \in DOMAIN fills : f \in DOMAIN fills' /\ fills'[f] = fills[f]
  /\ \A g \in DOMAIN fills' \ DOMAIN fills : fills'[g].order = NextOrder
  /\ \A g, h \in DOMAIN fills' \ DOMAIN fills :
       fills'[g].exact = fills'[h].exact /\ fills'[g].open = fills'[h].open

\* An intent of the position that is held, not consumed; its order, if it has
\* one, is new.
UnwrittenGrow ==
  \E w \in Intent :
    /\ unwritten' \subseteq unwritten \cup {w}
    /\ w \in unwritten' \ unwritten =>
         /\ w.pos = Len(entered) /\ ~w.consumed
         /\ w.order = 0 \/ (w.order = NextOrder /\ NextOrder \in DOMAIN fills')

\* A step of the exchange or of the bot.
Outside ==
  /\ UNCHANGED <<intents, sync>> /\ FillsGrow
  /\ OpenPosition \/ UNCHANGED entered
  /\ UNCHANGED unwritten \/ UnwrittenGrow
  /\ now <= now'

\* A step that reads trades or books a close.
Inside ==
  /\ UNCHANGED <<now, entered, fills, unwritten>>
  /\ Kept /\ DOMAIN intents' = DOMAIN intents
  /\ \A i \in DOMAIN intents :
       /\ intents'[i].order \in {intents[i].order, 0}
       /\ Polling => intents'[i].order = intents[i].order /\ intents'[i].reason = intents[i].reason
  /\ Match \/ sync'.said = sync.said
  /\ sync.pc = "mark" => Mark \/ UNCHANGED sync
  /\ sync'.upto = sync.upto \/ (~Polling /\ sync'.upto = Len(fills))

\* Trades that stay the same have grown.
LEMMA OutsideSame == ASSUME Types, UNCHANGED fills PROVE FillsGrow
BY DEF FillsGrow

\* Appended trades leave the earlier ones as they were.
LEMMA GrowBy ==
  ASSUME Types, NEW new \in Seq(Fill), fills' = fills \o new,
         \A i \in DOMAIN new : new[i].order = NextOrder,
         \A i, j \in DOMAIN new : new[i].exact = new[j].exact /\ new[i].open = new[j].open
  PROVE  FillsGrow /\ (Len(new) > 0 => NextOrder \in DOMAIN fills')
<1>1. /\ fills' \in Seq(Fill) /\ Len(fills') = Len(fills) + Len(new)
      /\ \A f \in 1 .. Len(fills) + Len(new) :
           fills'[f] = IF f <= Len(fills) THEN fills[f] ELSE new[f - Len(fills)]
  BY ConcatProperties DEF Types
<1>2. Len(fills) \in Nat /\ Len(new) \in Nat /\ DOMAIN fills = 1 .. Len(fills)
      /\ DOMAIN new = 1 .. Len(new) /\ DOMAIN fills' = 1 .. Len(fills) + Len(new)
  BY <1>1 DEF Types
<1>3. \A f \in DOMAIN fills : f \in DOMAIN fills' /\ fills'[f] = fills[f]
  BY <1>1, <1>2
<1>4. \A g \in DOMAIN fills' \ DOMAIN fills :
        g - Len(fills) \in DOMAIN new /\ fills'[g] = new[g - Len(fills)]
  BY <1>1, <1>2
<1>5. Len(new) > 0 => NextOrder \in DOMAIN fills'
  BY <1>2 DEF NextOrder
<1> QED BY <1>3, <1>4, <1>5 DEF FillsGrow

\* Opening a position changes the exchange only.
LEMMA OpenOutside == ASSUME Types, OpenPosition PROVE Outside
<1> DEFINE trade == Trade(held'.pos, "open", TRUE, CHOOSE p \in Prices : TRUE)
<1>1. Types'
  BY OpenTypes
<1>2. now \in Nat /\ now <= now'
  BY IntentsAssumption DEF Types, OpenPosition, Later
<1>3. trade.order = NextOrder
  BY DEF Trade
<1>4. fills' = Append(fills, trade) /\ fills \in Seq(Fill) /\ fills' \in Seq(Fill)
  BY <1>1 DEF OpenPosition, Types
<1> HIDE DEF trade
<1>5. DOMAIN fills = 1 .. Len(fills) /\ DOMAIN fills' = 1 .. Len(fills) + 1 /\ Len(fills) \in Nat
      /\ fills'[Len(fills) + 1] = trade /\ \A f \in 1 .. Len(fills) : fills'[f] = fills[f]
  BY <1>4
<1>6. FillsGrow
  <2>1. DOMAIN fills' \ DOMAIN fills = {Len(fills) + 1}
    BY <1>5
  <2> QED BY <1>3, <1>5, <2>1 DEF FillsGrow
<1> QED BY <1>2, <1>6 DEF Outside, OpenPosition

\* So does a protection order that fires.
LEMMA FireOutside ==
  ASSUME Types, NEW t \in Tiers, NEW exact \in BOOLEAN, TierFires(t, exact) PROVE Outside
<1>1. held # Flat /\ Later
  BY DEF TierFires
<1>2. PICK p \in Slipped(t) : fills' = Append(fills, Trade(held.pos, t.reason, exact, p))
  BY DEF TierFires
<1> DEFINE trade == Trade(held.pos, t.reason, exact, p)
<1>3. trade \in Fill /\ trade.order = NextOrder
  <2>1. p \in Prices /\ t.reason \in Causes
    BY IntentsAssumption DEF Slipped, Causes
  <2>2. trade \in Fill
    BY <1>1, <2>1, HeldType, TradeType
  <2> QED BY <2>2 DEF Trade
<1> HIDE DEF trade
<1>4. <<trade>> \in Seq(Fill) /\ fills' = fills \o <<trade>>
  <2>1. fills \in Seq(Fill) /\ fills' = Append(fills, trade)
    BY <1>2 DEF Types, trade
  <2> QED BY <1>3, <2>1, AppendIsConcat
<1>5. DOMAIN <<trade>> = {1} /\ <<trade>>[1] = trade
  OBVIOUS
<1>6. FillsGrow
  BY <1>3, <1>4, <1>5, GrowBy
<1>7. now <= now'
  BY <1>1 DEF Types, Later
<1> QED BY <1>6, <1>7 DEF Outside, TierFires

\* So does a market close, which leaves its intent to be written.
LEMMA MarketOutside ==
  ASSUME Types, NEW reason \in {"ai", "manual"}, NEW withId \in BOOLEAN, MarketClose(reason, withId)
  PROVE  Outside
<1>1. held # Flat /\ Later /\ reason \in Causes
  BY DEF MarketClose, Causes
<1>2. PICK p \in Prices :
        fills' = fills \o [i \in 1 .. held.lots |-> Trade(held.pos, reason, FALSE, p)]
  BY DEF MarketClose
<1> DEFINE trade == Trade(held.pos, reason, FALSE, p)
           new == [i \in 1 .. held.lots |-> trade]
           w == Written(IF withId THEN NextOrder ELSE 0, reason, 0)
<1>3. trade \in Fill /\ trade.order = NextOrder
  <2>0. FALSE \in BOOLEAN
    OBVIOUS
  <2>1. trade \in Fill
    BY <1>1, <2>0, HeldType, TradeType
  <2> QED BY <2>1 DEF Trade
<1>4. fills' = fills \o new
  BY <1>2
<1> HIDE DEF trade
<1>5. held.lots \in Nat \ {0} /\ held.pos = Len(entered) /\ Len(fills) \in Nat
  <2>1. held.lots \in 1 .. Lots
    BY <1>1, HeldType
  <2>2. held.lots \in Nat \ {0}
    BY <2>1, IntentsAssumption
  <2> QED BY <1>1, <2>2, HeldType DEF Types
<1>6. new \in Seq(Fill) /\ DOMAIN new = 1 .. held.lots /\ Len(new) = held.lots
      /\ \A i \in DOMAIN new : new[i] = trade
  <2>1. new \in [1 .. held.lots -> Fill] /\ \A i \in DOMAIN new : new[i] = trade
    BY <1>3
  <2>2. new \in Seq(Fill)
    BY <1>3, <1>5, IsASeq
  <2> QED BY <1>5, <2>1, <2>2
<1>7. FillsGrow /\ NextOrder \in DOMAIN fills'
  <2> HIDE DEF new
  <2>1. Len(new) > 0
    BY <1>5, <1>6
  <2> QED BY <1>3, <1>4, <1>6, <2>1, GrowBy
<1>8. UnwrittenGrow
  <2>1. (IF withId THEN NextOrder ELSE 0) \in Nat
    BY <1>5 DEF NextOrder
  <2>2. w \in Intent
    BY <1>1, <2>1, WrittenType
  <2>3. w.pos = Len(entered) /\ w.order \in {0, NextOrder} /\ ~w.consumed
    BY <1>5 DEF Written
  <2>4. unwritten' = unwritten \cup {w}
    BY DEF MarketClose
  <2> HIDE DEF w, new
  <2> QED BY <1>7, <2>2, <2>3, <2>4 DEF UnwrittenGrow
<1>9. now <= now'
  BY <1>1 DEF Types, Later
<1> QED BY <1>7, <1>8, <1>9 DEF Outside, MarketClose

\* So does placing protection.
LEMMA PlaceStep ==
  ASSUME Types, NEW t \in Tiers, PlaceProtection(t) PROVE Types' /\ Outside
<1> DEFINE w == Written(0, t.reason, t.trigger)
<1>1. held # Flat /\ t.reason \in Causes /\ t.trigger \in Nat
  BY IntentsAssumption DEF PlaceProtection, Causes
<1>2. w \in Intent
  BY <1>1, WrittenType
<1>3. w.pos = Len(entered) /\ w.order = 0 /\ ~w.consumed
  BY <1>1, HeldType DEF Written
<1>4. unwritten' = unwritten \cup {w}
  BY DEF PlaceProtection
<1> HIDE DEF w
<1>5. unwritten' \subseteq Intent
  BY <1>2, <1>4 DEF Types
<1>6. Synced' /\ FillsGrow /\ now <= now'
  BY SyncedKept, OutsideSame DEF Types, PlaceProtection
<1>7. Types'
  BY <1>5, <1>6 DEF Types, PlaceProtection, Held, OpenRow
<1>8. UnwrittenGrow
  BY <1>2, <1>3, <1>4 DEF UnwrittenGrow
<1> QED BY <1>6, <1>7, <1>8 DEF Outside, PlaceProtection

\* Time passing changes the time only.
LEMMA TickStep == ASSUME Types, Tick PROVE Types' /\ Outside
<1>1. now' \in 0 .. MaxTime /\ now <= now'
  BY IntentsAssumption DEF Types, Tick, Later
<1>2. Synced' /\ FillsGrow
  BY SyncedKept, OutsideSame DEF Types, Tick, exchange
<1> QED BY <1>1, <1>2 DEF Types, Outside, Tick, exchange, Held, OpenRow

\* A poll takes the trades made so far, and writes nothing.
LEMMA PollStep == ASSUME Types, Poll PROVE Types' /\ Inside
<1>1. Len(fills) \in Nat /\ sync.pc = "next" /\ ~Polling
  BY DEF Types, Synced, Poll, Polling
<1>2. /\ sync'.pc = sync.pc /\ sync'.upto = Len(fills) /\ sync'.next = sync.next
      /\ sync'.found = sync.found /\ sync'.said = sync.said
      /\ sync' \in [pc : {"next", "mark", "apply"}, upto : Nat, next : Nat \ {0},
                    found : Nat, said : Seq(SaidRecord)]
  BY <1>1 DEF Types, Synced, Poll, TradesSoFar
<1>3. sync'.next <= sync'.upto + 1
  <2>1. sync.next <= sync.upto + 1 /\ sync.upto <= Len(fills)
    BY <1>1 DEF Types, Synced
  <2> QED BY <1>1, <1>2, <2>1 DEF Types, Synced
<1>4. UNCHANGED <<now, held, entered, resting, fills, unwritten, intents, row>>
  BY DEF Poll, exchange
<1>5. Synced'
  BY <1>1, <1>2, <1>3, <1>4 DEF Types, Synced
<1>6. Types'
  BY <1>4, <1>5 DEF Types, Held, OpenRow
<1> QED BY <1>1, <1>2, <1>4, <1>6 DEF Inside, Kept

\* Matching writes what explains the trade, and no intent.
LEMMA MatchStep == ASSUME Types, Match PROVE Types' /\ Inside
<1>1. UNCHANGED <<now, entered, fills, unwritten, intents>> /\ sync.pc = "next"
  BY DEF Match, exchange
<1> QED BY <1>1, MatchSays DEF Inside, Kept

\* Marking writes one intent, and nothing of the trade.
LEMMA MarkStep == ASSUME Types, Mark PROVE Types' /\ Inside
<1>1. UNCHANGED <<now, held, entered, resting, fills, unwritten, row>> /\ sync.pc = "mark"
      /\ sync' = [sync EXCEPT !.pc = "apply"]
  BY DEF Mark, exchange
<1>2. Synced'
  BY <1>1 DEF Types, Synced
<1>3. sync'.said = sync.said /\ sync'.upto = sync.upto
  BY <1>1 DEF Types, Synced
<1>4. Types'
  BY <1>1, <1>2, MarkKeeps DEF Types, Held, OpenRow
<1> QED BY <1>1, <1>3, <1>4, MarkKeeps DEF Inside

\* Applying the trade writes the row and leaves what was said.
LEMMA ApplyStep == ASSUME Types, ProcessTrade PROVE Types' /\ Inside
<1>1. UNCHANGED <<now, held, entered, resting, fills, unwritten>> /\ sync.pc = "apply"
      /\ sync' = [sync EXCEPT !.pc = "next", !.next = sync.next + 1, !.found = 0]
  BY DEF ProcessTrade, exchange
<1>2. sync.next \in DOMAIN fills /\ Cur \in Fill /\ Cur.pos <= Len(entered)
  <2>1. Len(fills) \in Nat /\ DOMAIN fills = 1 .. Len(fills)
    BY DEF Types
  <2>2. sync.next \in DOMAIN fills
    BY <1>1, <2>1 DEF Types, Synced
  <2> QED BY <2>1, <2>2 DEF Types, Cur
<1>3. /\ intents' \in Seq(Intent) /\ Kept /\ DOMAIN intents' = DOMAIN intents /\ row' \in OpenRow
      /\ \A i \in DOMAIN intents : intents'[i].order = intents[i].order
                                   /\ intents'[i].reason = intents[i].reason
  <2>1. CASE Cur.open
    <3>1. UNCHANGED intents
      BY <2>1 DEF ProcessTrade, HandleOpen
    <3>2. row' = IF row = Flat THEN [pos |-> Cur.pos, lots |-> Lots]
                               ELSE [row EXCEPT !.lots = row.lots + Lots]
      BY <2>1 DEF ProcessTrade, HandleOpen
    <3>3. Cur.pos \in 1 .. Len(entered) /\ Lots \in Int
      <4>1. Cur.pos \in 1 .. MaxPos /\ Len(entered) \in Nat /\ MaxPos \in Nat
        BY <1>2, IntentsAssumption DEF Fill, Types
      <4> QED BY <1>2, <4>1, IntentsAssumption
    <3>4. row' \in OpenRow
      <4>1. CASE row = Flat
        BY <1>1, <3>2, <3>3, <4>1 DEF OpenRow
      <4>2. CASE row # Flat
        <5>1. row \in [pos : 1 .. Len(entered), lots : Int]
          BY <4>2 DEF Types, OpenRow
        <5> QED BY <1>1, <3>2, <3>3, <4>2, <5>1 DEF OpenRow
      <4> QED BY <4>1, <4>2
    <3> QED BY <3>1, <3>4 DEF Types, Kept
  <2>2. CASE ~Cur.open
    <3>1. HandleClose(1, Cur.time)
      BY <2>2 DEF ProcessTrade
    <3>2. UNCHANGED entered /\ 1 \in Nat \ {0}
      BY <1>1
    <3> QED BY <3>1, <3>2, HandleKeeps
  <2> QED BY <2>1, <2>2
<1>4. /\ sync'.pc = "next" /\ sync'.upto = sync.upto /\ sync'.next = sync.next + 1
      /\ sync'.said = sync.said
      /\ sync' \in [pc : {"next", "mark", "apply"}, upto : Nat, next : Nat \ {0},
                    found : Nat, said : Seq(SaidRecord)]
  <2>1. sync \in [pc : {"next", "mark", "apply"}, upto : Nat, next : Nat \ {0},
                  found : Nat, said : Seq(SaidRecord)]
    BY DEF Types, Synced
  <2>2. sync.next + 1 \in Nat \ {0}
    BY <2>1
  <2> QED BY <1>1, <2>1, <2>2
<1>5. Synced'
  BY <1>1, <1>4 DEF Types, Synced
<1>6. OpenRow' = OpenRow
  BY <1>1 DEF OpenRow
<1>7. Types'
  BY <1>1, <1>3, <1>5, <1>6 DEF Types, Held, OpenRow
<1> QED BY <1>1, <1>3, <1>4, <1>7 DEF Inside

\* A close from the dashboard writes the row, and keeps what the intents say.
LEMMA ManualStep ==
  ASSUME Types, NEW w \in manual, ApplyManual(w) PROVE Types' /\ Inside
<1>1. UNCHANGED <<now, held, entered, resting, fills, unwritten, sync>> /\ HandleClose(Lots, now)
  BY DEF ApplyManual, exchange
<1>2. /\ intents' \in Seq(Intent) /\ Kept /\ DOMAIN intents' = DOMAIN intents /\ row' \in OpenRow
      /\ \A i \in DOMAIN intents : intents'[i].order = intents[i].order
                                   /\ intents'[i].reason = intents[i].reason
  BY <1>1, IntentsAssumption, HandleKeeps
<1>3. Synced' /\ OpenRow' = OpenRow
  BY <1>1, <1>2 DEF Types, Synced, OpenRow
<1>4. Types'
  BY <1>1, <1>2, <1>3 DEF Types, Held
<1> QED BY <1>1, <1>2, <1>4 DEF Inside

\* The sweep closes the row only.
LEMMA SweepStep == ASSUME Types, Sweep PROVE Types' /\ Inside
<1>1. UNCHANGED <<now, held, entered, resting, fills, unwritten, intents, sync>> /\ row' = Flat
  BY DEF Sweep, exchange
<1>2. Types'
  BY <1>1 DEF Types, Held, OpenRow, Synced
<1> QED BY <1>1, <1>2 DEF Inside, Kept

\* Pruning, between two polls, writes the intents only.
LEMMA PruneStep == ASSUME Types, PruneStale PROVE Types' /\ Inside
<1>1. UNCHANGED <<now, held, entered, resting, fills, unwritten, row, sync>> /\ ~Polling
  BY DEF PruneStale, exchange
<1>2. Synced'
  BY <1>1, PruneKeeps DEF Types, Synced
<1>3. Types'
  BY <1>1, <1>2, PruneKeeps DEF Types, Held, OpenRow
<1> QED BY <1>1, <1>3, PruneKeeps DEF Inside

\* Every step is one of the exchange's or one of the program's, and keeps the types.
LEMMA Steps ==
  ASSUME Types, Next
  PROVE  Types' /\ (Outside \/ Inside \/ \E w \in unwritten : Record(w))
<1>1. CASE Tick
  BY <1>1, TickStep
<1>2. CASE OpenPosition
  BY <1>2, OpenTypes, OpenOutside
<1>3. CASE \E t \in Tiers : PlaceProtection(t)
  BY <1>3, PlaceStep
<1>4. CASE \E t \in Tiers, e \in BOOLEAN : TierFires(t, e)
  BY <1>4, FireTypes, FireOutside
<1>5. CASE \E b \in WithIds : ClosePositionByReason(b)
  <2>1. PICK b \in BOOLEAN : MarketClose("ai", b)
    BY <1>5, IntentsAssumption DEF ClosePositionByReason
  <2> QED BY <2>1, MarketTypes, MarketOutside
<1>6. CASE ManualClose
  <2>1. MarketClose("manual", TRUE) /\ TRUE \in BOOLEAN
    BY <1>6 DEF ManualClose
  <2> QED BY <2>1, MarketTypes, MarketOutside
<1>7. CASE \E w \in unwritten : Record(w)
  BY <1>7, RecordTypes
<1>8. CASE Poll
  BY <1>8, PollStep
<1>9. CASE Match
  BY <1>9, MatchStep
<1>10. CASE Mark
  BY <1>10, MarkStep
<1>11. CASE ProcessTrade
  BY <1>11, ApplyStep
<1>12. CASE \E w \in manual : ApplyManual(w)
  BY <1>12, ManualStep
<1>13. CASE Sweep
  BY <1>13, SweepStep
<1>14. CASE PruneStale
  BY <1>14, PruneStep
<1> QED BY <1>1, <1>2, <1>3, <1>4, <1>5, <1>6, <1>7, <1>8, <1>9, <1>10, <1>11, <1>12, <1>13, <1>14
        DEF Next

\* A stutter keeps the types.
LEMMA StutterKeeps == ASSUME Types, UNCHANGED vars PROVE Types'
BY DEF Types, vars, exchange, Held, OpenRow, Synced

\* The types hold at first.
LEMMA InitTypes == ASSUME Init PROVE Types
<1>1. <<>> \in Seq(Fill) /\ <<>> \in Seq(Intent) /\ <<>> \in Seq(SaidRecord) /\ <<>> \in Seq(0 .. MaxTime)
      /\ Len(<<>>) = 0 /\ DOMAIN <<>> = {}
  OBVIOUS
<1>2. Synced
  BY <1>1 DEF Init, Synced
<1> QED BY <1>1, <1>2, IntentsAssumption DEF Init, Types, Held, OpenRow

\* What has been said is of trades the sync has fetched.
LEMMA SaidDomain ==
  ASSUME Types
  PROVE  /\ DOMAIN sync.said = 1 .. Len(sync.said) /\ Len(sync.said) \in Nat
         /\ Len(sync.said) <= sync.upto /\ sync.upto <= Len(fills)
         /\ sync.upto \in Nat /\ sync.next \in Nat \ {0} /\ Len(fills) \in Nat
         /\ DOMAIN fills = 1 .. Len(fills) /\ DOMAIN sync.said \subseteq DOMAIN fills
         /\ sync.pc # "next" => sync.next = Len(sync.said) /\ Polling
         /\ sync.pc = "next" => sync.next = Len(sync.said) + 1
         /\ \A f \in DOMAIN sync.said : sync.said[f] \in SaidRecord
<1>1. /\ sync.pc \in {"next", "mark", "apply"} /\ sync.upto \in Nat /\ sync.next \in Nat \ {0}
      /\ sync.said \in Seq(SaidRecord) /\ Len(fills) \in Nat /\ DOMAIN fills = 1 .. Len(fills)
  BY DEF Types, Synced
<1>2. DOMAIN sync.said = 1 .. Len(sync.said) /\ Len(sync.said) \in Nat
      /\ \A f \in DOMAIN sync.said : sync.said[f] \in SaidRecord
  BY <1>1
<1>3. /\ sync.upto <= Len(fills)
      /\ sync.next <= (IF sync.pc = "next" THEN sync.upto + 1 ELSE sync.upto)
      /\ Len(sync.said) = (IF sync.pc = "next" THEN sync.next - 1 ELSE sync.next)
  BY DEF Types, Synced
<1> QED BY <1>1, <1>2, <1>3 DEF Polling

\* A trade that is matched while it is closed with an intent.
LEMMA Answers ==
  ASSUME Types, Match, NEW v \in {"order", "trigger", "window"}, Answer.via = v
  PROVE  Answer = Attribution /\ ~Cur.open
BY DEF Answer

-----------------------------------------------------------------------------
(* An intent explains one fill only *)

\* The intent that explains a trade is consumed, or is about to be.
Explained ==
  \A f \in DOMAIN sync.said :
    sync.said[f].via \in {"trigger", "window"} =>
      /\ sync.said[f].intent \in DOMAIN intents
      /\ \/ intents[sync.said[f].intent].consumed
         \/ sync.pc = "mark" /\ f = sync.next /\ sync.found = sync.said[f].intent

\* Matching a trade skips the intents that are consumed, and keeps this too.
LEMMA ExplainedByMatch ==
  ASSUME Types, Explained, IntentExplainsOneFill, Match
  PROVE  Explained' /\ IntentExplainsOneFill'
<1> DEFINE g == sync.next
<1>1. sync.pc = "next" /\ Polling /\ UNCHANGED intents
  BY DEF Match
<1>2. /\ DOMAIN sync'.said = DOMAIN sync.said \cup {g} /\ g \notin DOMAIN sync.said
      /\ \A f \in DOMAIN sync.said : sync'.said[f] = sync.said[f]
      /\ sync'.said[g] = Answer /\ sync'.next = g
      /\ sync'.pc = (IF Answer.intent = 0 THEN "apply" ELSE "mark") /\ sync'.found = Answer.intent
  BY MatchSays
<1>3. \A f \in DOMAIN sync.said : sync.said[f].via \in {"trigger", "window"} =>
        sync.said[f].intent \in DOMAIN intents /\ intents[sync.said[f].intent].consumed
  BY <1>1 DEF Explained
<1>4. Answer.via \in {"trigger", "window"} =>
        /\ Answer.intent \in DOMAIN intents /\ Answer.intent # 0
        /\ ~intents[Answer.intent].consumed
  <2>1. ASSUME Answer.via \in {"trigger", "window"}
        PROVE  /\ Answer.intent \in DOMAIN intents /\ ~intents[Answer.intent].consumed
    <3>1. Answer = Attribution
      BY <2>1, Answers
    <3>2. CASE Answer.via = "trigger"
      <4>1. Answer.intent \in TriggerPriceCandidates(Cur.price, NotBefore)
        BY <1>1, <3>1, <3>2, AttributionFacts
      <4> QED BY <4>1 DEF TriggerPriceCandidates
    <3>3. CASE Answer.via = "window"
      <4>1. Answer.intent \in MatchByWindow(Cur.time)
        BY <1>1, <3>1, <3>3, AttributionFacts
      <4> QED BY <4>1 DEF MatchByWindow
    <3> QED BY <2>1, <3>2, <3>3
  <2>2. DOMAIN intents = 1 .. Len(intents) /\ Len(intents) \in Nat
    BY DEF Types
  <2> QED BY <2>1, <2>2
<1> HIDE DEF g
<1>5. Explained'
  <2> SUFFICES ASSUME NEW f \in DOMAIN sync'.said, sync'.said[f].via \in {"trigger", "window"}
               PROVE  /\ sync'.said[f].intent \in DOMAIN intents'
                      /\ \/ intents'[sync'.said[f].intent].consumed
                         \/ sync'.pc = "mark" /\ f = sync'.next /\ sync'.found = sync'.said[f].intent
    BY DEF Explained
  <2>1. CASE f \in DOMAIN sync.said
    BY <1>1, <1>2, <1>3, <2>1
  <2>2. CASE f = g
    BY <1>1, <1>2, <1>4, <2>2
  <2> QED BY <1>2, <2>1, <2>2
<1>6. \A f \in DOMAIN sync.said :
        (sync.said[f].via \in {"trigger", "window"} /\ Answer.via \in {"trigger", "window"})
          => sync.said[f].intent # Answer.intent
  BY <1>3, <1>4
<1>7. IntentExplainsOneFill'
  <2> SUFFICES ASSUME NEW f \in DOMAIN sync'.said, NEW h \in DOMAIN sync'.said, f # h,
                      sync'.said[f].via \in {"trigger", "window"},
                      sync'.said[h].via \in {"trigger", "window"}
               PROVE  sync'.said[f].intent # sync'.said[h].intent
    BY DEF IntentExplainsOneFill, Attributed, SaidOf
  <2>1. CASE f \in DOMAIN sync.said /\ h \in DOMAIN sync.said
    BY <1>2, <2>1 DEF IntentExplainsOneFill, Attributed, SaidOf
  <2>2. CASE f = g /\ h \in DOMAIN sync.said
    BY <1>2, <1>6, <2>2
  <2>3. CASE f \in DOMAIN sync.said /\ h = g
    BY <1>2, <1>6, <2>3
  <2> QED BY <1>2, <2>1, <2>2, <2>3
<1> QED BY <1>5, <1>7

\* Every step keeps each trade said to be explained by an intent of its own.
LEMMA ExplainedStep ==
  ASSUME Types, Explained, IntentExplainsOneFill, Next
  PROVE  Explained' /\ IntentExplainsOneFill'
<1>1. CASE Match
  BY <1>1, ExplainedByMatch
<1>2. CASE Outside
  BY <1>2 DEF Outside, Explained, IntentExplainsOneFill, Attributed, SaidOf
<1>3. CASE \E w \in unwritten : Record(w)
  <2>1. Kept /\ UNCHANGED sync
         /\ \A i \in DOMAIN intents : intents'[i] = intents[i]
    BY <1>3, RecordKeeps DEF Record
  <2> QED BY <2>1 DEF Kept, Explained, IntentExplainsOneFill, Attributed, SaidOf
<1>4. CASE Inside /\ ~Match
  <2>1. sync'.said = sync.said /\ Kept
    BY <1>4 DEF Inside
  <2>2. IntentExplainsOneFill'
    BY <2>1 DEF IntentExplainsOneFill, Attributed, SaidOf
  <2>3. ASSUME NEW f \in DOMAIN sync.said, sync.said[f].via \in {"trigger", "window"}
        PROVE  /\ sync.said[f].intent \in DOMAIN intents'
               /\ \/ intents'[sync.said[f].intent].consumed
                  \/ sync'.pc = "mark" /\ f = sync'.next /\ sync'.found = sync.said[f].intent
    <3>1. sync.said[f].intent \in DOMAIN intents'
      BY <2>1, <2>3 DEF Explained, Kept
    <3>2. CASE intents[sync.said[f].intent].consumed
      BY <2>1, <2>3, <3>1, <3>2 DEF Explained, Kept
    <3>3. CASE sync.pc = "mark" /\ f = sync.next /\ sync.found = sync.said[f].intent
      <4>1. CASE Mark
        BY <3>1, <3>3, <4>1, MarkKeeps
      <4>2. CASE UNCHANGED sync
        BY <3>1, <3>3, <4>2
      <4> QED BY <1>4, <3>3, <4>1, <4>2 DEF Inside
    <3> QED BY <2>3, <3>1, <3>2, <3>3 DEF Explained
  <2> QED BY <2>1, <2>2, <2>3 DEF Explained
<1> QED BY <1>1, <1>2, <1>3, <1>4, Steps

\* A protection intent, and one matched by time window, explains one fill only:
\* the match selects unconsumed intents, and nothing is selected between the
\* SELECT of a match and the UPDATE that marks its intent consumed.
THEOREM OneFillPerIntent == Spec => []IntentExplainsOneFill
<1> DEFINE IInv == Types /\ Explained /\ IntentExplainsOneFill
<1>1. Init => IInv
  BY InitTypes DEF Init, Explained, IntentExplainsOneFill, Attributed
<1>2. IInv /\ [Next]_vars => IInv'
  <2>1. CASE Next
    BY <2>1, Steps, ExplainedStep
  <2>2. CASE UNCHANGED vars
    BY <2>2, StutterKeeps DEF vars, Explained, IntentExplainsOneFill, Attributed, SaidOf
  <2> QED BY <2>1, <2>2
<1>3. IInv => IntentExplainsOneFill
  OBVIOUS
<1> QED BY <1>1, <1>2, <1>3, PTL DEF Spec

-----------------------------------------------------------------------------
(* No tier of an earlier position *)

\* An intent is recorded before the positions after its own are entered.
Dated ==
  /\ \A i \in DOMAIN intents :
       /\ intents[i].time <= now
       /\ \A q \in DOMAIN entered : q > intents[i].pos => intents[i].time < entered[q]
  /\ \A w \in unwritten : w.pos = Len(entered)

\* What the dates range over.
LEMMA DatedTypes ==
  ASSUME Types
  PROVE  /\ Len(entered) \in Nat /\ DOMAIN entered = 1 .. Len(entered) /\ now \in Nat
         /\ \A q \in DOMAIN entered : entered[q] \in Nat
         /\ \A i \in DOMAIN intents : intents[i].time \in Nat /\ intents[i].pos \in Nat
<1>1. entered \in Seq(0 .. MaxTime) /\ now \in 0 .. MaxTime
      /\ \A i \in DOMAIN intents : intents[i] \in Intent
  BY DEF Types
<1>2. \A i \in DOMAIN intents : intents[i].time \in 0 .. MaxTime /\ intents[i].pos \in 1 .. MaxPos
  BY <1>1 DEF Intent
<1> QED BY <1>1, <1>2, IntentsAssumption

\* With prompt writing, every step keeps the dates in order.
LEMMA DatedStep ==
  ASSUME Types, Prompt, Dated, Next
  PROVE  Dated'
<1>1. CASE OpenPosition
  <2>1. UNCHANGED <<intents, unwritten>> /\ unwritten = {} /\ now' = now + 1
         /\ entered' = Append(entered, now')
    BY <1>1 DEF OpenPosition, Later
  <2>2. DOMAIN entered' = 1 .. Len(entered) + 1 /\ entered'[Len(entered) + 1] = now'
         /\ \A q \in DOMAIN entered : entered'[q] = entered[q]
    <3>1. entered \in Seq(0 .. MaxTime) /\ now' \in Nat
      BY <2>1, DatedTypes DEF Types
    <3> QED BY <2>1, <3>1
  <2>3. ASSUME NEW i \in DOMAIN intents
        PROVE  /\ intents[i].time <= now'
               /\ \A q \in DOMAIN entered' : q > intents[i].pos => intents[i].time < entered'[q]
    <3>1. intents[i].time <= now
      BY DEF Dated
    <3>2. intents[i].time < now'
      BY <2>1, <3>1, DatedTypes
    <3> QED BY <2>1, <2>2, <3>2, DatedTypes DEF Dated
  <2> QED BY <2>1, <2>3 DEF Dated
<1>2. CASE Outside /\ ~OpenPosition
  <2>1. UNCHANGED <<intents, entered>> /\ now <= now'
    BY <1>2 DEF Outside
  <2>2. \A w \in unwritten' : w.pos = Len(entered)
    BY <1>2 DEF Outside, UnwrittenGrow, Dated
  <2>3. now' \in Nat
    BY Steps, IntentsAssumption DEF Types
  <2>4. \A i \in DOMAIN intents : intents[i].time <= now'
    BY <2>1, <2>3, DatedTypes DEF Dated
  <2> QED BY <2>1, <2>2, <2>4 DEF Dated
<1>3. CASE \E w \in unwritten : Record(w)
  <2>1. PICK w \in unwritten : Record(w)
    BY <1>3
  <2>2. UNCHANGED <<now, entered>> /\ unwritten' \subseteq unwritten
    BY <2>1 DEF Record, exchange
  <2>3. w.pos = Len(entered) /\ w \in Intent
    BY DEF Dated, Types
  <2>4. intents'[Len(intents) + 1].pos = w.pos /\ intents'[Len(intents) + 1].time = now
    <3>1. intents'[Len(intents) + 1] = [w EXCEPT !.time = now]
      BY <2>1, RecordKeeps
    <3>2. w \in [order : Nat, reason : Causes \cup {"pruned"}, trigger : Nat,
               pos : 1 .. MaxPos, time : 0 .. MaxTime, consumed : BOOLEAN]
      BY <2>3 DEF Intent
    <3> QED BY <3>1, <3>2
  <2>5. \A i \in DOMAIN intents' :
          /\ intents'[i].time <= now
          /\ \A q \in DOMAIN entered : q > intents'[i].pos => intents'[i].time < entered[q]
    <3>1. \A i \in DOMAIN intents : intents'[i] = intents[i]
          /\ DOMAIN intents' = DOMAIN intents \cup {Len(intents) + 1}
      BY <2>1, RecordKeeps
    <3>2. ~\E q \in DOMAIN entered : q > intents'[Len(intents) + 1].pos
      BY <2>3, <2>4, DatedTypes
    <3>3. intents'[Len(intents) + 1].time <= now
      BY <2>4, DatedTypes
    <3>4. DOMAIN intents' = DOMAIN intents \cup {Len(intents) + 1}
      BY <2>1, RecordKeeps
    <3> QED BY <3>1, <3>2, <3>3, <3>4 DEF Dated
  <2> QED BY <2>2, <2>5 DEF Dated
<1>4. CASE Inside
  <2>1. UNCHANGED <<now, entered, unwritten>> /\ DOMAIN intents' = DOMAIN intents
        /\ \A i \in DOMAIN intents : intents'[i].pos = intents[i].pos
                                     /\ intents'[i].time = intents[i].time
    BY <1>4 DEF Inside, Kept
  <2> QED BY <2>1 DEF Dated
<1> QED BY <1>1, <1>2, <1>3, <1>4, Steps

\* What the trigger matcher found for a trade of the open row's position.
Bounded ==
  \A f \in DOMAIN sync.said :
    sync.said[f].via = "trigger" =>
      /\ sync.said[f].intent \in DOMAIN intents
      /\ sync.said[f].row = fills[f].pos => intents[sync.said[f].intent].pos >= fills[f].pos

\* Every step keeps what the trigger matcher found inside its position.
LEMMA BoundedStep ==
  ASSUME Types, Dated, Bounded, Next
  PROVE  Bounded'
<1>1. CASE Match
  <2> DEFINE g == sync.next
  <2>1. sync.pc = "next" /\ Polling /\ UNCHANGED <<intents, fills>>
    BY <1>1 DEF Match, exchange
  <2>2. /\ DOMAIN sync'.said = DOMAIN sync.said \cup {g} /\ g \in DOMAIN fills
        /\ \A f \in DOMAIN sync.said : sync'.said[f] = sync.said[f]
        /\ sync'.said[g] = Answer
    BY <1>1, MatchSays
  <2>3. ASSUME Answer.via = "trigger"
        PROVE  /\ Answer.intent \in DOMAIN intents
               /\ Answer.row = fills[g].pos => intents[Answer.intent].pos >= fills[g].pos
    <3>1. Answer = Attribution
      BY <1>1, <2>3, Answers
    <3>2. Answer.intent \in TriggerPriceCandidates(Cur.price, NotBefore) /\ Answer.row = row.pos
      BY <2>1, <2>3, <3>1, AttributionFacts
    <3>3. Answer.intent \in DOMAIN intents /\ intents[Answer.intent].time >= NotBefore
      BY <3>2 DEF TriggerPriceCandidates
    <3>4. ASSUME row.pos = fills[g].pos
          PROVE  intents[Answer.intent].pos >= fills[g].pos
      <4>1. fills[g].pos \in DOMAIN entered /\ fills[g].pos # 0
        <5>1. fills[g] \in Fill /\ fills[g].pos <= Len(entered)
          BY <2>2 DEF Types
        <5>2. fills[g].pos \in 1 .. MaxPos /\ MaxPos \in Nat
          BY <5>1, IntentsAssumption DEF Fill
        <5> QED BY <5>1, <5>2, DatedTypes
      <4>2. NotBefore = entered[fills[g].pos]
        BY <3>4, <4>1 DEF NotBefore, Flat
      <4>3. ~(intents[Answer.intent].time < entered[fills[g].pos])
        BY <3>3, <4>1, <4>2, DatedTypes
      <4>4. ~(fills[g].pos > intents[Answer.intent].pos)
        BY <3>3, <4>1, <4>3 DEF Dated
      <4> QED BY <3>3, <4>1, <4>4, DatedTypes
    <3> QED BY <3>2, <3>3, <3>4
  <2> HIDE DEF g
  <2> QED BY <2>1, <2>2, <2>3 DEF Bounded
<1>2. CASE ~Match
  <2>1. /\ sync'.said = sync.said /\ DOMAIN intents \subseteq DOMAIN intents'
        /\ \A i \in DOMAIN intents : intents'[i].pos = intents[i].pos
        /\ \A f \in DOMAIN fills : fills'[f] = fills[f]
    <3>1. CASE Outside
      BY <3>1 DEF Outside, FillsGrow
    <3>2. CASE \E w \in unwritten : Record(w)
      BY <3>2, RecordKeeps DEF Record, exchange, Kept
    <3>3. CASE Inside
      BY <1>2, <3>3 DEF Inside, Kept
    <3> QED BY <3>1, <3>2, <3>3, Steps
  <2>2. DOMAIN sync.said \subseteq DOMAIN fills
    BY SaidDomain
  <2> QED BY <2>1, <2>2 DEF Bounded
<1> QED BY <1>1, <1>2

\* A close synced while the row of its position is open is never explained by a
\* protection order of an earlier position: the search starts at the row's entry
\* time and, as intents are written promptly, every intent of an earlier
\* position is older than that.
THEOREM TierOfItsPosition == ASSUME Prompt PROVE Spec => []NoTierOfAnEarlierPosition
<1> DEFINE IInv == Types /\ Dated /\ Bounded
<1>1. Init => IInv
  BY InitTypes DEF Init, Dated, Bounded
<1>2. IInv /\ [Next]_vars => IInv'
  <2>1. CASE Next
    BY <2>1, Steps, DatedStep, BoundedStep
  <2>2. CASE UNCHANGED vars
    BY <2>2, StutterKeeps DEF vars, exchange, Dated, Bounded
  <2> QED BY <2>1, <2>2
<1>3. IInv => NoTierOfAnEarlierPosition
  BY DEF Bounded, NoTierOfAnEarlierPosition, Attributed, SaidOf
<1> QED BY <1>1, <1>2, <1>3, PTL DEF Spec

-----------------------------------------------------------------------------
(* One reason per order *)

\* Trades are numbered by order, and a poll fetches all trades of an order.
OrdersGrow ==
  /\ \A f \in DOMAIN fills : fills[f].order \in 1 .. f
  /\ \A f, g \in DOMAIN fills :
       fills[f].order = fills[g].order =>
         /\ fills[f].exact = fills[g].exact /\ fills[f].open = fills[g].open
         /\ f <= sync.upto => g <= sync.upto

\* No two intents are of one order.
OneIntentPerOrder ==
  /\ \A i \in DOMAIN intents : intents[i].order <= Len(fills)
  /\ \A i, j \in DOMAIN intents : intents[i].order = intents[j].order /\ intents[i].order # 0 => i = j
  /\ \A w \in unwritten :
       /\ w.order <= Len(fills)
       /\ w.order # 0 => /\ \A v \in unwritten : v.order = w.order => v = w
                         /\ \A i \in DOMAIN intents : intents[i].order # w.order

\* The intent of an order stays as it was until all fetched trades are matched.
OrderHeld ==
  \A f \in DOMAIN sync.said :
    sync.said[f].via = "order" =>
      /\ ~fills[f].exact /\ ~fills[f].open
      /\ \A g \in DOMAIN fills :
           (g > Len(sync.said) /\ g <= sync.upto /\ fills[g].order = fills[f].order) =>
             /\ sync.said[f].intent \in DOMAIN intents
             /\ intents[sync.said[f].intent].order = fills[f].order
             /\ intents[sync.said[f].intent].reason = sync.said[f].reason

\* Every step keeps the trades numbered by their orders.
LEMMA OrdersGrowStep ==
  ASSUME Types, OrdersGrow, Next
  PROVE  OrdersGrow'
<1>1. CASE Outside
  <2>1. FillsGrow /\ sync' = sync
    BY <1>1 DEF Outside
  <2>2. /\ DOMAIN fills = 1 .. Len(fills) /\ Len(fills) \in Nat
        /\ sync.upto <= Len(fills) /\ sync.upto \in Nat
    BY SaidDomain
  <2>3. DOMAIN fills' = 1 .. Len(fills') /\ Len(fills') \in Nat
    BY Steps DEF Types
  <2>4. \A g \in DOMAIN fills' \ DOMAIN fills : fills'[g].order = Len(fills) + 1 /\ g > Len(fills) /\ g \in Nat
    BY <2>1, <2>2, <2>3 DEF FillsGrow, NextOrder
  <2>5. \A f \in DOMAIN fills : fills[f].order \in Nat /\ fills[f].order <= Len(fills)
                                /\ fills[f].order \in 1 .. f
    BY <2>2 DEF OrdersGrow
  <2>6. \A f \in DOMAIN fills' : fills'[f].order \in 1 .. f
    <3> SUFFICES ASSUME NEW f \in DOMAIN fills' PROVE fills'[f].order \in 1 .. f
      OBVIOUS
    <3>1. CASE f \in DOMAIN fills
      BY <2>1, <2>5, <3>1 DEF FillsGrow
    <3>2. CASE f \notin DOMAIN fills
      BY <2>2, <2>4, <3>2
    <3> QED BY <3>1, <3>2
  <2>7. \A f, g \in DOMAIN fills' :
          fills'[f].order = fills'[g].order =>
            /\ fills'[f].exact = fills'[g].exact /\ fills'[f].open = fills'[g].open
            /\ f <= sync.upto => g <= sync.upto
    <3> SUFFICES ASSUME NEW f \in DOMAIN fills', NEW g \in DOMAIN fills',
                        fills'[f].order = fills'[g].order
                 PROVE  /\ fills'[f].exact = fills'[g].exact /\ fills'[f].open = fills'[g].open
                        /\ f <= sync.upto => g <= sync.upto
      OBVIOUS
    <3>1. CASE f \in DOMAIN fills /\ g \in DOMAIN fills
      BY <2>1, <3>1 DEF FillsGrow, OrdersGrow
    <3>2. CASE f \notin DOMAIN fills /\ g \notin DOMAIN fills
      <4>1. ~(f <= sync.upto)
        BY <2>2, <2>4, <3>2
      <4> QED BY <2>1, <3>2, <4>1 DEF FillsGrow
    <3>3. CASE f \in DOMAIN fills /\ g \notin DOMAIN fills
      <4>1. fills'[f] = fills[f]
        BY <2>1, <3>3 DEF FillsGrow
      <4> QED BY <2>2, <2>4, <2>5, <3>3, <4>1
    <3>4. CASE f \notin DOMAIN fills /\ g \in DOMAIN fills
      <4>1. fills'[g] = fills[g]
        BY <2>1, <3>4 DEF FillsGrow
      <4> QED BY <2>2, <2>4, <2>5, <3>4, <4>1
    <3> QED BY <3>1, <3>2, <3>3, <3>4
  <2> QED BY <2>1, <2>6, <2>7 DEF OrdersGrow
<1>2. CASE \E w \in unwritten : Record(w)
  BY <1>2 DEF Record, exchange, OrdersGrow
<1>3. CASE Inside
  <2>1. UNCHANGED fills /\ (sync'.upto = sync.upto \/ sync'.upto = Len(fills))
    BY <1>3 DEF Inside
  <2>2. \A g \in DOMAIN fills : g <= Len(fills)
    BY SaidDomain
  <2> QED BY <2>1, <2>2 DEF OrdersGrow
<1> QED BY <1>1, <1>2, <1>3, Steps

\* No step gives an order a second intent.
LEMMA OneIntentStep ==
  ASSUME Types, OneIntentPerOrder, Next
  PROVE  OneIntentPerOrder'
<1>0. /\ Len(fills) \in Nat /\ DOMAIN fills = 1 .. Len(fills)
      /\ \A i \in DOMAIN intents : intents[i].order \in Nat
      /\ \A w \in unwritten : w.order \in Nat
  <2>1. \A i \in DOMAIN intents : intents[i] \in Intent
    BY DEF Types
  <2>2. \A w \in unwritten : w \in Intent
    BY DEF Types
  <2> QED BY <2>1, <2>2 DEF Types, Intent
<1>1. CASE Outside
  <2>1. UNCHANGED intents /\ FillsGrow
    BY <1>1 DEF Outside
  <2>2. Len(fills') \in Nat /\ DOMAIN fills' = 1 .. Len(fills') /\ Len(fills) <= Len(fills')
    <3>1. Len(fills') \in Nat /\ DOMAIN fills' = 1 .. Len(fills')
      BY Steps DEF Types
    <3>2. CASE Len(fills) = 0
      BY <3>1, <3>2
    <3>3. CASE Len(fills) # 0
      <4>1. Len(fills) \in DOMAIN fills'
        BY <1>0, <2>1, <3>3 DEF FillsGrow
      <4> QED BY <3>1, <4>1
    <3> QED BY <3>1, <3>2, <3>3
  <2>3. /\ \A i \in DOMAIN intents : intents[i].order <= Len(fills')
        /\ \A w \in unwritten : w.order <= Len(fills')
    BY <1>0, <2>2 DEF OneIntentPerOrder
  <2>4. CASE UNCHANGED unwritten
    BY <2>1, <2>3, <2>4 DEF OneIntentPerOrder
  <2>5. CASE UnwrittenGrow
    <3>1. PICK w \in Intent :
            /\ unwritten' \subseteq unwritten \cup {w}
            /\ w \in unwritten' \ unwritten =>
                 w.order = 0 \/ (w.order = NextOrder /\ NextOrder \in DOMAIN fills')
      BY <2>5 DEF UnwrittenGrow
    <3>2. \A v \in unwritten' : v \in unwritten \/ (v = w /\ w \in unwritten' \ unwritten)
      BY <3>1
    <3>3. ASSUME w \in unwritten' \ unwritten
          PROVE  /\ w.order <= Len(fills')
                 /\ w.order # 0 => /\ \A v \in unwritten : v.order # w.order
                                   /\ \A i \in DOMAIN intents : intents[i].order # w.order
      <4>1. CASE w.order = 0
        BY <2>2, <4>1
      <4>2. CASE w.order = Len(fills) + 1 /\ Len(fills) + 1 \in DOMAIN fills'
        BY <1>0, <2>2, <4>2 DEF OneIntentPerOrder
      <4> QED BY <3>1, <3>3, <4>1, <4>2 DEF NextOrder
    <3>4. ASSUME NEW u \in unwritten'
          PROVE  /\ u.order <= Len(fills')
                 /\ u.order # 0 => /\ \A v \in unwritten' : v.order = u.order => v = u
                                   /\ \A i \in DOMAIN intents : intents[i].order # u.order
      <4>1. CASE u \in unwritten
        BY <2>3, <3>2, <3>3, <4>1 DEF OneIntentPerOrder
      <4>2. CASE u \notin unwritten
        BY <3>2, <3>3, <4>2
      <4> QED BY <4>1, <4>2
    <3> QED BY <2>1, <2>3, <3>4 DEF OneIntentPerOrder
  <2> QED BY <1>1, <2>4, <2>5 DEF Outside
<1>2. CASE \E w \in unwritten : Record(w)
  <2>1. PICK w \in unwritten : Record(w)
    BY <1>2
  <2> DEFINE n == Len(intents) + 1
  <2>2. /\ DOMAIN intents' = DOMAIN intents \cup {n}
        /\ \A i \in DOMAIN intents : intents'[i] = intents[i]
        /\ intents'[n] = [w EXCEPT !.time = now] /\ n \notin DOMAIN intents
    <3>1. DOMAIN intents = 1 .. Len(intents) /\ Len(intents) \in Nat
      BY DEF Types
    <3>2. n \notin DOMAIN intents
      BY <3>1
    <3> QED BY <2>1, <3>2, RecordKeeps
  <2>3. intents'[n].order = w.order
    <3>1. w \in [order : Nat, reason : Causes \cup {"pruned"}, trigger : Nat,
               pos : 1 .. MaxPos, time : 0 .. MaxTime, consumed : BOOLEAN]
      BY DEF Types, Intent
    <3>2. intents'[n] = [w EXCEPT !.time = now]
      BY <2>2
    <3> HIDE DEF n
    <3> QED BY <3>1, <3>2
  <2>4. UNCHANGED fills /\ unwritten' = unwritten \ {w}
    BY <2>1 DEF Record, exchange
  <2> HIDE DEF n
  <2>5. \A i \in DOMAIN intents' : intents'[i].order <= Len(fills)
    BY <2>2, <2>3 DEF OneIntentPerOrder
  <2>6. \A i, j \in DOMAIN intents' :
          intents'[i].order = intents'[j].order /\ intents'[i].order # 0 => i = j
    <3> SUFFICES ASSUME NEW i \in DOMAIN intents', NEW j \in DOMAIN intents',
                        intents'[i].order = intents'[j].order, intents'[i].order # 0
                 PROVE  i = j
      OBVIOUS
    <3>1. CASE i \in DOMAIN intents /\ j \in DOMAIN intents
      BY <2>2, <3>1 DEF OneIntentPerOrder
    <3>2. CASE i = n /\ j \in DOMAIN intents
      BY <2>2, <2>3, <3>2 DEF OneIntentPerOrder
    <3>3. CASE i \in DOMAIN intents /\ j = n
      BY <2>2, <2>3, <3>3 DEF OneIntentPerOrder
    <3> QED BY <2>2, <3>1, <3>2, <3>3
  <2>7. \A v \in unwritten' : v.order # 0 => \A i \in DOMAIN intents' : intents'[i].order # v.order
    <3> SUFFICES ASSUME NEW v \in unwritten', v.order # 0, NEW i \in DOMAIN intents',
                        intents'[i].order = v.order
                 PROVE  FALSE
      OBVIOUS
    <3>1. v \in unwritten /\ v # w
      BY <2>4
    <3>2. CASE i \in DOMAIN intents
      BY <2>2, <3>1, <3>2 DEF OneIntentPerOrder
    <3>3. CASE i = n
      BY <2>3, <3>1, <3>3 DEF OneIntentPerOrder
    <3> QED BY <2>2, <3>2, <3>3
  <2> QED BY <2>4, <2>5, <2>6, <2>7 DEF OneIntentPerOrder
<1>3. CASE Inside
  <2>1. UNCHANGED <<fills, unwritten>> /\ DOMAIN intents' = DOMAIN intents
        /\ \A i \in DOMAIN intents : intents'[i].order \in {intents[i].order, 0}
    BY <1>3 DEF Inside
  <2>2. \A i \in DOMAIN intents : intents'[i].order <= Len(fills)
    BY <1>0, <2>1 DEF OneIntentPerOrder
  <2>3. \A i, j \in DOMAIN intents : intents'[i].order = intents'[j].order /\ intents'[i].order # 0 => i = j
    BY <2>1 DEF OneIntentPerOrder
  <2> QED BY <2>1, <2>2, <2>3 DEF OneIntentPerOrder
<1> QED BY <1>1, <1>2, <1>3, Steps

\* The intent of an order that is still in the table explains its next trade.
LEMMA SameAnswer ==
  ASSUME Types, OneIntentPerOrder, sync.pc = "next", Polling, ~Cur.exact, ~Cur.open,
         NEW i \in DOMAIN intents, intents[i].order = Cur.order, Cur.order # 0
  PROVE  Answer.intent = i /\ Answer.reason = intents[i].reason
<1>1. MatchByOrderID(Cur.order) = {i}
  BY DEF MatchByOrderID, OneIntentPerOrder
<1>2. Newest({i}) = {i}
  <2>1. i \in Nat
    BY DEF Types
  <2>2. i <= i
    BY <2>1
  <2> QED BY <2>2 DEF Newest
<1>3. Answer = Attribution
  BY DEF Answer
<1>4. Attribution.via = "order"
  BY <1>1, <1>2, AttributionFacts
<1>5. Attribution.intent \in {i}
  BY <1>1, <1>2, <1>4, AttributionFacts
<1>6. i # 0
  BY DEF Types
<1> QED BY <1>3, <1>5, <1>6, AttributionFacts

\* No step gives an order's trades a second reason.
LEMMA ReasonStep ==
  ASSUME Types, OrdersGrow, OneIntentPerOrder, OrderHeld, OneReasonPerOrder, Next
  PROVE  OrderHeld' /\ OneReasonPerOrder'
<1>0. /\ DOMAIN sync.said = 1 .. Len(sync.said) /\ Len(sync.said) \in Nat
      /\ Len(sync.said) <= sync.upto /\ sync.upto <= Len(fills)
      /\ sync.upto \in Nat /\ Len(fills) \in Nat
      /\ DOMAIN fills = 1 .. Len(fills) /\ DOMAIN sync.said \subseteq DOMAIN fills
      /\ sync.pc # "next" => Polling
      /\ sync.pc = "next" => sync.next = Len(sync.said) + 1
  BY SaidDomain
<1>1. CASE Match
  <2> DEFINE g == sync.next
  <2>1. sync.pc = "next" /\ Polling /\ UNCHANGED <<intents, fills>>
    BY <1>1 DEF Match, exchange
  <2>2. /\ DOMAIN sync'.said = DOMAIN sync.said \cup {g} /\ g \notin DOMAIN sync.said
        /\ g \in DOMAIN fills /\ g <= sync.upto /\ g > Len(sync.said)
        /\ \A f \in DOMAIN sync.said : sync'.said[f] = sync.said[f] /\ f < g
        /\ sync'.said[g] = Answer /\ sync'.upto = sync.upto
        /\ Cur = fills[g]
    BY <1>0, <1>1, <2>1, MatchSays DEF Polling, Cur
  <2>3. Len(sync'.said) = g
    <3>1. sync'.said \in Seq(SaidRecord) /\ DOMAIN sync'.said = 1 .. g
      BY <1>0, <1>1, <2>1, <2>2, MatchSays
    <3> QED BY <1>0, <2>1, <3>1
  <2>4. ASSUME NEW f \in DOMAIN sync.said, fills[f].order = fills[g].order, sync.said[f].via = "order"
        PROVE  Answer.reason = sync.said[f].reason
    <3>1. ~fills[g].exact /\ ~fills[g].open
      BY <1>0, <2>2, <2>4 DEF OrdersGrow, OrderHeld
    <3>2. /\ sync.said[f].intent \in DOMAIN intents
          /\ intents[sync.said[f].intent].order = fills[g].order
          /\ intents[sync.said[f].intent].reason = sync.said[f].reason
      BY <2>2, <2>4 DEF OrderHeld
    <3>3. fills[g].order # 0
      BY <2>2 DEF OrdersGrow
    <3> QED BY <2>1, <2>2, <3>1, <3>2, <3>3, SameAnswer
  <2>5. ASSUME Answer.via = "order"
        PROVE  /\ ~fills[g].exact /\ ~fills[g].open
               /\ Answer.intent \in DOMAIN intents
               /\ intents[Answer.intent].order = fills[g].order
               /\ intents[Answer.intent].reason = Answer.reason
    <3>1. Answer = Attribution /\ ~Cur.open
      BY <1>1, <2>5, Answers
    <3>2. ~Cur.exact /\ Answer.intent \in Newest(MatchByOrderID(Cur.order))
      BY <2>1, <2>5, <3>1, AttributionFacts
    <3>3. Answer.intent \in DOMAIN intents /\ intents[Answer.intent].order = Cur.order
      BY <3>2 DEF Newest, MatchByOrderID
    <3>4. Answer.intent # 0
      BY <3>3 DEF Types
    <3> QED BY <2>1, <2>2, <3>1, <3>2, <3>3, <3>4, AttributionFacts
  <2> HIDE DEF g
  <2>6. OneReasonPerOrder'
    <3> SUFFICES ASSUME NEW f \in DOMAIN sync'.said, NEW h \in DOMAIN sync'.said, f < h,
                        fills[f].order = fills[h].order, sync'.said[f].via = "order"
                 PROVE  sync'.said[h].reason = sync'.said[f].reason
      BY <2>1 DEF OneReasonPerOrder, Attributed, SaidOf
    <3>1. f \in DOMAIN sync.said
      <4>1. \A e \in DOMAIN sync.said : ~(g < e)
        BY <1>0, <2>2
      <4>2. ~(g < g)
        BY <1>0, <2>2
      <4> QED BY <2>2, <4>1, <4>2
    <3>2. CASE h \in DOMAIN sync.said
      BY <2>2, <3>1, <3>2 DEF OneReasonPerOrder, Attributed, SaidOf
    <3>3. CASE h = g
      BY <2>2, <2>4, <3>1, <3>3
    <3> QED BY <2>2, <3>2, <3>3
  <2>7. OrderHeld'
    <3> SUFFICES ASSUME NEW f \in DOMAIN sync'.said, sync'.said[f].via = "order"
                 PROVE  /\ ~fills[f].exact /\ ~fills[f].open
                        /\ \A h \in DOMAIN fills :
                             (h > g /\ h <= sync.upto /\ fills[h].order = fills[f].order) =>
                               /\ sync'.said[f].intent \in DOMAIN intents
                               /\ intents[sync'.said[f].intent].order = fills[f].order
                               /\ intents[sync'.said[f].intent].reason = sync'.said[f].reason
      BY <2>1, <2>2, <2>3 DEF OrderHeld
    <3>1. CASE f = g
      BY <2>2, <2>5, <3>1
    <3>2. CASE f \in DOMAIN sync.said
      <4>1. \A h \in DOMAIN fills : h > g => h > Len(sync.said)
        BY <1>0, <2>2
      <4> QED BY <2>2, <3>2, <4>1 DEF OrderHeld
    <3> QED BY <2>2, <3>1, <3>2
  <2> QED BY <2>6, <2>7
<1>2. CASE Outside
  <2>1. UNCHANGED <<intents, sync>> /\ \A f \in DOMAIN fills : fills'[f] = fills[f]
    BY <1>2 DEF Outside, FillsGrow
  <2>2. OneReasonPerOrder'
    BY <1>0, <2>1 DEF OneReasonPerOrder, Attributed, SaidOf
  <2>3. \A g \in DOMAIN fills' : g > Len(sync.said) /\ g <= sync.upto => g \in DOMAIN fills
    <3>1. DOMAIN fills' \subseteq Nat
      BY Steps DEF Types
    <3> QED BY <1>0, <3>1
  <2>4. OrderHeld'
    BY <1>0, <2>1, <2>3 DEF OrderHeld
  <2> QED BY <2>2, <2>4
<1>3. CASE \E w \in unwritten : Record(w)
  <2>1. /\ UNCHANGED <<fills, sync>> /\ DOMAIN intents \subseteq DOMAIN intents'
        /\ \A i \in DOMAIN intents : intents'[i] = intents[i]
    BY <1>3, RecordKeeps DEF Record, exchange, Kept
  <2> QED BY <2>1 DEF OneReasonPerOrder, Attributed, SaidOf, OrderHeld
<1>4. CASE Inside /\ ~Match
  <2>1. sync'.said = sync.said /\ UNCHANGED fills /\ DOMAIN intents' = DOMAIN intents
    BY <1>4 DEF Inside
  <2>2. OneReasonPerOrder'
    BY <2>1 DEF OneReasonPerOrder, Attributed, SaidOf
  <2>3. CASE Polling
    <3>1. sync'.upto = sync.upto /\ \A i \in DOMAIN intents :
            intents'[i].order = intents[i].order /\ intents'[i].reason = intents[i].reason
      BY <1>4, <2>3 DEF Inside
    <3>2. OrderHeld'
      BY <2>1, <3>1 DEF OrderHeld
    <3> QED BY <2>2, <3>2
  <2>4. CASE ~Polling
    <3>1. sync.upto <= Len(sync.said)
      BY <1>0, <2>4 DEF Polling
    <3>2. \A f \in DOMAIN sync.said, g \in DOMAIN fills :
            g > Len(sync.said) => fills[g].order # fills[f].order
      <4> SUFFICES ASSUME NEW f \in DOMAIN sync.said, NEW g \in DOMAIN fills,
                          g > Len(sync.said), fills[g].order = fills[f].order
                   PROVE  FALSE
        OBVIOUS
      <4>1. f <= sync.upto /\ f \in DOMAIN fills
        BY <1>0
      <4>2. g <= sync.upto
        BY <4>1 DEF OrdersGrow
      <4> QED BY <1>0, <3>1, <4>2
    <3>3. OrderHeld'
      BY <2>1, <3>2 DEF OrderHeld
    <3> QED BY <2>2, <3>3
  <2> QED BY <2>3, <2>4
<1> QED BY <1>1, <1>2, <1>3, <1>4, Steps

\* All fills of one close order carry one reason once one of them was matched by
\* order id: no other intent is of that order, a match by order id does not ask
\* whether the intent is consumed, and nothing but pruning, which waits for the
\* end of a poll, takes the order from it.
THEOREM OneReason == Spec => []OneReasonPerOrder
<1> DEFINE IInv == /\ Types /\ OrdersGrow /\ OneIntentPerOrder
                   /\ OrderHeld /\ OneReasonPerOrder
<1>1. Init => IInv
  BY InitTypes DEF Init, OrdersGrow, OneIntentPerOrder, OrderHeld, OneReasonPerOrder, Attributed
<1>2. IInv /\ [Next]_vars => IInv'
  <2>1. CASE Next
    BY <2>1, Steps, OrdersGrowStep, OneIntentStep, ReasonStep
  <2>2. CASE UNCHANGED vars
    BY <2>2, StutterKeeps
    DEF vars, exchange, OrdersGrow, OneIntentPerOrder, OrderHeld, OneReasonPerOrder, Attributed, SaidOf
  <2> QED BY <2>1, <2>2
<1>3. IInv => OneReasonPerOrder
  OBVIOUS
<1> QED BY <1>1, <1>2, <1>3, PTL DEF Spec

-----------------------------------------------------------------------------
(* The tiers of the live position *)

\* A position is opened: one trade, later than all before.
Opens ==
  /\ held = Flat
  /\ held' = [pos |-> Len(entered) + 1, lots |-> Lots]
  /\ now' = now + 1 /\ entered' = Append(entered, now')
  /\ fills' \in Seq(Fill) /\ Len(fills') = Len(fills) + 1
  /\ \A f \in DOMAIN fills : fills'[f] = fills[f]
  /\ LET g == fills'[Len(fills) + 1]
     IN g.open /\ g.pos = Len(entered) + 1 /\ g.time = now'

\* Lots of the position that is held are closed, one trade each.
Closes(n) ==
  /\ held # Flat /\ n \in 1 .. held.lots
  /\ held' = Left(n)
  /\ now' = now + 1 /\ UNCHANGED entered
  /\ fills' \in Seq(Fill) /\ Len(fills') = Len(fills) + n
  /\ \A f \in DOMAIN fills : fills'[f] = fills[f]
  /\ \A g \in Len(fills) + 1 .. Len(fills) + n :
       ~fills'[g].open /\ fills'[g].pos = held.pos /\ fills'[g].time = now'

\* What is traded when a position is opened.
LEMMA OpenOpens == ASSUME Types, OpenPosition PROVE Opens
<1> DEFINE trade == Trade(held'.pos, "open", TRUE, CHOOSE p \in Prices : TRUE)
<1>1. fills \in Seq(Fill) /\ fills' \in Seq(Fill) /\ fills' = Append(fills, trade)
      /\ held' = [pos |-> Len(entered) + 1, lots |-> Lots]
  BY OpenTypes DEF Types, OpenPosition
<1>2. trade.open /\ trade.pos = Len(entered) + 1 /\ trade.time = now'
  BY <1>1 DEF Trade
<1> HIDE DEF trade
<1>3. Len(fills') = Len(fills) + 1 /\ fills'[Len(fills) + 1] = trade
      /\ \A f \in DOMAIN fills : fills'[f] = fills[f]
  BY <1>1
<1> QED BY <1>1, <1>2, <1>3 DEF Opens, OpenPosition, Later

\* Trades appended, one for each lot that is closed.
LEMMA ClosesBy ==
  ASSUME Types, held # Flat, Later, UNCHANGED entered, NEW n \in 1 .. held.lots, held' = Left(n),
         NEW new \in Seq(Fill), Len(new) = n, fills' = fills \o new,
         \A i \in DOMAIN new : ~new[i].open /\ new[i].pos = held.pos /\ new[i].time = now'
  PROVE  Closes(n)
<1>1. /\ fills' \in Seq(Fill) /\ Len(fills') = Len(fills) + n
      /\ \A f \in 1 .. Len(fills) + n :
           fills'[f] = IF f <= Len(fills) THEN fills[f] ELSE new[f - Len(fills)]
  <2>1. fills \in Seq(Fill)
    BY DEF Types
  <2>2. /\ fills \o new \in Seq(Fill) /\ Len(fills \o new) = Len(fills) + Len(new)
        /\ \A f \in 1 .. Len(fills) + Len(new) :
             (fills \o new)[f] = IF f <= Len(fills) THEN fills[f] ELSE new[f - Len(fills)]
    BY <2>1, ConcatProperties
  <2> QED BY <2>2
<1>2. Len(fills) \in Nat /\ n \in Nat /\ DOMAIN fills = 1 .. Len(fills) /\ DOMAIN new = 1 .. n
  BY HeldType DEF Types
<1>3. \A f \in DOMAIN fills : fills'[f] = fills[f]
  BY <1>1, <1>2
<1>4. \A g \in Len(fills) + 1 .. Len(fills) + n :
        g - Len(fills) \in DOMAIN new /\ fills'[g] = new[g - Len(fills)]
  BY <1>1, <1>2
<1> QED BY <1>1, <1>3, <1>4 DEF Closes, Later

\* What is traded when a tier fires.
LEMMA FireCloses ==
  ASSUME Types, NEW t \in Tiers, NEW exact \in BOOLEAN, TierFires(t, exact)
  PROVE  Closes(1)
<1>1. held # Flat /\ Later /\ held' = Left(1) /\ UNCHANGED entered /\ 1 \in 1 .. held.lots
  BY HeldType, IntentsAssumption DEF TierFires
<1>2. PICK p \in Slipped(t) : fills' = Append(fills, Trade(held.pos, t.reason, exact, p))
  BY DEF TierFires
<1> DEFINE trade == Trade(held.pos, t.reason, exact, p)
<1>3. trade \in Fill /\ ~trade.open /\ trade.pos = held.pos /\ trade.time = now'
  <2>1. p \in Prices /\ t.reason \in Causes /\ t.reason # "open"
    BY IntentsAssumption DEF Slipped, Causes
  <2>2. trade \in Fill
    BY <1>1, <2>1, HeldType, TradeType
  <2> QED BY <2>1, <2>2 DEF Trade
<1> HIDE DEF trade
<1>4. <<trade>> \in Seq(Fill) /\ fills' = fills \o <<trade>>
  <2>1. fills \in Seq(Fill) /\ fills' = Append(fills, trade)
    BY <1>2 DEF Types, trade
  <2> QED BY <1>3, <2>1, AppendIsConcat
<1>5. Len(<<trade>>) = 1 /\ \A i \in DOMAIN <<trade>> :
        ~<<trade>>[i].open /\ <<trade>>[i].pos = held.pos /\ <<trade>>[i].time = now'
  BY <1>3
<1> QED BY <1>1, <1>4, <1>5, ClosesBy

\* What is traded when the whole position is closed.
LEMMA MarketCloses ==
  ASSUME Types, NEW reason \in {"ai", "manual"}, NEW withId \in BOOLEAN, MarketClose(reason, withId)
  PROVE  Closes(held.lots)
<1>1. /\ held # Flat /\ Later /\ held' = Left(held.lots) /\ UNCHANGED entered
      /\ held.lots \in Nat \ {0} /\ reason \in Causes
  BY HeldType, IntentsAssumption DEF MarketClose, Left, Causes
<1>2. PICK p \in Prices :
        fills' = fills \o [i \in 1 .. held.lots |-> Trade(held.pos, reason, FALSE, p)]
  BY DEF MarketClose
<1> DEFINE trade == Trade(held.pos, reason, FALSE, p)
           new == [i \in 1 .. held.lots |-> trade]
<1>3. trade \in Fill /\ ~trade.open /\ trade.pos = held.pos /\ trade.time = now'
  <2>0. FALSE \in BOOLEAN
    OBVIOUS
  <2>1. trade \in Fill
    BY <1>1, <2>0, HeldType, TradeType
  <2> QED BY <2>1 DEF Trade
<1>4. fills' = fills \o new
  BY <1>2
<1> HIDE DEF trade
<1>5. new \in Seq(Fill) /\ Len(new) = held.lots /\ \A i \in DOMAIN new : new[i] = trade
  <2>1. new \in [1 .. held.lots -> Fill] /\ \A i \in DOMAIN new : new[i] = trade
    BY <1>3
  <2>2. new \in Seq(Fill)
    BY <1>1, <1>3, IsASeq
  <2> QED BY <1>1, <2>1, <2>2
<1>6. held.lots \in 1 .. held.lots
  BY <1>1
<1> HIDE DEF new
<1> QED BY <1>1, <1>3, <1>4, <1>5, <1>6, ClosesBy

\* The exchange opens, closes, or trades nothing.
LEMMA TradeKinds ==
  ASSUME Types, Next
  PROVE  \/ OpenPosition /\ Opens
         \/ (\E n \in 1 .. held.lots : Closes(n)) /\ UNCHANGED <<row, intents, sync>>
         \/ UNCHANGED <<held, entered, fills>> /\ now <= now'
<1>1. CASE OpenPosition
  BY <1>1, OpenOpens
<1>2. CASE \E t \in Tiers, e \in BOOLEAN : TierFires(t, e)
  <2>1. 1 \in 1 .. held.lots
    BY <1>2, HeldType, IntentsAssumption DEF TierFires
  <2> QED BY <1>2, <2>1, FireCloses DEF TierFires
<1>3. CASE \E reason \in {"ai", "manual"}, b \in BOOLEAN : MarketClose(reason, b)
  <2>1. held.lots \in 1 .. held.lots
    BY <1>3, HeldType, IntentsAssumption DEF MarketClose
  <2> QED BY <1>3, <2>1, MarketCloses DEF MarketClose
<1>4. CASE Tick
  BY <1>4, TickStep DEF Tick, exchange, Outside
<1>5. (\E b \in WithIds : ClosePositionByReason(b)) \/ ManualClose =>
        \E reason \in {"ai", "manual"}, b \in BOOLEAN : MarketClose(reason, b)
  BY IntentsAssumption DEF ClosePositionByReason, ManualClose
<1>6. now \in Nat
  BY DEF Types
<1>7. CASE \E t \in Tiers : PlaceProtection(t)
  BY <1>6, <1>7 DEF PlaceProtection
<1>8. CASE (\E w \in unwritten : Record(w)) \/ \E w \in manual : ApplyManual(w)
  <2>1. UNCHANGED <<now, exchange>>
    BY <1>8 DEF Record, ApplyManual
  <2> QED BY <1>6, <2>1 DEF exchange
<1>9. CASE Poll \/ Match \/ Mark \/ ProcessTrade
  BY <1>6, <1>9 DEF Poll, Match, Mark, ProcessTrade, exchange
<1>10. CASE Sweep \/ PruneStale
  <2>1. UNCHANGED <<now, exchange>>
    BY <1>10 DEF Sweep, PruneStale
  <2> QED BY <1>6, <2>1 DEF exchange
<1> QED BY <1>1, <1>2, <1>3, <1>4, <1>5, <1>7, <1>8, <1>9, <1>10 DEF Next

\* The trades of a position follow each other: its opening, then its closes, one
\* for each lot; what is held is what the last of them leave.
Follow ==
  /\ \A b, g \in DOMAIN fills : fills[b].open /\ fills[g].open /\ b < g => g - b > Lots
  /\ held = Flat => \A b \in DOMAIN fills : fills[b].open => Len(fills) - b >= Lots
  /\ held # Flat =>
       LET b == Len(fills) - (Lots - held.lots)
       IN /\ b \in DOMAIN fills /\ fills[b].open
          /\ \A f \in DOMAIN fills : f > b => ~fills[f].open
          /\ \A f \in DOMAIN fills : f < b => fills[f].pos < held.pos

\* It stays so while the exchange trades.
LEMMA FollowStep == ASSUME Types, Follow, Next PROVE Follow'
<1>0. /\ Len(fills) \in Nat /\ DOMAIN fills = 1 .. Len(fills) /\ Lots \in Nat \ {0}
      /\ Len(entered) \in Nat
      /\ \A f \in DOMAIN fills : fills[f].pos \in Nat /\ fills[f].pos <= Len(entered)
  <2>1. Len(fills) \in Nat /\ DOMAIN fills = 1 .. Len(fills) /\ \A f \in DOMAIN fills : fills[f] \in Fill
    BY DEF Types
  <2>2. \A f \in DOMAIN fills : fills[f].pos \in 1 .. MaxPos /\ MaxPos \in Nat
    BY <2>1, IntentsAssumption DEF Fill
  <2> QED BY <2>1, <2>2, IntentsAssumption DEF Types
<1>1. CASE Opens
  <2> DEFINE n == Len(fills)
  <2>1. DOMAIN fills' = 1 .. n + 1 /\ fills'[n + 1].open /\ held' # Flat /\ held'.lots = Lots
        /\ held'.pos = Len(entered) + 1
        /\ \A f \in 1 .. n : fills'[f] = fills[f]
    BY <1>0, <1>1 DEF Opens, Flat
  <2>2. \A b, g \in 1 .. n + 1 : fills'[b].open /\ fills'[g].open /\ b < g => g - b > Lots
    <3> SUFFICES ASSUME NEW b \in 1 .. n + 1, NEW g \in 1 .. n + 1, b < g, fills'[b].open, fills'[g].open
                 PROVE  g - b > Lots
      OBVIOUS
    <3>1. b \in 1 .. n /\ fills[b].open
      BY <1>0, <2>1
    <3>2. CASE g = n + 1
      BY <1>0, <1>1, <3>1, <3>2 DEF Follow, Opens
    <3>3. CASE g \in 1 .. n
      BY <1>0, <2>1, <3>1, <3>3 DEF Follow
    <3> QED BY <1>0, <3>2, <3>3
  <2>3. Len(fills') - (Lots - held'.lots) = n + 1
    BY <1>0, <1>1, <2>1 DEF Opens
  <2>4. \A f \in 1 .. n + 1 : f < n + 1 => fills'[f].pos < held'.pos
    BY <1>0, <2>1
  <2> HIDE DEF n
  <2>5. \A f \in 1 .. n + 1 : ~(f > n + 1)
    BY <1>0 DEF n
  <2>6. n + 1 \in 1 .. n + 1
    BY <1>0 DEF n
  <2> QED BY <2>1, <2>2, <2>3, <2>4, <2>5, <2>6 DEF Follow
<1>2. CASE \E n \in 1 .. held.lots : Closes(n)
  <2> DEFINE l == Len(fills)
             b == l - (Lots - held.lots)
  <2>1. PICK n \in 1 .. held.lots : Closes(n)
    BY <1>2
  <2>2. /\ held # Flat /\ held.lots \in 1 .. Lots /\ held.pos \in Nat /\ n \in Nat
        /\ b \in 1 .. l /\ fills[b].open
        /\ \A f \in 1 .. l : f > b => ~fills[f].open
        /\ \A f \in 1 .. l : f < b => fills[f].pos < held.pos
    <3>1. held # Flat /\ n \in 1 .. held.lots
      BY <2>1 DEF Closes
    <3>2. held.lots \in 1 .. Lots /\ held.pos = Len(entered)
      BY <3>1, HeldType
    <3>3. n \in Nat /\ held.pos \in Nat
      BY <1>0, <3>1, <3>2
    <3> QED BY <1>0, <3>1, <3>2, <3>3 DEF Follow
  <2>3. /\ DOMAIN fills' = 1 .. l + n /\ Len(fills') = l + n
        /\ \A f \in 1 .. l : fills'[f] = fills[f]
        /\ \A f \in 1 .. l + n : f > l => ~fills'[f].open
    <3>1. fills' \in Seq(Fill) /\ Len(fills') = l + n
      BY <2>1 DEF Closes
    <3>2. \A f \in 1 .. l : fills'[f] = fills[f]
      BY <1>0, <2>1 DEF Closes
    <3>3. \A f \in l + 1 .. l + n : ~fills'[f].open
      BY <2>1 DEF Closes
    <3>4. \A f \in 1 .. l + n : f > l => f \in l + 1 .. l + n
      BY <1>0, <2>2
    <3> QED BY <3>1, <3>2, <3>3, <3>4
  <2>4. \A f \in 1 .. l + n : fills'[f].open => f \in 1 .. l /\ fills[f].open /\ f <= b
    BY <1>0, <2>2, <2>3
  <2>5. \A c, g \in 1 .. l + n : fills'[c].open /\ fills'[g].open /\ c < g => g - c > Lots
    BY <1>0, <2>4 DEF Follow
  <2>6. CASE held' = Flat
    <3>1. n = held.lots
      <4>1. held.lots <= n
        BY <2>1, <2>2, <2>6 DEF Closes, Left, Flat
      <4> QED BY <1>0, <2>2, <4>1
    <3>2. \A c \in 1 .. l + n : fills'[c].open => (l + n) - c >= Lots
      BY <1>0, <2>2, <2>4, <3>1
    <3> QED BY <2>3, <2>5, <2>6, <3>2 DEF Follow
  <2>7. CASE held' # Flat
    <3>1. held'.lots = held.lots - n /\ held'.pos = held.pos
      <4>1. held \in [pos : {Len(entered)} \ {0}, lots : 1 .. Lots]
        BY <2>2 DEF Types, Held
      <4> QED BY <2>1, <2>7, <4>1 DEF Closes, Left
    <3>2. Len(fills') - (Lots - held'.lots) = b
      BY <1>0, <2>2, <2>3, <3>1
    <3>3. /\ b \in 1 .. l + n /\ fills'[b].open
          /\ \A f \in 1 .. l + n : f > b => ~fills'[f].open
          /\ \A f \in 1 .. l + n : f < b => fills'[f].pos < held'.pos
      <4>1. l \in Nat /\ n \in Nat /\ b \in 1 .. l
        BY <1>0, <2>2
      <4> HIDE DEF b, l
      <4>2. b \in 1 .. l + n /\ \A f \in 1 .. l + n : f < b => f \in 1 .. l
        BY <4>1
      <4>3. fills'[b].open
        BY <2>2, <2>3, <4>1
      <4>4. \A f \in 1 .. l + n : f > b => ~fills'[f].open
        BY <2>4, <4>1
      <4>5. \A f \in 1 .. l + n : f < b => fills'[f].pos < held'.pos
        BY <2>2, <2>3, <3>1, <4>2
      <4> QED BY <4>2, <4>3, <4>4, <4>5
    <3> HIDE DEF b
    <3> QED BY <2>3, <2>5, <2>7, <3>2, <3>3 DEF Follow
  <2> QED BY <2>6, <2>7
<1>3. CASE UNCHANGED <<held, entered, fills>>
  BY <1>3 DEF Follow
<1> QED BY <1>1, <1>2, <1>3, TradeKinds

\* The open row has the lots of a position whose opening and first closes are
\* booked.
Counted ==
  row # Flat =>
    \E b \in DOMAIN fills :
      /\ b < sync.next /\ fills[b].open
      /\ \A f \in DOMAIN fills : b < f /\ f < sync.next => ~fills[f].open
      /\ row.lots = Lots - (sync.next - 1 - b) /\ row.lots >= 1

\* Trades stay as they were made.
LEMMA TradesStay ==
  ASSUME Types, Next
  PROVE  /\ \A f \in DOMAIN fills : f \in DOMAIN fills' /\ fills'[f] = fills[f]
         /\ \A f \in DOMAIN fills' : f < sync.next => f \in DOMAIN fills
<1>1. \A f \in DOMAIN fills : f \in DOMAIN fills' /\ fills'[f] = fills[f]
  <2>1. CASE Outside
    BY <2>1 DEF Outside, FillsGrow
  <2>2. CASE Inside \/ \E w \in unwritten : Record(w)
    BY <2>2 DEF Inside, Record, exchange
  <2> QED BY <2>1, <2>2, Steps
<1>2. sync.next \in Nat /\ Len(fills) \in Nat /\ sync.next <= Len(fills) + 1 /\ DOMAIN fills = 1 .. Len(fills)
  <2>1. sync.next \in Nat /\ sync.upto \in Nat /\ Len(fills) \in Nat /\ DOMAIN fills = 1 .. Len(fills)
        /\ sync.upto <= Len(fills) /\ (sync.next <= sync.upto + 1 \/ sync.next <= sync.upto)
    BY DEF Types, Synced
  <2> QED BY <2>1
<1>3. DOMAIN fills' \subseteq Nat \ {0}
  BY Steps DEF Types
<1> QED BY <1>1, <1>2, <1>3

\* Which steps book something on the row.
LEMMA RowKinds ==
  ASSUME Types, Next
  PROVE  \/ row' = row /\ sync'.next = sync.next
         \/ ProcessTrade
         \/ HandleClose(Lots, now) /\ sync' = sync
         \/ row' = Flat
<1>1. CASE OpenPosition \/ Tick \/ (\E t \in Tiers : PlaceProtection(t)) \/ PruneStale
  BY <1>1 DEF OpenPosition, Tick, PlaceProtection, PruneStale
<1>2. CASE \/ \E t \in Tiers, e \in BOOLEAN : TierFires(t, e)
           \/ \E w \in unwritten : Record(w)
  BY <1>2 DEF TierFires, Record
<1>3. CASE (\E b \in WithIds : ClosePositionByReason(b)) \/ ManualClose
  BY <1>3 DEF ClosePositionByReason, ManualClose, MarketClose
<1>4. CASE Poll \/ Match \/ Mark
  <2>1. row' = row /\ sync \in [pc : {"next", "mark", "apply"}, upto : Nat, next : Nat \ {0},
                                found : Nat, said : Seq(SaidRecord)]
    BY <1>4 DEF Poll, Match, Mark, Types, Synced
  <2>2. sync'.next = sync.next
    BY <1>4, <2>1 DEF Poll, Match, Mark
  <2> QED BY <2>1, <2>2
<1>5. CASE \E w \in manual : ApplyManual(w)
  BY <1>5 DEF ApplyManual
<1>6. CASE Sweep
  BY <1>6 DEF Sweep
<1> QED BY <1>1, <1>2, <1>3, <1>4, <1>5, <1>6 DEF Next

\* What a trade is booked on: an opening finds no open row, and a close takes a
\* lot of the row or closes it.
LEMMA Booked ==
  ASSUME Types, Follow, Counted, ProcessTrade
  PROVE  /\ sync'.next = sync.next + 1 /\ sync.next \in DOMAIN fills /\ fills' = fills
         /\ Cur.open => row = Flat /\ row' = [pos |-> Cur.pos, lots |-> Lots]
         /\ ~Cur.open => \/ row' = Flat
                         \/ row # Flat /\ row'.lots = row.lots - 1 /\ row'.lots >= 1
<1>1. /\ sync.next \in DOMAIN fills /\ DOMAIN fills = 1 .. Len(fills) /\ Len(fills) \in Nat
      /\ sync.next \in Nat /\ Lots \in Nat
  <2>1. sync.pc = "apply"
    BY DEF ProcessTrade
  <2>2. sync.next \in Nat \ {0} /\ sync.upto \in Nat /\ sync.next <= sync.upto
        /\ sync.upto <= Len(fills) /\ Len(fills) \in Nat /\ DOMAIN fills = 1 .. Len(fills)
    BY <2>1 DEF Types, Synced
  <2> QED BY <2>2, IntentsAssumption
<1>2. sync'.next = sync.next + 1 /\ fills' = fills
  BY DEF ProcessTrade, exchange, Types, Synced
<1>3. ASSUME Cur.open PROVE row = Flat /\ row' = [pos |-> Cur.pos, lots |-> Lots]
  <2>1. ASSUME row # Flat PROVE FALSE
    <3>1. PICK b \in DOMAIN fills : /\ b < sync.next /\ fills[b].open
                                    /\ row.lots = Lots - (sync.next - 1 - b) /\ row.lots >= 1
      BY <2>1 DEF Counted
    <3>2. sync.next - b > Lots
      BY <1>1, <1>3, <3>1 DEF Follow, Cur
    <3> QED BY <1>1, <3>1, <3>2
  <2> QED BY <1>3, <2>1 DEF ProcessTrade, HandleOpen
<1>4. ASSUME ~Cur.open
      PROVE  row' = Flat \/ (row # Flat /\ row'.lots = row.lots - 1 /\ row'.lots >= 1)
  <2>1. HandleClose(1, Cur.time)
    BY <1>4 DEF ProcessTrade
  <2>2. CASE row # Flat /\ 1 < row.lots /\ row' = [row EXCEPT !.lots = row.lots - 1]
    <3>1. row \in [pos : 1 .. Len(entered), lots : Int]
      BY <2>2 DEF Types, OpenRow
    <3> QED BY <2>2, <3>1
  <2> QED BY <2>1, <2>2 DEF HandleClose
<1> QED BY <1>1, <1>2, <1>3, <1>4

\* Every step keeps the count.
LEMMA CountedStep == ASSUME Types, Follow, Counted, Next PROVE Counted'
<1>0. sync.next \in Nat /\ Lots \in Nat \ {0} /\ DOMAIN fills \subseteq Nat
  BY IntentsAssumption DEF Types, Synced
<1>1. CASE row' = row /\ sync'.next = sync.next
  BY <1>1, TradesStay DEF Counted
<1>2. CASE ProcessTrade
  <2>1. CASE Cur.open
    <3>1. /\ row'.lots = Lots /\ sync'.next = sync.next + 1 /\ sync.next \in DOMAIN fills
          /\ fills' = fills /\ fills[sync.next].open
      BY <1>2, <2>1, Booked DEF Cur
    <3>2. /\ sync.next < sync'.next /\ row'.lots = Lots - (sync'.next - 1 - sync.next)
          /\ row'.lots >= 1
          /\ \A f \in DOMAIN fills' : ~(sync.next < f /\ f < sync'.next)
      BY <1>0, <3>1
    <3> QED BY <3>1, <3>2 DEF Counted
  <2>2. CASE ~Cur.open /\ row # Flat /\ row'.lots = row.lots - 1 /\ row'.lots >= 1
    <3>1. sync'.next = sync.next + 1 /\ fills' = fills /\ ~fills[sync.next].open
      BY <1>2, <2>2, Booked DEF Cur
    <3>2. PICK b \in DOMAIN fills :
            /\ b < sync.next /\ fills[b].open
            /\ \A f \in DOMAIN fills : b < f /\ f < sync.next => ~fills[f].open
            /\ row.lots = Lots - (sync.next - 1 - b)
      BY <2>2 DEF Counted
    <3>3. b < sync'.next /\ row'.lots = Lots - (sync'.next - 1 - b)
      BY <1>0, <2>2, <3>1, <3>2
    <3>4. \A f \in DOMAIN fills : b < f /\ f < sync'.next => ~fills[f].open
      BY <1>0, <3>1, <3>2
    <3> QED BY <2>2, <3>1, <3>2, <3>3, <3>4 DEF Counted
  <2>3. CASE row' = Flat
    BY <2>3 DEF Counted, Flat
  <2> QED BY <1>2, <2>1, <2>2, <2>3, Booked
<1>3. CASE HandleClose(Lots, now) /\ sync' = sync
  <2>1. row # Flat => row.lots <= Lots /\ row.lots \in Int
    <3>1. row # Flat => row.lots \in Int
      BY DEF Types, OpenRow
    <3> QED BY <1>0, <3>1 DEF Counted
  <2>2. row' = Flat \/ row' = row
    BY <1>0, <1>3, <2>1 DEF HandleClose
  <2>3. CASE row' = Flat
    BY <2>3 DEF Counted, Flat
  <2> QED BY <1>1, <1>3, <2>2, <2>3
<1>4. CASE row' = Flat
  BY <1>4 DEF Counted, Flat
<1> QED BY <1>1, <1>2, <1>3, <1>4, RowKinds

\* Trades and intents of a position come after its entry, and the trades of
\* earlier positions before it; what is to be recorded is not consumed.
Timed ==
  /\ \A q \in DOMAIN entered : entered[q] <= now
  /\ \A f \in DOMAIN fills :
       /\ fills[f].time <= now
       /\ held # Flat /\ fills[f].pos < held.pos => fills[f].time < entered[held.pos]
  /\ \A i \in DOMAIN intents :
       intents[i].pos \in DOMAIN entered /\ entered[intents[i].pos] <= intents[i].time
  /\ \A w \in unwritten : w.pos \in DOMAIN entered /\ ~w.consumed

\* The numbers these dates are.
LEMMA TimedTypes ==
  ASSUME Types
  PROVE  /\ Len(fills) \in Nat /\ DOMAIN fills = 1 .. Len(fills)
         /\ \A f \in DOMAIN fills : fills[f].time \in Nat /\ fills[f].pos \in Nat \ {0}
         /\ Len(intents) \in Nat /\ DOMAIN intents = 1 .. Len(intents)
<1>1. /\ Len(fills) \in Nat /\ DOMAIN fills = 1 .. Len(fills)
      /\ Len(intents) \in Nat /\ DOMAIN intents = 1 .. Len(intents)
      /\ \A f \in DOMAIN fills : fills[f] \in Fill
  BY DEF Types
<1>2. \A f \in DOMAIN fills : fills[f].time \in 0 .. MaxTime /\ fills[f].pos \in 1 .. MaxPos
  BY <1>1 DEF Fill
<1> QED BY <1>1, <1>2, IntentsAssumption

\* Every step keeps the dates.
LEMMA TimedStep == ASSUME Types, Timed, Next PROVE Timed'
<1>0. /\ Len(entered) \in Nat /\ DOMAIN entered = 1 .. Len(entered) /\ now \in Nat
      /\ entered \in Seq(0 .. MaxTime)
      /\ \A q \in DOMAIN entered : entered[q] \in Nat
      /\ \A i \in DOMAIN intents : intents[i].time \in Nat
  BY DatedTypes DEF Types
<1>1. /\ \A q \in DOMAIN entered' : entered'[q] <= now'
      /\ \A q \in DOMAIN entered : q \in DOMAIN entered' /\ entered'[q] = entered[q]
      /\ \A f \in DOMAIN fills' :
           /\ fills'[f].time <= now'
           /\ held' # Flat /\ fills'[f].pos < held'.pos => fills'[f].time < entered'[held'.pos]
  <2>1. CASE Opens
    <3> DEFINE l == Len(entered)
    <3>1. /\ now' = now + 1 /\ now' \in 0 .. MaxTime /\ held'.pos = l + 1
          /\ entered' = Append(entered, now')
      BY <2>1, Steps DEF Opens, Types
    <3>2. /\ DOMAIN entered' = 1 .. l + 1 /\ entered'[l + 1] = now'
          /\ \A q \in 1 .. l : entered'[q] = entered[q]
      BY <1>0, <3>1, AppendProperties
    <3>3. /\ DOMAIN fills' = 1 .. Len(fills) + 1
          /\ \A f \in DOMAIN fills : fills'[f] = fills[f]
          /\ fills'[Len(fills) + 1].time = now' /\ fills'[Len(fills) + 1].pos = l + 1
      BY <2>1, TimedTypes DEF Opens
    <3>4. \A q \in 1 .. l + 1 : entered'[q] <= now'
      BY <1>0, <3>1, <3>2 DEF Timed
    <3>5. ASSUME NEW f \in DOMAIN fills'
          PROVE  /\ fills'[f].time <= now'
                 /\ fills'[f].pos < l + 1 => fills'[f].time < now'
      <4>1. CASE f \in DOMAIN fills
        BY <1>0, <3>1, <3>3, <4>1, TimedTypes DEF Timed
      <4>2. CASE f = Len(fills) + 1
        BY <1>0, <3>1, <3>3, <4>2
      <4> QED BY <3>3, <4>1, <4>2, TimedTypes
    <3> QED BY <1>0, <3>1, <3>2, <3>4, <3>5
  <2>2. CASE \E n \in 1 .. held.lots : Closes(n)
    <3>1. PICK n \in 1 .. held.lots : Closes(n)
      BY <2>2
    <3>2. /\ held # Flat /\ now' = now + 1 /\ entered' = entered
          /\ DOMAIN fills' = 1 .. Len(fills) + n /\ n \in Nat
          /\ \A f \in DOMAIN fills : fills'[f] = fills[f]
          /\ \A g \in Len(fills) + 1 .. Len(fills) + n : fills'[g].pos = held.pos /\ fills'[g].time = now'
      <4>1. held.lots \in Nat
        BY <3>1, HeldType, IntentsAssumption DEF Closes
      <4> QED BY <3>1, <4>1 DEF Closes
    <3>3. held' # Flat => held'.pos = held.pos
      <4>1. held \in [pos : {Len(entered)} \ {0}, lots : 1 .. Lots]
        BY <3>2 DEF Types, Held
      <4> QED BY <3>1, <4>1 DEF Closes, Left
    <3>4. held.pos \in Nat
      BY <1>0, <3>2, HeldType
    <3>5. ASSUME NEW f \in DOMAIN fills'
          PROVE  /\ fills'[f].time <= now'
                 /\ fills'[f].pos < held.pos => fills'[f].time < entered[held.pos]
      <4>1. CASE f \in DOMAIN fills
        <5>1. fills'[f] = fills[f] /\ fills[f].time \in Nat
          BY <3>2, <4>1, TimedTypes
        <5>2. fills[f].time <= now
          BY <4>1 DEF Timed
        <5>3. fills[f].pos < held.pos => fills[f].time < entered[held.pos]
          BY <3>2, <4>1 DEF Timed
        <5> QED BY <1>0, <3>2, <5>1, <5>2, <5>3
      <4>2. CASE f \in Len(fills) + 1 .. Len(fills) + n
        BY <1>0, <3>2, <3>4, <4>2
      <4> QED BY <3>2, <4>1, <4>2, TimedTypes
    <3>6. \A q \in DOMAIN entered : entered[q] <= now'
      BY <1>0, <3>2 DEF Timed
    <3> QED BY <3>2, <3>3, <3>5, <3>6
  <2>3. CASE UNCHANGED <<held, entered, fills>> /\ now <= now'
    <3>1. now' \in Nat
      BY Steps DEF Types
    <3> QED BY <1>0, <2>3, <3>1, TimedTypes DEF Timed
  <2> QED BY <2>1, <2>2, <2>3, TradeKinds
<1>2. CASE \E w \in unwritten : Record(w)
  <2>1. PICK w \in unwritten : Record(w)
    BY <1>2
  <2>2. w \in Intent /\ UNCHANGED <<now, entered>> /\ unwritten' \subseteq unwritten
    BY <2>1 DEF Record, Types, exchange
  <2>3. ASSUME NEW i \in DOMAIN intents'
        PROVE  intents'[i].pos \in DOMAIN entered /\ entered[intents'[i].pos] <= intents'[i].time
    <3>1. CASE i \in DOMAIN intents
      BY <2>1, <3>1, RecordKeeps DEF Timed
    <3>2. CASE i = Len(intents) + 1
      <4>1. intents'[i].pos = w.pos /\ intents'[i].time = now
        <5>1. intents'[i] = [w EXCEPT !.time = now]
          BY <2>1, <3>2, RecordKeeps
        <5>2. [w EXCEPT !.time = now].pos = w.pos /\ [w EXCEPT !.time = now].time = now
          BY <2>2 DEF Intent
        <5> QED BY <5>1, <5>2
      <4> QED BY <4>1 DEF Timed
    <3> QED BY <2>1, <3>1, <3>2, RecordKeeps
  <2> QED BY <1>1, <2>2, <2>3 DEF Timed
<1>3. CASE Outside
  <2>1. UNCHANGED intents /\ \A w \in unwritten' : w \in unwritten \/ (w.pos = Len(entered) /\ ~w.consumed /\ w \in Intent)
    BY <1>3 DEF Outside, UnwrittenGrow
  <2>2. \A w \in Intent : w.pos = Len(entered) => w.pos \in DOMAIN entered
    <3>1. \A w \in Intent : w.pos \in 1 .. MaxPos
      BY DEF Intent
    <3> QED BY <1>0, <3>1, IntentsAssumption
  <2> QED BY <1>1, <2>1, <2>2 DEF Timed
<1>4. CASE Inside
  <2>1. UNCHANGED unwritten /\ DOMAIN intents' = DOMAIN intents /\ \A i \in DOMAIN intents :
          intents'[i].pos = intents[i].pos /\ intents'[i].time = intents[i].time
    BY <1>4 DEF Inside, Kept
  <2> QED BY <1>1, <2>1 DEF Timed
<1> QED BY <1>2, <1>3, <1>4, Steps

\* A close from the dashboard is applied before the next position is opened.
Handled == Prompt \/ Manual = {}

\* A manual close that is not applied yet finds the exchange flat.
Waits ==
  /\ manual \subseteq unwritten /\ (Manual = {} => manual = {})
  /\ manual # {} => held = Flat

\* Every step keeps it waiting so.
LEMMA WaitsStep == ASSUME Types, Handled, Waits, Next PROVE Waits'
<1>1. CASE OpenPosition
  <2>1. UNCHANGED <<unwritten, manual>> /\ manual = {}
    BY <1>1 DEF OpenPosition, Handled, Waits
  <2> QED BY <2>1 DEF Waits
<1>2. CASE \E t \in Tiers, e \in BOOLEAN : TierFires(t, e)
  <2>1. UNCHANGED <<unwritten, manual>> /\ manual = {}
    BY <1>2 DEF TierFires, Waits
  <2> QED BY <2>1 DEF Waits
<1>3. CASE \E b \in WithIds : ClosePositionByReason(b)
  <2>1. held' = Flat /\ manual' = manual /\ unwritten \subseteq unwritten'
    BY <1>3 DEF ClosePositionByReason, MarketClose
  <2> QED BY <2>1 DEF Waits
<1>4. CASE ManualClose
  <2>1. held' = Flat /\ manual' \subseteq unwritten' /\ Manual # {}
    BY <1>4 DEF ManualClose, MarketClose, Waits
  <2> QED BY <2>1 DEF Waits
<1>5. CASE \E t \in Tiers : PlaceProtection(t)
  BY <1>5 DEF PlaceProtection, Waits
<1>6. CASE \E w \in unwritten : Record(w)
  <2>1. held' = held /\ manual' = manual /\ manual \subseteq unwritten'
    BY <1>6 DEF Record, Waits, exchange
  <2> QED BY <2>1 DEF Waits
<1>7. CASE \E w \in manual : ApplyManual(w)
  <2>1. held' = held /\ manual' \subseteq manual /\ unwritten' = unwritten
    BY <1>7 DEF ApplyManual, exchange
  <2> QED BY <2>1 DEF Waits
<1>8. CASE Tick \/ Poll \/ Match \/ Mark \/ ProcessTrade
  <2>1. UNCHANGED <<held, manual, unwritten>>
    BY <1>8 DEF Tick, Poll, Match, Mark, ProcessTrade, exchange
  <2> QED BY <2>1 DEF Waits
<1>9. CASE Sweep \/ PruneStale
  <2>0. UNCHANGED <<exchange, manual, unwritten>>
    BY <1>9 DEF Sweep, PruneStale
  <2>1. UNCHANGED <<held, manual, unwritten>>
    BY <2>0 DEF exchange
  <2> QED BY <2>1 DEF Waits
<1> QED BY <1>1, <1>2, <1>3, <1>4, <1>5, <1>6, <1>7, <1>8, <1>9 DEF Next

\* The intent that is being marked is the one the trade is said to be explained by.
Marking == sync.pc = "mark" => sync.next \in DOMAIN sync.said /\ sync.said[sync.next].intent = sync.found

\* What was said is never taken back, and the intent to mark stays the same.
LEMMA SaidStays ==
  ASSUME Types, Marking, Next
  PROVE  /\ \A f \in DOMAIN sync.said : f \in DOMAIN sync'.said /\ sync'.said[f] = sync.said[f]
         /\ Marking'
<1>1. CASE Match
  BY <1>1, MatchSays DEF Marking
<1>2. CASE UNCHANGED sync
  BY <1>2 DEF Marking
<1>3. CASE Inside /\ ~Match /\ sync' # sync
  <2>1. sync'.said = sync.said
    BY <1>3 DEF Inside
  <2>2. sync'.pc # "mark"
    <3>1. sync \in [pc : {"next", "mark", "apply"}, upto : Nat, next : Nat \ {0},
                    found : Nat, said : Seq(SaidRecord)]
      BY DEF Types, Synced
    <3>2. CASE Poll
      <4>1. sync'.pc = sync.pc /\ ~Polling
        BY <3>1, <3>2 DEF Poll
      <4> QED BY <4>1, SaidDomain
    <3>3. CASE Mark \/ ProcessTrade
      BY <3>1, <3>3 DEF Mark, ProcessTrade
    <3>4. CASE ~Poll /\ ~Mark /\ ~ProcessTrade
      <4>1. CASE OpenPosition \/ Tick \/ (\E t \in Tiers : PlaceProtection(t)) \/ PruneStale \/ Sweep
        BY <1>3, <4>1 DEF OpenPosition, Tick, PlaceProtection, PruneStale, Sweep
      <4>2. CASE \/ \E t \in Tiers, e \in BOOLEAN : TierFires(t, e)
                 \/ \E w \in unwritten : Record(w)
                 \/ \E w \in manual : ApplyManual(w)
        BY <1>3, <4>2 DEF TierFires, Record, ApplyManual
      <4>3. CASE (\E b \in WithIds : ClosePositionByReason(b)) \/ ManualClose
        BY <1>3, <4>3 DEF ClosePositionByReason, ManualClose, MarketClose
      <4> QED BY <1>3, <3>4, <4>1, <4>2, <4>3 DEF Next
    <3> QED BY <3>2, <3>3, <3>4
  <2> QED BY <2>1, <2>2 DEF Marking
<1>4. CASE Outside \/ \E w \in unwritten : Record(w)
  BY <1>2, <1>4 DEF Outside, Record
<1> QED BY <1>1, <1>2, <1>3, <1>4, Steps

\* What consumes an intent: the fill it explains, a full close, or its age.
LEMMA Consumers ==
  ASSUME Types, Next, NEW i \in DOMAIN intents, ~intents[i].consumed, intents'[i].consumed
  PROVE  \/ Mark /\ i = sync.found
         \/ manual # {}
         \/ /\ ProcessTrade /\ ~Cur.open /\ row # Flat /\ ~(1 < row.lots)
            /\ intents[i].time <= Cur.time
         \/ intents[i].time < now - StaleAfter
<1>1. UNCHANGED intents => FALSE
  OBVIOUS
<1>2. ~Outside /\ ~(\E w \in unwritten : Record(w))
  BY <1>1, RecordKeeps DEF Outside
<1>3. ~(OpenPosition \/ Tick \/ (\E t \in Tiers : PlaceProtection(t)) \/ Poll \/ Match \/ Sweep)
  BY <1>1 DEF OpenPosition, Tick, PlaceProtection, Poll, Match, Sweep
<1>4. ~(\E t \in Tiers, e \in BOOLEAN : TierFires(t, e))
  BY <1>1 DEF TierFires
<1>5. ~((\E b \in WithIds : ClosePositionByReason(b)) \/ ManualClose)
  BY <1>1 DEF ClosePositionByReason, ManualClose, MarketClose
<1>6. CASE Mark
  <2>1. intents' = [intents EXCEPT ![sync.found].consumed = TRUE]
    BY <1>6 DEF Mark, Marked
  <2> QED BY <1>6, <2>1
<1>7. CASE ProcessTrade
  <2>1. ~Cur.open /\ HandleClose(1, Cur.time)
    BY <1>1, <1>7 DEF ProcessTrade, HandleOpen
  <2>2. row # Flat /\ ~(1 < row.lots) /\ intents' = Expire(intents, Cur.time)
    BY <1>1, <2>1 DEF HandleClose, Expired
  <2>3. intents[i].time <= Cur.time
    BY <2>2 DEF Expire
  <2> QED BY <1>7, <2>1, <2>2, <2>3
<1>8. CASE PruneStale
  BY <1>8 DEF PruneStale
<1> QED BY <1>2, <1>3, <1>4, <1>5, <1>6, <1>7, <1>8 DEF Next

\* While the position is held, its own closes leave lots on its row.
LEMMA LotsLeft ==
  ASSUME Types, Follow, Counted, ProcessTrade, ~Cur.open, row # Flat, held # Flat,
         ~(Cur.pos < held.pos)
  PROVE  1 < row.lots
<1> DEFINE n == sync.next
           b == Len(fills) - (Lots - held.lots)
<1>1. n \in DOMAIN fills /\ DOMAIN fills = 1 .. Len(fills) /\ Len(fills) \in Nat /\ Lots \in Nat
      /\ held.lots \in 1 .. Lots /\ Cur = fills[n]
  BY Booked, TimedTypes, HeldType, IntentsAssumption DEF Cur
<1>2. /\ b \in DOMAIN fills /\ fills[b].open
      /\ \A f \in DOMAIN fills : f > b => ~fills[f].open
      /\ \A f \in DOMAIN fills : f < b => fills[f].pos < held.pos
  BY DEF Follow
<1>3. PICK c \in DOMAIN fills :
        /\ c < n /\ fills[c].open
        /\ \A f \in DOMAIN fills : c < f /\ f < n => ~fills[f].open
        /\ row.lots = Lots - (n - 1 - c)
  BY DEF Counted
<1> HIDE DEF n
<1>4. b < n
  BY <1>1, <1>2
<1>5. c = b
  <2>1. ~(c < b)
    BY <1>1, <1>2, <1>3, <1>4
  <2>2. ~(c > b)
    BY <1>2, <1>3
  <2> QED BY <1>1, <1>2, <1>3, <2>1, <2>2
<1> QED BY <1>1, <1>3, <1>5

\* What the tiers of the live position owe their state to.
LiveInv == Types /\ Follow /\ Counted /\ Timed /\ Waits /\ Marking

\* A step that uses up a tier of the live position is the fill it explains.
LEMMA LiveStep ==
  ASSUME LiveInv, LiveTiersKept, Next
  PROVE  LiveTiersKept'
<1>0. Types /\ Follow /\ Counted /\ Timed /\ Waits /\ Marking /\ Types'
  BY Steps DEF LiveInv
<1>1. /\ Len(entered) \in Nat /\ DOMAIN entered = 1 .. Len(entered) /\ now \in Nat /\ now' \in Nat
      /\ StaleAfter \in Nat /\ \A q \in DOMAIN entered : entered[q] \in Nat
      /\ \A i \in DOMAIN intents : intents[i].time \in Nat /\ intents[i].pos \in Nat
  BY <1>0, DatedTypes, IntentsAssumption DEF Types
<1>2. SUFFICES ASSUME NEW i \in DOMAIN intents', intents'[i].consumed, intents'[i].trigger > 0,
                      intents'[i].pos = held'.pos, entered'[held'.pos] >= now' - StaleAfter
               PROVE  \E f \in DOMAIN sync'.said : sync'.said[f].intent = i
  BY DEF LiveTiersKept, Attributed, SaidOf
<1>3. i \in DOMAIN intents /\ intents'[i].pos = intents[i].pos /\ intents'[i].trigger = intents[i].trigger
      /\ intents'[i].time = intents[i].time
  <2>1. CASE \E w \in unwritten : Record(w)
    <3>1. PICK w \in unwritten : Record(w)
      BY <2>1
    <3>2. ASSUME i = Len(intents) + 1 PROVE FALSE
      <4>1. intents'[i] = [w EXCEPT !.time = now] /\ w \in Intent
        BY <1>0, <3>1, <3>2, RecordKeeps DEF Types
      <4>2. intents'[i].consumed = w.consumed
        BY <4>1 DEF Intent
      <4> QED BY <1>0, <1>2, <3>1, <4>2 DEF Timed
    <3> QED BY <1>0, <1>2, <3>1, <3>2, RecordKeeps
  <2>2. CASE Outside \/ Inside
    BY <1>2, <2>2 DEF Outside, Inside, Kept
  <2> QED BY <1>0, <2>1, <2>2, Steps
<1>4. held' # Flat /\ held # Flat /\ held'.pos = held.pos /\ entered' = entered /\ now <= now'
  <2>1. intents[i].pos \in DOMAIN entered
    BY <1>0, <1>3 DEF Timed
  <2>2. held'.pos # 0
    BY <1>1, <1>2, <1>3, <2>1
  <2>3. held' # Flat
    BY <2>2 DEF Flat
  <2>4. ASSUME Opens PROVE FALSE
    <3>1. held' = [pos |-> Len(entered) + 1, lots |-> Lots]
      BY <2>4 DEF Opens
    <3>2. held'.pos = Len(entered) + 1
      BY <3>1
    <3>3. intents[i].pos = Len(entered) + 1
      BY <1>2, <1>3, <3>2
    <3>4. intents[i].pos \in 1 .. Len(entered) /\ Len(entered) \in Nat
      BY <1>1, <2>1
    <3> QED BY <3>3, <3>4
  <2>5. CASE \E n \in 1 .. held.lots : Closes(n)
    <3>1. held # Flat /\ entered' = entered /\ now' = now + 1
      BY <2>5 DEF Closes
    <3>2. held \in [pos : {Len(entered)} \ {0}, lots : 1 .. Lots]
      BY <1>0, <3>1 DEF Types, Held
    <3>3. held'.pos = held.pos
      BY <2>3, <2>5, <3>2 DEF Closes, Left
    <3> QED BY <1>1, <2>3, <3>1, <3>3
  <2>6. CASE UNCHANGED <<held, entered, fills>> /\ now <= now'
    BY <2>3, <2>6
  <2> QED BY <1>0, <2>4, <2>5, <2>6, TradeKinds
<1>5. /\ held.pos = intents[i].pos /\ held.pos = Len(entered) /\ held.pos \in DOMAIN entered
      /\ entered[held.pos] >= now - StaleAfter /\ entered[held.pos] <= intents[i].time
      /\ intents[i].trigger > 0
  <2>1. held.pos = intents[i].pos /\ held.pos = Len(entered) /\ intents[i].trigger > 0
    BY <1>0, <1>2, <1>3, <1>4, HeldType
  <2>2. held.pos \in DOMAIN entered /\ entered[held.pos] <= intents[i].time
    BY <1>0, <1>3, <2>1 DEF Timed
  <2>3. entered[held.pos] >= now - StaleAfter
    BY <1>1, <1>2, <1>4, <2>2
  <2> QED BY <2>1, <2>2, <2>3
<1>6. CASE intents[i].consumed
  <2>1. PICK f \in DOMAIN sync.said : sync.said[f].intent = i
    BY <1>3, <1>5, <1>6 DEF LiveTiersKept, Attributed, SaidOf
  <2> QED BY <1>0, <2>1, SaidStays
<1>7. CASE ~intents[i].consumed
  <2>1. CASE Mark /\ i = sync.found
    <3>1. sync.next \in DOMAIN sync.said /\ sync.said[sync.next].intent = i
      BY <1>0, <2>1 DEF Mark, Marking
    <3> QED BY <1>0, <3>1, SaidStays
  <2>2. manual = {}
    BY <1>0, <1>4 DEF Waits
  <2>3. CASE /\ ProcessTrade /\ ~Cur.open /\ row # Flat /\ ~(1 < row.lots)
             /\ intents[i].time <= Cur.time
    <3>1. sync.next \in DOMAIN fills /\ Cur = fills[sync.next]
      BY <1>0, <2>3, Booked DEF Cur
    <3>2. CASE Cur.pos < held.pos
      <4>1. Cur.time < entered[held.pos] /\ Cur.time \in Nat
        BY <1>0, <1>4, <3>1, <3>2, TimedTypes DEF Timed
      <4> QED BY <1>1, <1>3, <1>5, <2>3, <4>1
    <3>3. CASE ~(Cur.pos < held.pos)
      BY <1>0, <1>4, <2>3, <3>3, LotsLeft
    <3> QED BY <3>2, <3>3
  <2>4. ~(intents[i].time < now - StaleAfter)
    BY <1>1, <1>3, <1>5
  <2> QED BY <1>0, <1>2, <1>3, <1>7, <2>1, <2>2, <2>3, <2>4, Consumers
<1> QED BY <1>6, <1>7

\* The tiers of the position that is live are used up by the fills they explain,
\* never by the close of an earlier position or by pruning, for every number of
\* positions, lots and tiers.  When a close from the dashboard may be applied
\* after the next position has opened, it is not so: that close expires
\* whatever was placed meanwhile.
THEOREM TiersKept == Handled => (Spec => []LiveTiersKept)
<1> SUFFICES ASSUME Handled PROVE Spec => []LiveTiersKept
  OBVIOUS
<1> DEFINE IInv == LiveInv /\ LiveTiersKept
<1>1. Init => IInv
  <2> SUFFICES ASSUME Init PROVE IInv
    OBVIOUS
  <2>1. Types
    BY InitTypes
  <2>2. DOMAIN fills = {} /\ DOMAIN intents = {} /\ DOMAIN entered = {}
    BY DEF Init
  <2> QED BY <2>1, <2>2 DEF Init, LiveInv, Follow, Counted, Timed, Waits, Marking, LiveTiersKept
<1>2. IInv /\ [Next]_vars => IInv'
  <2> SUFFICES ASSUME LiveInv, LiveTiersKept, [Next]_vars PROVE LiveInv' /\ LiveTiersKept'
    OBVIOUS
  <2>1. CASE Next
    <3>1. Types /\ Follow /\ Counted /\ Timed /\ Waits /\ Marking
      BY DEF LiveInv
    <3> QED BY <2>1, <3>1, Steps, FollowStep, CountedStep, TimedStep, WaitsStep, SaidStays, LiveStep
            DEF LiveInv
  <2>2. CASE UNCHANGED vars
    <3>1. UNCHANGED <<now, held, entered, fills, unwritten, intents, row, manual, sync>>
      BY <2>2 DEF vars
    <3>2. Types'
      BY <2>2, StutterKeeps DEF LiveInv
    <3> QED BY <3>1, <3>2 DEF LiveInv, Follow, Counted, Timed, Waits, Marking, LiveTiersKept, Attributed,
                          SaidOf
  <2> QED BY <2>1, <2>2
<1>3. IInv => LiveTiersKept
  OBVIOUS
<1> QED BY <1>1, <1>2, <1>3, PTL DEF Spec
=============================================================================
