------------------------ MODULE DecisionCycle_proofs ------------------------
(***************************************************************************)
(* Theorems about DecisionCycle, for any finite set of symbols, any limit  *)
(* on positions, any size of an entry and any endpoints.                   *)
(***************************************************************************)
EXTENDS DecisionCycle, FiniteSetTheorems, TLAPS

\* A set of symbols has no more of them than a larger one.
LEMMA FewerSymbols ==
  ASSUME NEW A \in SUBSET Symbols, NEW B \in SUBSET Symbols, A \subseteq B
  PROVE  Cardinality(A) \in Nat /\ Cardinality(B) \in Nat /\ Cardinality(A) <= Cardinality(B)
<1>1. IsFiniteSet(B)
  BY CycleAssumption, FS_Subset
<1> QED BY <1>1, FS_Subset, FS_CardinalityType

\* One symbol counts for one.
LEMMA OneSymbolMore ==
  ASSUME NEW A \in SUBSET Symbols, NEW s \in Symbols
  PROVE  Cardinality(A) <= Cardinality(A \ {s}) + 1
<1>1. IsFiniteSet(A)
  BY CycleAssumption, FS_Subset
<1>2. CASE s \in A
  <2>1. Cardinality(A \ {s}) = Cardinality(A) - 1 /\ Cardinality(A) \in Nat
    BY <1>1, <1>2, FS_RemoveElement, FS_CardinalityType
  <2> QED BY <2>1
<1>3. CASE s \notin A
  <2>1. A \ {s} = A /\ Cardinality(A) \in Nat
    BY <1>1, <1>3, FS_CardinalityType
  <2> QED BY <2>1
<1> QED BY <1>2, <1>3

-----------------------------------------------------------------------------
(* What the actions do to the entry, the account and the failures *)

Outer == {"rest", "ask", "decide"}
Buying == {"entry", "recheck", "order", "market"}

\* An entry has its symbol and a post-only order its lots; an order only goes
\* astray when its cancel fails, and an entry is only undone when its
\* protection failed.
EntryInv ==
  /\ step.at \in Outer => step.sym = NoSymbol /\ step.filled = 0
  /\ step.at \notin Outer => step.sym \in Symbols
  /\ step.at # "maker" => step.left = 0
  /\ step.at \in Buying => step.filled = 0
  /\ step.at = "maker" => step.left + step.filled = OpenSize
  /\ \A s \in Symbols : astray[s] > 0 => "cancel" \in failed
  /\ step.at = "undo" => "protect" \in failed
  /\ trader.venue = "fresh" => cache = {}

Inv == CycleTypeOK /\ EntryInv

\* The cycle's invariant holds at first.
LEMMA EntryInit == Init => Inv
<1> SUFFICES ASSUME Init PROVE Inv
  OBVIOUS
<1>1. /\ account \in [Symbols -> [lots : 0 .. OpenSize + 1, protected : BOOLEAN]]
      /\ astray \in [Symbols -> 0 .. OpenSize]
      /\ \A s \in Symbols : astray[s] = 0
  BY CycleAssumption DEF Init, Flat
<1>2. trader \in Trader
  <2>1. PICK m \in Modes : trader = [running |-> TRUE, safe |-> "off", failures |-> 0,
                                     maker |-> m.maker, venue |-> m.venue]
    BY DEF Init
  <2>2. m.maker \in {"off", "abort", "market"} /\ m.venue \in {"cached", "fresh"}
    BY CycleAssumption
  <2>3. 0 \in 0 .. FailureLimit
    BY CycleAssumption
  <2> QED BY <2>1, <2>2, <2>3 DEF Trader
<1>3. step \in Step /\ step.at = "rest" /\ step.sym = NoSymbol /\ step.left = 0 /\ step.filled = 0
  BY CycleAssumption DEF Init, Resting, Step
<1>4. cache = {} /\ failed = {}
  BY DEF Init
<1> QED BY <1>1, <1>2, <1>3, <1>4 DEF Inv, CycleTypeOK, EntryInv, Outer, Buying

\* A trader whose state changes stays a trader of its venue.
LEMMA TraderChanges ==
  ASSUME NEW t \in Trader
  PROVE  /\ [t EXCEPT !.running = FALSE] \in Trader /\ [t EXCEPT !.running = FALSE].venue = t.venue
         /\ [t EXCEPT !.safe = "protect"] \in Trader /\ [t EXCEPT !.safe = "protect"].venue = t.venue
         /\ [t EXCEPT !.safe = "off", !.failures = 0] \in Trader
         /\ [t EXCEPT !.safe = "off", !.failures = 0].venue = t.venue
         /\ LET r == [t EXCEPT !.failures = 0, !.safe = IF @ = "ai" THEN "off" ELSE @]
            IN r \in Trader /\ r.venue = t.venue
<1>1. 0 \in 0 .. FailureLimit
  BY CycleAssumption
<1>2. [t EXCEPT !.running = FALSE] \in Trader /\ [t EXCEPT !.running = FALSE].venue = t.venue
  BY DEF Trader
<1>3. [t EXCEPT !.safe = "protect"] \in Trader /\ [t EXCEPT !.safe = "protect"].venue = t.venue
  BY DEF Trader
<1>4. /\ [t EXCEPT !.safe = "off", !.failures = 0] \in Trader
      /\ [t EXCEPT !.safe = "off", !.failures = 0].venue = t.venue
  BY <1>1 DEF Trader
<1>5. ASSUME NEW f \in {"off", "ai", "protect"}
      PROVE  /\ [t EXCEPT !.failures = 0, !.safe = f] \in Trader
             /\ [t EXCEPT !.failures = 0, !.safe = f].venue = t.venue
  BY <1>1 DEF Trader
<1>6. (IF t.safe = "ai" THEN "off" ELSE t.safe) \in {"off", "ai", "protect"}
  BY DEF Trader
<1> QED BY <1>2, <1>3, <1>4, <1>5, <1>6

\* The steps that touch neither the account nor the entry in progress.
Quiet ==
  \/ StartCycle \/ Ask \/ AIFails \/ AIAnswers \/ CycleOver
  \/ \E s \in Symbols : OpenDecision(s)
  \/ Weather /\ UNCHANGED <<account, astray, cache, trader, step, failed>>
  \/ CacheAges \/ Operate

QuietEffect ==
  /\ UNCHANGED <<account, astray, failed>>
  /\ trader' \in Trader /\ trader'.venue = trader.venue
  /\ cache' \subseteq Symbols /\ (trader.venue = "fresh" => cache' = {})
  /\ step' \in Step
  /\ \/ step' = step
     \/ step.at \in Outer /\ step'.at \in Outer /\ step'.sym = NoSymbol
        /\ step'.left = 0 /\ step'.filled = 0
     \/ step.at \in Outer /\ step'.at = "entry" /\ step'.sym \in Symbols
        /\ step'.left = 0 /\ step'.filled = 0

\* The steps that trade nothing leave the positions and the orders alone.
LEMMA QuietStep == Inv /\ Quiet => QuietEffect
<1> SUFFICES ASSUME Inv, Quiet PROVE QuietEffect
  OBVIOUS
<1> USE DEF Inv, QuietEffect
<1>a. trader \in Trader /\ step \in Step /\ cache \subseteq Symbols /\ Held \subseteq Symbols
  BY DEF CycleTypeOK, Held
<1>b. trader.venue = "fresh" => cache = {}
  BY DEF EntryInv
<1>c. Keep(Seen) \subseteq Symbols /\ (trader.venue = "fresh" => Keep(Seen) = {})
  BY <1>a DEF Keep, Seen
<1>d. Resting \in Step /\ Resting.at = "rest" /\ Resting.sym = NoSymbol /\ Resting.left = 0 /\ Resting.filled = 0
  BY CycleAssumption DEF Resting, Step
<1>e. step.at \in Outer => step.sym = NoSymbol /\ step.left = 0 /\ step.filled = 0
  BY DEF EntryInv, Outer, Buying
<1>1. CASE StartCycle
  <2>1. step' = step \/ step' = [step EXCEPT !.at = "ask"]
    BY <1>1 DEF StartCycle, GoTo
  <2>2. step' \in Step /\ (step' = step \/ (step'.at = "ask" /\ step'.sym = step.sym /\ step'.left = step.left /\ step'.filled = step.filled))
    BY <1>a, <2>1 DEF Step
  <2>3. step.at = "rest" /\ (cache' = cache \/ cache' = Keep(Seen)) /\ UNCHANGED <<account, astray, trader, failed>>
    BY <1>1 DEF StartCycle
  <2> QED BY <1>a, <1>b, <1>c, <1>e, <2>2, <2>3 DEF Outer
<1>2. CASE Ask \/ (Weather /\ UNCHANGED <<account, astray, cache, trader, step, failed>>)
  BY <1>2, <1>a, <1>b DEF Ask
<1>3. CASE AIFails
  <2>1. step' = Resting /\ step.at = "ask" /\ UNCHANGED <<account, astray, cache, failed>>
    BY <1>3 DEF AIFails
  <2>2. trader' \in Trader /\ trader'.venue = trader.venue
    <3>1. PICK n \in 0 .. FailureLimit, f \in {"off", "ai", "protect"} :
             trader' = [trader EXCEPT !.failures = n, !.safe = f]
      <4>1. trader.failures \in 0 .. FailureLimit /\ trader.safe \in {"off", "ai", "protect"}
        BY <1>a DEF Trader
      <4> DEFINE n == IF trader.failures < FailureLimit THEN trader.failures + 1 ELSE FailureLimit
                 f == IF trader.safe = "off" /\ n = FailureLimit THEN "ai" ELSE trader.safe
      <4>2. n \in 0 .. FailureLimit
        BY <4>1, CycleAssumption
      <4>3. f \in {"off", "ai", "protect"}
        BY <4>1
      <4>4. trader' = [trader EXCEPT !.failures = n, !.safe = f]
        BY <1>3 DEF AIFails
      <4> QED BY <4>2, <4>3, <4>4
    <3> QED BY <1>a, <3>1 DEF Trader
  <2> QED BY <1>a, <1>b, <1>d, <2>1, <2>2 DEF Outer
<1>4. CASE AIAnswers
  <2>1. /\ step.at = "ask" /\ trader' = Recovered(trader) /\ UNCHANGED <<account, astray, cache, failed>>
        /\ \/ step' = Resting
           \/ \E c \in SUBSET Held, o \in SUBSET Symbols :
                step' = [Resting EXCEPT !.at = "decide", !.closes = c, !.opens = o]
    BY <1>4 DEF AIAnswers
  <2>2. trader' \in Trader /\ trader'.venue = trader.venue
    BY <1>a, <2>1, TraderChanges DEF Recovered
  <2>3. step' \in Step /\ step'.at \in Outer /\ step'.sym = NoSymbol /\ step'.left = 0 /\ step'.filled = 0
    BY <1>a, <1>d, <2>1 DEF Step, Outer
  <2> QED BY <1>a, <1>b, <2>1, <2>2, <2>3 DEF Outer
<1>5. CASE CycleOver
  BY <1>5, <1>a, <1>b, <1>d DEF CycleOver, Outer
<1>6. ASSUME NEW s \in Symbols, OpenDecision(s) PROVE QuietEffect
  <2>1. /\ step.at = "decide" /\ UNCHANGED <<account, astray, cache, trader, failed>>
        /\ \/ step' = [step EXCEPT !.opens = @ \ {s}]
           \/ step' = [step EXCEPT !.opens = @ \ {s}, !.at = "entry", !.sym = s]
    BY <1>6 DEF OpenDecision
  <2> DEFINE o == step.opens \ {s}
  <2>o. o \in SUBSET Symbols
    BY <1>a DEF Step
  <2>2. /\ step' \in Step /\ step'.left = step.left /\ step'.filled = step.filled
        /\ \/ step'.at = "decide" /\ step'.sym = step.sym
           \/ step'.at = "entry" /\ step'.sym = s
    <3>1. CASE step' = [step EXCEPT !.opens = o]
      BY <1>a, <2>1, <2>o, <3>1 DEF Step
    <3>2. CASE step' = [step EXCEPT !.opens = o, !.at = "entry", !.sym = s]
      BY <1>a, <2>o, <3>2 DEF Step
    <3> QED BY <2>1, <3>1, <3>2
  <2> QED BY <1>a, <1>b, <1>e, <2>1, <2>2 DEF Outer
<1>7. CASE CacheAges
  BY <1>7, <1>a, <1>b DEF CacheAges
<1>8. CASE Operate
  <2>1. trader' \in Trader /\ trader'.venue = trader.venue
    BY <1>8, <1>a, TraderChanges DEF Operate
  <2>2. UNCHANGED <<account, astray, cache, step, failed>>
    BY <1>8 DEF Operate
  <2> QED BY <1>a, <1>b, <2>1, <2>2
<1> QED BY <1>1, <1>2, <1>3, <1>4, <1>5, <1>6, <1>7, <1>8 DEF Quiet

-----------------------------------------------------------------------------
(* What the parts of the other actions do *)

Accounts == [Symbols -> [lots : 0 .. OpenSize + 1, protected : BOOLEAN]]
Strays == [Symbols -> 0 .. OpenSize]

\* Where the cycle goes from each of its steps.
LEMMA StepMoves ==
  ASSUME step \in Step
  PROVE  /\ EntryOver => /\ step' \in Step /\ step'.at = "decide" /\ step'.sym = NoSymbol
                         /\ step'.left = 0 /\ step'.filled = 0
         /\ \A p \in {"recheck", "order", "market", "protect", "undo"} :
              GoTo(p) => /\ step' \in Step /\ step'.at = p /\ step'.sym = step.sym
                         /\ step'.left = step.left /\ step'.filled = step.filled
<1>1. 0 \in 0 .. OpenSize
  BY CycleAssumption
<1>2. EntryOver => /\ step' \in Step /\ step'.at = "decide" /\ step'.sym = NoSymbol
                   /\ step'.left = 0 /\ step'.filled = 0
  BY <1>1 DEF EntryOver, Step
<1>3. ASSUME NEW p \in {"recheck", "order", "market", "protect", "undo"}, GoTo(p)
      PROVE  /\ step' \in Step /\ step'.at = p /\ step'.sym = step.sym
             /\ step'.left = step.left /\ step'.filled = step.filled
  BY <1>3 DEF GoTo, Step
<1> QED BY <1>2, <1>3

\* After an unfilled post-only order the market follows or the entry is over.
LEMMA UnfilledMoves ==
  ASSUME step \in Step, Unfilled
  PROVE  /\ step' \in Step /\ step'.left = 0 /\ step'.filled = 0
         /\ \/ step'.at = "market" /\ step'.sym = step.sym
            \/ step'.at = "decide" /\ step'.sym = NoSymbol
<1>1. 0 \in 0 .. OpenSize
  BY CycleAssumption
<1>2. CASE step' = [step EXCEPT !.at = "market", !.left = 0, !.filled = 0]
  BY <1>1, <1>2 DEF Step
<1> QED BY <1>2, StepMoves DEF Unfilled

\* What closing a symbol's position leaves.
LEMMA Closing ==
  ASSUME Inv, NEW s \in Symbols, ClosedAt(s)
  PROVE  /\ account' \in Accounts
         /\ \A r \in Symbols : account'[r] = IF r = s THEN Flat ELSE account[r]
         /\ astray' \in Strays
         /\ \A r \in Symbols : astray'[r] \in {0, astray[r]}
         /\ cache' \subseteq Symbols /\ (trader.venue = "fresh" => cache' = {})
<1>1. 0 \in 0 .. OpenSize /\ Flat \in [lots : 0 .. OpenSize + 1, protected : BOOLEAN]
  BY CycleAssumption DEF Flat
<1>2. account \in Accounts /\ astray \in Strays
  BY DEF Inv, CycleTypeOK, Accounts, Strays
<1>3. account' = [account EXCEPT ![s] = Flat]
      /\ astray' = [astray EXCEPT ![s] = IF s \in Held THEN 0 ELSE @] /\ cache' = Keep(Held)
  BY DEF ClosedAt
<1>4. account' \in Accounts /\ \A r \in Symbols : account'[r] = IF r = s THEN Flat ELSE account[r]
  BY <1>1, <1>2, <1>3 DEF Accounts
<1>5. astray' \in Strays /\ \A r \in Symbols : astray'[r] \in {0, astray[r]}
  BY <1>1, <1>2, <1>3 DEF Strays
<1>6. cache' \subseteq Symbols /\ (trader.venue = "fresh" => cache' = {})
  BY <1>3 DEF Keep, Held
<1> QED BY <1>4, <1>5, <1>6

\* What buying leaves of a symbol's size.
LEMMA BuyingLots ==
  ASSUME Inv, NEW s \in Symbols, NEW n \in 0 .. OpenSize, NEW b \in BOOLEAN, Bought(s, n, b)
  PROVE  /\ account' \in Accounts
         /\ \A r \in Symbols : r # s => account'[r] = account[r]
         /\ account'[s].lots = IF account[s].lots + n > OpenSize THEN OpenSize + 1
                               ELSE account[s].lots + n
         /\ account'[s].protected = b
<1>1. account \in Accounts /\ account[s] \in [lots : 0 .. OpenSize + 1, protected : BOOLEAN]
  BY DEF Inv, CycleTypeOK, Accounts
<1> DEFINE k == IF account[s].lots + n > OpenSize THEN OpenSize + 1 ELSE account[s].lots + n
<1>2. k \in 0 .. OpenSize + 1
  BY <1>1, CycleAssumption
<1>3. account' = [account EXCEPT ![s] = [lots |-> k, protected |-> b]]
  BY DEF Bought
<1>4. [lots |-> k, protected |-> b] \in [lots : 0 .. OpenSize + 1, protected : BOOLEAN]
  BY <1>2
<1> HIDE DEF k
<1>5. account' \in Accounts /\ account'[s] = [lots |-> k, protected |-> b]
      /\ \A r \in Symbols : r # s => account'[r] = account[r]
  BY <1>1, <1>3, <1>4 DEF Accounts
<1> USE DEF k
<1> QED BY <1>5

-----------------------------------------------------------------------------
(* Types and the entry in progress *)

\* Every step keeps the cycle's invariant.
LEMMA EntryStep == Inv /\ [Next]_vars => Inv'
<1> SUFFICES ASSUME Inv, [Next]_vars PROVE Inv'
  OBVIOUS
<1>a. /\ account \in Accounts /\ astray \in Strays /\ cache \subseteq Symbols
      /\ trader \in Trader /\ step \in Step /\ failed \subseteq Faults
  BY DEF Inv, CycleTypeOK, Accounts, Strays
<1>b. EntryInv
  BY DEF Inv
<1>c. Keep(Seen) \subseteq Symbols /\ (trader.venue = "fresh" => Keep(Seen) = {})
  BY <1>a DEF Keep, Seen, Held
<1> USE DEF Inv, CycleTypeOK, Accounts, Strays
<1>1. CASE UNCHANGED vars
  BY <1>1 DEF vars, EntryInv
<1>2. CASE Quiet
  <2>1. QuietEffect
    BY <1>2, QuietStep
  <2> QED BY <1>a, <1>b, <2>1, CycleAssumption DEF QuietEffect, EntryInv, Outer
<1>3. ASSUME NEW s \in Symbols, CloseDecision(s) PROVE Inv'
  <2>1. step.at = "decide" /\ step' = [step EXCEPT !.closes = @ \ {s}] /\ UNCHANGED <<trader, failed>>
        /\ ((UNCHANGED <<account, astray, cache>>) \/ ClosedAt(s))
    BY <1>3 DEF CloseDecision
  <2>2. step' \in Step /\ step'.at = step.at /\ step'.sym = step.sym /\ step'.left = step.left
        /\ step'.filled = step.filled
    BY <1>a, <2>1 DEF Step
  <2>3. CASE UNCHANGED <<account, astray, cache>>
    BY <1>a, <1>b, <2>1, <2>2, <2>3 DEF EntryInv, Outer, Buying
  <2>4. CASE ClosedAt(s)
    BY <1>a, <1>b, <2>1, <2>2, <2>4, Closing DEF EntryInv, Outer, Buying
  <2> QED BY <2>1, <2>3, <2>4
<1>4. CASE CheckEntry
  <2>1. step.at = "entry" /\ UNCHANGED <<trader, failed>>
    BY <1>4 DEF CheckEntry
  <2>2. CASE EntryOver /\ UNCHANGED <<account, astray>> /\ cache' \in {cache, Keep(Seen)}
    BY <1>a, <1>b, <1>c, <2>1, <2>2, StepMoves DEF EntryInv, Outer, Buying
  <2>3. CASE GoTo("order") /\ cache' = Keep(Seen) /\ UNCHANGED <<account, astray>>
    BY <1>a, <1>b, <1>c, <2>1, <2>3, StepMoves DEF EntryInv, Outer, Buying
  <2>4. ASSUME NEW v \in Seen, ClosedAt(v), GoTo("recheck") PROVE Inv'
    <3>1. v \in Symbols
      BY <1>a DEF Seen, Held
    <3> QED BY <1>a, <1>b, <2>1, <2>4, <3>1, StepMoves, Closing DEF EntryInv, Outer, Buying
  <2> QED BY <1>4, <2>2, <2>3, <2>4 DEF CheckEntry
<1>5. CASE Recheck
  <2>1. step.at = "recheck" /\ UNCHANGED <<account, astray, trader, failed>>
        /\ cache' \in {cache, Keep(Seen)} /\ (EntryOver \/ GoTo("order"))
    BY <1>5 DEF Recheck
  <2> QED BY <1>a, <1>b, <1>c, <2>1, StepMoves DEF EntryInv, Outer, Buying
<1>6. CASE PlaceEntry
  <2>1. step.at = "order" /\ UNCHANGED <<account, astray, cache, trader, failed>>
    BY <1>6 DEF PlaceEntry
  <2>2. CASE EntryOver \/ GoTo("market")
    BY <1>a, <1>b, <2>1, <2>2, StepMoves DEF EntryInv, Outer, Buying
  <2>3. CASE Unfilled
    BY <1>a, <1>b, <2>1, <2>3, UnfilledMoves DEF EntryInv, Outer, Buying
  <2>4. CASE step' = [step EXCEPT !.at = "maker", !.left = OpenSize]
    <3>1. step' \in Step /\ step'.at = "maker" /\ step'.left = OpenSize
          /\ step'.filled = step.filled /\ step'.sym = step.sym
      <4> DEFINE k == OpenSize
      <4>1. k \in 0 .. OpenSize
        BY CycleAssumption
      <4>2. step' = [step EXCEPT !.at = "maker", !.left = k]
        BY <2>4
      <4> HIDE DEF k
      <4>3. step' \in Step /\ step'.at = "maker" /\ step'.left = k
            /\ step'.filled = step.filled /\ step'.sym = step.sym
        BY <1>a, <4>1, <4>2 DEF Step
      <4> USE DEF k
      <4> QED BY <4>3
    <3>2. step.filled = 0
      BY <1>b, <2>1 DEF EntryInv, Buying
    <3> QED BY <1>a, <1>b, <2>1, <3>1, <3>2, CycleAssumption DEF EntryInv, Outer, Buying
  <2> QED BY <1>6, <2>2, <2>3, <2>4 DEF PlaceEntry
<1>7. CASE MakerFilled
  <2>1. step.at = "maker" /\ step.left = 0 /\ GoTo("protect") /\ UNCHANGED <<account, astray, cache, trader, failed>>
    BY <1>7 DEF MakerFilled
  <2> QED BY <1>a, <1>b, <2>1, StepMoves DEF EntryInv, Outer, Buying
<1>8. CASE MakerTimeout
  <2>1. step.at = "maker" /\ UNCHANGED <<account, cache, trader>>
    BY <1>8 DEF MakerTimeout
  <2>2. FinalState \/ Unfilled => /\ step' \in Step /\ step'.left = 0
                                  /\ \/ step'.at \in {"market", "protect"} /\ step'.sym = step.sym
                                     \/ step'.at = "decide" /\ step'.sym = NoSymbol
                                  /\ step'.at \in Buying \cup Outer => step'.filled = 0
    <3>1. CASE step' = [step EXCEPT !.at = "protect", !.left = 0]
      <4>1. 0 \in 0 .. OpenSize
        BY CycleAssumption
      <4>2. step' \in Step /\ step'.left = 0 /\ step'.at = "protect" /\ step'.sym = step.sym
        BY <1>a, <3>1, <4>1 DEF Step
      <4> QED BY <4>2 DEF Buying, Outer
    <3> QED BY <1>a, <3>1, UnfilledMoves DEF FinalState
  <2>3. failed' \subseteq Faults /\ failed \subseteq failed'
    BY <1>8, <1>a DEF MakerTimeout, Works, Fails
  <2>4. astray' \in Strays /\ \A s \in Symbols : astray'[s] > 0 => "cancel" \in failed'
    <3>1. CASE UNCHANGED astray
      BY <1>a, <1>b, <2>3, <3>1 DEF EntryInv
    <3>2. CASE Fails("cancel") /\ astray' = [astray EXCEPT ![step.sym] = @ + step.left]
      <4>1. \A s \in Symbols : astray[s] = 0
        BY <1>a, <1>b, <3>2 DEF EntryInv, Fails
      <4>2. step.left \in 0 .. OpenSize /\ step.sym \in Symbols
        BY <1>a, <1>b, <2>1 DEF EntryInv, Outer, Buying, Step
      <4>3. astray' \in Strays
        BY <1>a, <3>2, <4>1, <4>2
      <4> QED BY <3>2, <4>3 DEF Fails
    <3> QED BY <1>8, <3>1, <3>2 DEF MakerTimeout
  <2>5. FinalState \/ Unfilled
    BY <1>8 DEF MakerTimeout
  <2> QED BY <1>a, <1>b, <2>1, <2>2, <2>3, <2>4, <2>5 DEF EntryInv, Outer, Buying
<1>9. CASE MarketEntry
  <2>1. step.at = "market" /\ step.sym \in Symbols /\ UNCHANGED <<cache, trader>>
        /\ astray' = [astray EXCEPT ![step.sym] = 0]
    BY <1>9, <1>b DEF MarketEntry, EntryInv, Outer
  <2>2. failed' \subseteq Faults /\ failed \subseteq failed'
    BY <1>9, <1>a DEF MarketEntry, Works, Fails
  <2>3. astray' \in Strays /\ \A s \in Symbols : astray'[s] > 0 => "cancel" \in failed'
    BY <1>a, <1>b, <2>1, <2>2, CycleAssumption DEF EntryInv
  <2>4. account' \in Accounts
    <3>1. CASE UNCHANGED account
      BY <1>a, <3>1
    <3>2. CASE Bought(step.sym, OpenSize, FALSE)
      <4>1. OpenSize \in 0 .. OpenSize
        BY CycleAssumption
      <4> QED BY <2>1, <3>2, <4>1, BuyingLots
    <3> QED BY <1>9, <3>1, <3>2 DEF MarketEntry
  <2>5. EntryOver \/ GoTo("protect")
    BY <1>9 DEF MarketEntry
  <2> QED BY <1>a, <1>b, <2>1, <2>2, <2>3, <2>4, <2>5, StepMoves DEF EntryInv, Outer, Buying
<1>10. CASE Undo
  <2>1. step.at = "undo" /\ step.sym \in Symbols /\ UNCHANGED trader /\ EntryOver
    BY <1>10, <1>b DEF Undo, EmergencyClose, EntryInv, Outer
  <2>2. CASE Works /\ ClosedAt(step.sym)
    BY <1>a, <1>b, <2>1, <2>2, Closing, StepMoves DEF EntryInv, Outer, Buying, Works
  <2>3. CASE Fails("close") /\ UNCHANGED <<account, astray, cache>>
    BY <1>a, <1>b, <2>1, <2>3, StepMoves DEF EntryInv, Outer, Buying, Fails
  <2> QED BY <1>10, <2>2, <2>3 DEF Undo, EmergencyClose
<1>11. CASE ProtectEntry
  <2>1. step.at = "protect" /\ step.sym \in Symbols /\ UNCHANGED <<astray, cache, trader>>
    BY <1>11, <1>b DEF ProtectEntry, EntryInv, Outer
  <2>2. CASE Works /\ EntryOver /\ account' = [account EXCEPT ![step.sym].protected = step.sym \in Held]
    <3>1. CASE step.sym \in Held
      <4>1. account' = [account EXCEPT ![step.sym].protected = TRUE]
        BY <2>2, <3>1
      <4>2. account' \in Accounts
        BY <1>a, <2>1, <4>1
      <4> QED BY <1>a, <1>b, <2>1, <2>2, <4>2, StepMoves DEF EntryInv, Outer, Buying, Works
    <3>2. CASE step.sym \notin Held
      <4>0. (step.sym \in Held) = FALSE
        BY <3>2
      <4>1. account' = [account EXCEPT ![step.sym].protected = FALSE]
        BY <2>2, <4>0
      <4>2. account' \in Accounts
        BY <1>a, <2>1, <4>1
      <4> QED BY <1>a, <1>b, <2>1, <2>2, <4>2, StepMoves DEF EntryInv, Outer, Buying, Works
    <3> QED BY <3>1, <3>2
  <2>3. CASE Fails("protect") /\ GoTo("undo") /\ UNCHANGED account
    BY <1>a, <1>b, <2>1, <2>3, StepMoves DEF EntryInv, Outer, Buying, Fails
  <2> QED BY <1>11, <2>2, <2>3 DEF ProtectEntry
<1>12. CASE RestingFill
  <2>1. /\ step.at = "maker" /\ step.left > 0 /\ step.sym \in Symbols
        /\ step' = [step EXCEPT !.left = @ - 1, !.filled = @ + 1]
        /\ Bought(step.sym, 1, account[step.sym].protected)
        /\ UNCHANGED <<astray, cache, trader, failed>>
    BY <1>12, <1>b DEF RestingFill, EntryInv, Outer
  <2>2. /\ step' \in Step /\ step'.at = "maker" /\ step'.sym = step.sym
        /\ step'.left + step'.filled = OpenSize
    <3>1. /\ step.left \in 0 .. OpenSize /\ step.filled \in 0 .. OpenSize
          /\ step.left + step.filled = OpenSize
      BY <1>a, <1>b, <2>1 DEF Step, EntryInv
    <3>2. step.left - 1 \in 0 .. OpenSize /\ step.filled + 1 \in 0 .. OpenSize
      BY <2>1, <3>1, CycleAssumption
    <3> DEFINE k == step.left - 1
               n == step.filled + 1
    <3>3. k \in 0 .. OpenSize /\ n \in 0 .. OpenSize /\ step' = [step EXCEPT !.left = k, !.filled = n]
      BY <2>1, <3>2
    <3>4. k + n = OpenSize
      BY <3>1
    <3> HIDE DEF k, n
    <3>5. /\ step' \in Step /\ step'.at = step.at /\ step'.sym = step.sym
          /\ step'.left = k /\ step'.filled = n
      BY <1>a, <3>3 DEF Step
    <3> QED BY <2>1, <3>4, <3>5
  <2>3. 1 \in 0 .. OpenSize /\ account[step.sym].protected \in BOOLEAN
    BY <1>a, <2>1, CycleAssumption
  <2>4. account' \in Accounts
    BY <2>1, <2>3, BuyingLots
  <2> QED BY <1>a, <1>b, <2>1, <2>2, <2>4 DEF EntryInv, Outer, Buying
<1>13. ASSUME NEW s \in Symbols, AstrayFill(s) PROVE Inv'
  <2>1. /\ astray[s] > 0 /\ astray' = [astray EXCEPT ![s] = @ - 1]
        /\ Bought(s, 1, account[s].protected) /\ UNCHANGED <<cache, trader, step, failed>>
    BY <1>13 DEF AstrayFill
  <2>2. 1 \in 0 .. OpenSize /\ account[s].protected \in BOOLEAN
    BY <1>a, CycleAssumption
  <2>3. account' \in Accounts
    BY <2>1, <2>2, BuyingLots
  <2>4. astray' \in Strays /\ "cancel" \in failed
    BY <1>a, <1>b, <2>1, CycleAssumption DEF EntryInv
  <2> QED BY <1>a, <1>b, <2>1, <2>3, <2>4 DEF EntryInv, Outer, Buying
<1>14. ASSUME NEW s \in Symbols, ExchangeCloses(s) PROVE Inv'
  <2>1. account' = [account EXCEPT ![s] = Flat] /\ UNCHANGED <<astray, cache, trader, step, failed>>
    BY <1>14 DEF ExchangeCloses
  <2>2. Flat \in [lots : 0 .. OpenSize + 1, protected : BOOLEAN]
    BY CycleAssumption DEF Flat
  <2>3. account' \in Accounts
    BY <1>a, <2>1, <2>2
  <2> QED BY <1>a, <1>b, <2>1, <2>3 DEF EntryInv, Outer, Buying
<1> QED BY <1>1, <1>2, <1>3, <1>4, <1>5, <1>6, <1>7, <1>8, <1>9, <1>10, <1>11, <1>12, <1>13, <1>14
           DEF Next, Cycle, Outside, Quiet

\* A call that failed stays in the books, and a trader keeps its venue.
LEMMA FailuresStay ==
  ASSUME Inv, [Next]_vars
  PROVE  failed \subseteq failed' /\ trader'.venue = trader.venue
<1>1. CASE UNCHANGED vars
  BY <1>1 DEF vars
<1>2. CASE Quiet
  BY <1>2, QuietStep DEF QuietEffect
<1>3. ASSUME NEW s \in Symbols, CloseDecision(s) \/ AstrayFill(s) \/ ExchangeCloses(s)
      PROVE  failed \subseteq failed' /\ trader'.venue = trader.venue
  BY <1>3 DEF CloseDecision, AstrayFill, ExchangeCloses
<1>4. CASE CheckEntry \/ Recheck \/ PlaceEntry \/ MakerFilled \/ RestingFill
  BY <1>4 DEF CheckEntry, Recheck, PlaceEntry, MakerFilled, RestingFill
<1>5. CASE MakerTimeout \/ MarketEntry \/ ProtectEntry \/ Undo
  BY <1>5 DEF MakerTimeout, MarketEntry, ProtectEntry, Undo, EmergencyClose, Works, Fails
<1> QED BY <1>1, <1>2, <1>3, <1>4, <1>5 DEF Next, Cycle, Outside, Quiet

-----------------------------------------------------------------------------
(* How a step changes the sizes of the positions *)

\* Positions only close, and the entry moves on.
Moves ==
  /\ \A r \in Symbols : account'[r].lots \in {0, account[r].lots}
  /\ \/ step'.at \notin {"recheck", "order", "market", "maker"}
     \/ /\ step'.sym = step.sym
        /\ \/ step'.at = step.at /\ step'.filled = step.filled
           \/ step.at = "entry" /\ step'.at = "recheck" /\ step.sym \notin Seen
           \/ step.at = "entry" /\ step'.at = "order" /\ step.sym \notin Seen /\ HasRoom(Seen)
           \/ /\ step.at = "recheck" /\ step'.at = "order" /\ HasRoom(Seen)
              /\ UNCHANGED account
           \/ step.at = "order" /\ step'.at \in {"market", "maker"}
           \/ /\ step.at = "maker" /\ step'.at = "market"
              /\ step.filled = 0 \/ "status" \in failed'

\* The entry's order is filled, the last lot of it or all of it.
Fills ==
  /\ step.at \in {"market", "maker"}
  /\ \A r \in Symbols : r # step.sym => account'[r] = account[r]
  /\ \/ /\ step.at = "market" /\ step'.at \in {"decide", "protect"}
        /\ account[step.sym].lots = 0 => account'[step.sym].lots <= OpenSize
     \/ /\ step.at = "maker" /\ step'.at = "maker" /\ step'.sym = step.sym
        /\ step.left > 0 /\ step'.filled = step.filled + 1
        /\ account[step.sym].lots <= step.filled => account'[step.sym].lots <= step'.filled

\* What a step may do to the size of a position.
LEMMA LotsEffect ==
  ASSUME Inv, [Next]_vars
  PROVE  "cancel" \in failed' \/ Moves \/ Fills
<1>a. /\ account \in Accounts /\ astray \in Strays /\ step \in Step /\ cache \subseteq Symbols
      /\ \A r \in Symbols : account[r].lots \in 0 .. OpenSize + 1
  BY DEF Inv, CycleTypeOK, Accounts, Strays
<1>b. EntryInv
  BY DEF Inv
<1>1. CASE UNCHANGED vars
  BY <1>1 DEF vars, Moves
<1>2. CASE Quiet
  BY <1>2, QuietStep DEF QuietEffect, Moves, Outer
<1>3. ASSUME NEW s \in Symbols, CloseDecision(s) PROVE Moves
  <2>1. step.at = "decide" /\ step' = [step EXCEPT !.closes = @ \ {s}]
        /\ ((UNCHANGED <<account, astray, cache>>) \/ ClosedAt(s))
    BY <1>3 DEF CloseDecision
  <2>2. step'.at = "decide"
    BY <1>a, <2>1 DEF Step
  <2> QED BY <2>1, <2>2, Closing DEF Moves, Flat
<1>4. CASE CheckEntry
  <2>1. step.at = "entry"
    BY <1>4 DEF CheckEntry
  <2>2. CASE EntryOver /\ UNCHANGED <<account, astray>>
    BY <1>a, <2>2, StepMoves DEF Moves
  <2>3. CASE step.sym \notin Seen /\ HasRoom(Seen) /\ GoTo("order") /\ UNCHANGED <<account, astray>>
    BY <1>a, <2>1, <2>3, StepMoves DEF Moves
  <2>4. ASSUME NEW v \in Seen, step.sym \notin Seen, ClosedAt(v), GoTo("recheck") PROVE Moves
    <3>1. v \in Symbols
      BY <1>a DEF Seen, Held
    <3> QED BY <1>a, <2>1, <2>4, <3>1, StepMoves, Closing DEF Moves, Flat
  <2> QED BY <1>4, <2>2, <2>3, <2>4 DEF CheckEntry
<1>5. CASE Recheck
  <2>1. step.at = "recheck" /\ UNCHANGED account /\ (EntryOver \/ (HasRoom(Seen) /\ GoTo("order")))
    BY <1>5 DEF Recheck
  <2> QED BY <1>a, <2>1, StepMoves DEF Moves
<1>6. CASE PlaceEntry
  <2>1. step.at = "order" /\ UNCHANGED account
    BY <1>6 DEF PlaceEntry
  <2>2. CASE EntryOver \/ GoTo("market")
    BY <1>a, <2>1, <2>2, StepMoves DEF Moves
  <2>3. CASE Unfilled
    BY <1>a, <2>1, <2>3, UnfilledMoves DEF Moves
  <2>4. CASE step' = [step EXCEPT !.at = "maker", !.left = OpenSize]
    <3>1. step'.at = "maker" /\ step'.sym = step.sym
      BY <1>a, <2>4 DEF Step
    <3> QED BY <2>1, <3>1 DEF Moves
  <2> QED BY <1>6, <2>2, <2>3, <2>4 DEF PlaceEntry
<1>7. CASE MakerFilled
  BY <1>7, <1>a, StepMoves DEF MakerFilled, Moves
<1>8. CASE MakerTimeout
  <2>1. step.at = "maker" /\ UNCHANGED account
    BY <1>8 DEF MakerTimeout
  <2>2. CASE Works /\ FinalState
    <3>1. CASE step' = [step EXCEPT !.at = "protect", !.left = 0]
      <4>1. step'.at = "protect"
        BY <1>a, <3>1 DEF Step
      <4> QED BY <2>1, <4>1 DEF Moves
    <3>2. CASE ~(step.filled > 0) /\ Unfilled
      <4>1. step.filled = 0
        BY <1>a, <3>2 DEF Step
      <4> QED BY <1>a, <2>1, <3>2, <4>1, UnfilledMoves DEF Moves
    <3> QED BY <2>2, <3>1, <3>2 DEF FinalState
  <2>3. CASE Fails("status") /\ Unfilled
    <3>1. "status" \in failed'
      BY <2>3 DEF Fails
    <3> QED BY <1>a, <2>1, <2>3, <3>1, UnfilledMoves DEF Moves
  <2>4. CASE Fails("cancel")
    BY <2>4 DEF Fails
  <2> QED BY <1>8, <2>2, <2>3, <2>4 DEF MakerTimeout
<1>9. CASE MarketEntry
  <2>1. step.at = "market" /\ step.sym \in Symbols /\ (EntryOver \/ GoTo("protect"))
        /\ ((UNCHANGED account) \/ Bought(step.sym, OpenSize, FALSE))
    BY <1>9, <1>b DEF MarketEntry, EntryInv, Outer
  <2>2. CASE UNCHANGED account
    BY <1>a, <2>1, <2>2, StepMoves DEF Moves
  <2>3. CASE Bought(step.sym, OpenSize, FALSE)
    <3>1. OpenSize \in 0 .. OpenSize
      BY CycleAssumption
    <3>2. /\ \A r \in Symbols : r # step.sym => account'[r] = account[r]
          /\ account[step.sym].lots = 0 => account'[step.sym].lots = OpenSize
      <4>1. account'[step.sym].lots = IF account[step.sym].lots + OpenSize > OpenSize THEN OpenSize + 1
                                      ELSE account[step.sym].lots + OpenSize
        BY <2>1, <2>3, <3>1, BuyingLots
      <4>2. account[step.sym].lots = 0 => account'[step.sym].lots = OpenSize
        BY <4>1, CycleAssumption
      <4> QED BY <2>1, <2>3, <3>1, <4>2, BuyingLots
    <3>3. step'.at \in {"decide", "protect"}
      BY <1>a, <2>1, StepMoves
    <3> QED BY <2>1, <3>2, <3>3, CycleAssumption DEF Fills
  <2> QED BY <2>1, <2>2, <2>3
<1>10. CASE Undo
  <2>1. step.sym \in Symbols /\ EntryOver /\ (ClosedAt(step.sym) \/ UNCHANGED account)
    BY <1>10, <1>b DEF Undo, EmergencyClose, EntryInv, Outer
  <2> QED BY <1>a, <2>1, StepMoves, Closing DEF Moves, Flat
<1>11. CASE ProtectEntry
  <2>1. \A r \in Symbols : account'[r].lots = account[r].lots
    <3>1. ASSUME NEW r \in Symbols, NEW b, account' = [account EXCEPT ![step.sym].protected = b]
          PROVE  account'[r].lots = account[r].lots
      BY <1>a, <3>1 DEF Accounts
    <3> QED BY <1>11, <3>1 DEF ProtectEntry
  <2>2. EntryOver \/ GoTo("undo")
    BY <1>11 DEF ProtectEntry
  <2> QED BY <1>a, <2>1, <2>2, StepMoves DEF Moves
<1>12. CASE RestingFill
  <2>1. /\ step.at = "maker" /\ step.left > 0 /\ step.sym \in Symbols
        /\ step' = [step EXCEPT !.left = @ - 1, !.filled = @ + 1]
        /\ Bought(step.sym, 1, account[step.sym].protected)
        /\ step.left \in 0 .. OpenSize /\ step.filled \in 0 .. OpenSize /\ step.left + step.filled = OpenSize
    BY <1>a, <1>12, <1>b DEF RestingFill, EntryInv, Outer, Step
  <2>2. step'.at = "maker" /\ step'.sym = step.sym /\ step'.filled = step.filled + 1
    BY <1>a, <2>1 DEF Step
  <2>3. 1 \in 0 .. OpenSize /\ account[step.sym].protected \in BOOLEAN
    BY <1>a, <2>1, CycleAssumption DEF Accounts
  <2>4. /\ \A r \in Symbols : r # step.sym => account'[r] = account[r]
        /\ account'[step.sym].lots = IF account[step.sym].lots + 1 > OpenSize THEN OpenSize + 1
                                     ELSE account[step.sym].lots + 1
    BY <2>1, <2>3, BuyingLots
  <2>5. account[step.sym].lots <= step.filled => account'[step.sym].lots <= step.filled + 1
    BY <1>a, <2>1, <2>4, CycleAssumption
  <2> QED BY <2>1, <2>2, <2>4, <2>5 DEF Fills
<1>13. ASSUME NEW s \in Symbols, AstrayFill(s) PROVE "cancel" \in failed'
  BY <1>13, <1>b DEF AstrayFill, EntryInv
<1>14. ASSUME NEW s \in Symbols, ExchangeCloses(s) PROVE Moves
  BY <1>a, <1>14 DEF ExchangeCloses, Moves, Flat, Accounts
<1> QED BY <1>1, <1>2, <1>3, <1>4, <1>5, <1>6, <1>7, <1>8, <1>9, <1>10, <1>11, <1>12, <1>13, <1>14
           DEF Next, Cycle, Outside, Quiet

-----------------------------------------------------------------------------
(* A position is never larger than one entry *)

\* On a fresh venue whose cancels and status reads work, the entry in progress
\* finds no position in its symbol, and what a post-only order filled is all there is.
SizeInv ==
  trader.venue = "fresh" /\ failed \cap {"cancel", "status"} = {} =>
    /\ \A s \in Symbols : account[s].lots <= OpenSize
    /\ step.at \in {"recheck", "order", "market"} => account[step.sym].lots = 0
    /\ step.at = "maker" => account[step.sym].lots <= step.filled

\* Every step keeps what the size owes to the entries allowed.
LEMMA SizeStep == Inv /\ SizeInv /\ [Next]_vars => SizeInv'
<1> SUFFICES ASSUME Inv, SizeInv, [Next]_vars,
                    (trader.venue = "fresh" /\ failed \cap {"cancel", "status"} = {})'
             PROVE  /\ \A s \in Symbols : account'[s].lots <= OpenSize
                    /\ step'.at \in {"recheck", "order", "market"} => account'[step'.sym].lots = 0
                    /\ step'.at = "maker" => account'[step'.sym].lots <= step'.filled
  BY DEF SizeInv
<1>a. trader.venue = "fresh" /\ failed \cap {"cancel", "status"} = {}
  BY FailuresStay
<1>b. /\ \A s \in Symbols : account[s].lots <= OpenSize
      /\ step.at \in {"recheck", "order", "market"} => account[step.sym].lots = 0
      /\ step.at = "maker" => account[step.sym].lots <= step.filled
  BY <1>a DEF SizeInv
<1>c. /\ \A s \in Symbols : account[s].lots \in 0 .. OpenSize + 1
      /\ step.at \notin Outer => step.sym \in Symbols
      /\ step.left \in 0 .. OpenSize /\ step.filled \in 0 .. OpenSize
      /\ step.at \in Buying => step.filled = 0
      /\ step.at = "maker" => step.left + step.filled = OpenSize
  BY DEF Inv, CycleTypeOK, EntryInv, Step
<1>d. Seen = Held
  BY <1>a DEF Inv, EntryInv, Seen
<1>1. CASE Moves
  <2>1. \A s \in Symbols : /\ account'[s].lots \in 0 .. OpenSize
                           /\ account[s].lots = 0 => account'[s].lots = 0
                           /\ account'[s].lots <= account[s].lots
    BY <1>1, <1>b, <1>c, CycleAssumption DEF Moves
  <2>2. CASE step'.at \notin {"recheck", "order", "market", "maker"}
    BY <2>1, <2>2
  <2>3. CASE step'.sym = step.sym /\ step'.at = step.at /\ step'.filled = step.filled
    <3>1. CASE step.at \in {"recheck", "order", "market"}
      BY <1>b, <1>c, <2>1, <2>3, <3>1, CycleAssumption DEF Outer
    <3>2. CASE step.at = "maker"
      <4>1. step.sym \in Symbols /\ account[step.sym].lots <= step.filled
        BY <1>b, <1>c, <3>2 DEF Outer
      <4>2. account'[step.sym].lots <= step.filled
        BY <1>c, <2>1, <4>1, CycleAssumption
      <4> QED BY <2>1, <2>3, <3>2, <4>2, CycleAssumption
    <3>3. CASE step.at \notin {"recheck", "order", "market", "maker"}
      BY <2>1, <2>3, <3>3, CycleAssumption
    <3> QED BY <3>1, <3>2, <3>3
  <2>4. CASE step'.sym = step.sym /\ step.at = "entry" /\ step'.at \in {"recheck", "order"} /\ step.sym \notin Seen
    <3>1. step.sym \in Symbols /\ account[step.sym].lots = 0
      BY <1>c, <1>d, <2>4 DEF Held, Outer
    <3> QED BY <2>1, <2>4, <3>1
  <2>5. CASE step'.sym = step.sym /\ step.at = "recheck" /\ step'.at = "order"
    BY <1>b, <1>c, <2>1, <2>5 DEF Outer
  <2>6. CASE step'.sym = step.sym /\ step.at = "order" /\ step'.at \in {"market", "maker"}
    <3>1. step'.filled \in 0 .. OpenSize
      BY EntryStep DEF Inv, CycleTypeOK, Step
    <3> QED BY <1>b, <1>c, <2>1, <2>6, <3>1 DEF Outer
  <2>7. CASE step'.sym = step.sym /\ step.at = "maker" /\ step'.at = "market" /\ step.filled = 0
    <3>1. step.sym \in Symbols /\ account[step.sym].lots = 0
      BY <1>b, <1>c, <2>7 DEF Outer
    <3> QED BY <2>1, <2>7, <3>1
  <2> QED BY <1>1, <2>2, <2>3, <2>4, <2>5, <2>6, <2>7 DEF Moves
<1>2. CASE Fills
  <2>1. step.sym \in Symbols
    BY <1>2, <1>c DEF Fills, Outer
  <2>2. CASE step.at = "market"
    BY <1>2, <1>b, <2>1, <2>2 DEF Fills
  <2>3. CASE step.at = "maker"
    <3>1. account'[step.sym].lots <= step'.filled /\ step'.filled <= OpenSize
      BY <1>2, <1>b, <1>c, <2>3, CycleAssumption DEF Fills
    <3>2. account'[step.sym].lots <= OpenSize
      <4>1. account'[step.sym].lots \in 0 .. OpenSize + 1
        BY <2>1, EntryStep DEF Inv, CycleTypeOK
      <4>2. step'.filled \in 0 .. OpenSize
        BY EntryStep DEF Inv, CycleTypeOK, Step
      <4> QED BY <3>1, <4>1, <4>2, CycleAssumption
    <3> QED BY <1>2, <1>b, <2>1, <2>3, <3>1, <3>2 DEF Fills
  <2> QED BY <1>2, <2>2, <2>3 DEF Fills
<1> QED BY <1>1, <1>2, LotsEffect

\* The size an entry may have is never exceeded.
LEMMA SizeFollows == Inv /\ SizeInv => NeverOversized
<1> SUFFICES ASSUME Inv, SizeInv, trader.venue = "fresh", failed \cap {"cancel", "status"} = {},
                    NEW s \in Symbols
             PROVE  account[s].lots + astray[s] + Watched(s) <= OpenSize
  BY DEF NeverOversized
<1>1. astray[s] = 0
  BY DEF Inv, CycleTypeOK, EntryInv
<1>2. account[s].lots \in 0 .. OpenSize + 1 /\ account[s].lots <= OpenSize
  BY DEF Inv, CycleTypeOK, SizeInv
<1>3. step.left \in 0 .. OpenSize /\ step.filled \in 0 .. OpenSize
  BY DEF Inv, CycleTypeOK, Step
<1>4. CASE step.at = "maker" /\ step.sym = s
  <2>1. account[s].lots <= step.filled /\ step.left + step.filled = OpenSize
    BY <1>4 DEF SizeInv, Inv, EntryInv
  <2> QED BY <1>1, <1>2, <1>3, <1>4, <2>1, CycleAssumption DEF Watched
<1>5. CASE ~(step.at = "maker" /\ step.sym = s)
  <2>1. Watched(s) = 0
    BY <1>5 DEF Watched, Inv, EntryInv
  <2> QED BY <1>1, <1>2, <2>1, CycleAssumption
<1> QED BY <1>4, <1>5

\* On a venue that serves no cached positions, and while the cancel and the
\* status read of post-only orders work, no position is ever larger than one
\* entry: the market fallback never comes on top of what was filled.
THEOREM OneEntryPerPosition == Spec => []NeverOversized
<1>1. Init => SizeInv
  BY CycleAssumption DEF Init, SizeInv, Flat, Resting
<1>2. Spec => [](Inv /\ SizeInv)
  BY <1>1, EntryInit, EntryStep, SizeStep, PTL DEF Spec
<1> QED BY <1>2, SizeFollows, PTL

-----------------------------------------------------------------------------
(* The limit on positions *)

\* While an order for an entry is possible, the other positions leave room for it.
RoomInv ==
  trader.venue = "fresh" /\ "cancel" \notin failed =>
    /\ Cardinality(Held) <= MaxPositions
    /\ step.at \in {"order", "market", "maker"} => Cardinality(Held \ {step.sym}) < MaxPositions

\* Every step keeps the room for an entry that was checked.
LEMMA RoomStep == Inv /\ RoomInv /\ [Next]_vars => RoomInv'
<1> SUFFICES ASSUME Inv, RoomInv, [Next]_vars, (trader.venue = "fresh" /\ "cancel" \notin failed)'
             PROVE  /\ Cardinality(Held') <= MaxPositions
                    /\ step'.at \in {"order", "market", "maker"} =>
                         Cardinality(Held' \ {step'.sym}) < MaxPositions
  BY DEF RoomInv
<1>a. trader.venue = "fresh" /\ "cancel" \notin failed
  BY FailuresStay
<1>b. /\ Cardinality(Held) <= MaxPositions
      /\ step.at \in {"order", "market", "maker"} => Cardinality(Held \ {step.sym}) < MaxPositions
  BY <1>a DEF RoomInv
<1>c. /\ \A s \in Symbols : account[s].lots \in 0 .. OpenSize + 1
      /\ step.at \notin Outer => step.sym \in Symbols
      /\ Held \in SUBSET Symbols /\ Held' \in SUBSET Symbols
  BY DEF Inv, CycleTypeOK, EntryInv, Held
<1>d. Seen = Held
  BY <1>a DEF Inv, EntryInv, Seen
<1>1. CASE Moves
  <2>1. Held' \subseteq Held
    BY <1>1, <1>c DEF Moves, Held
  <2>2. \A x : Held' \ {x} \in SUBSET Symbols /\ Held \ {x} \in SUBSET Symbols
               /\ Held' \ {x} \subseteq Held \ {x} /\ Held' \ {x} \subseteq Held
    BY <1>c, <2>1
  <2>3. /\ Cardinality(Held') <= MaxPositions
        /\ \A x : Cardinality(Held' \ {x}) <= Cardinality(Held \ {x})
                  /\ Cardinality(Held' \ {x}) <= Cardinality(Held)
                  /\ {Cardinality(Held' \ {x}), Cardinality(Held \ {x}), Cardinality(Held)} \subseteq Nat
    <3>1. Cardinality(Held') <= Cardinality(Held) /\ Cardinality(Held') \in Nat /\ Cardinality(Held) \in Nat
      BY <1>c, <2>1, FewerSymbols
    <3>2. ASSUME NEW x
          PROVE  Cardinality(Held' \ {x}) <= Cardinality(Held \ {x})
                 /\ Cardinality(Held' \ {x}) <= Cardinality(Held)
                 /\ {Cardinality(Held' \ {x}), Cardinality(Held \ {x}), Cardinality(Held)} \subseteq Nat
      BY <1>c, <2>2, FewerSymbols
    <3> QED BY <1>b, <3>1, <3>2, CycleAssumption
  <2>4. CASE step'.at \notin {"order", "market", "maker"}
    BY <2>3, <2>4
  <2>5. CASE step'.sym = step.sym /\ step.at \in {"order", "market", "maker"}
    BY <1>b, <2>3, <2>5, CycleAssumption
  <2>6. CASE HasRoom(Seen)
    <3>1. Cardinality(Held) < MaxPositions
      BY <1>d, <2>6 DEF HasRoom
    <3>2. /\ Cardinality(Held' \ {step'.sym}) <= Cardinality(Held)
          /\ Cardinality(Held' \ {step'.sym}) \in Nat /\ Cardinality(Held) \in Nat
      BY <2>3
    <3>3. Cardinality(Held' \ {step'.sym}) < MaxPositions
      BY <3>1, <3>2, CycleAssumption
    <3> QED BY <2>3, <3>3
  <2> QED BY <1>1, <2>4, <2>5, <2>6 DEF Moves
<1>2. CASE Fills
  <2>1. step.sym \in Symbols /\ Held' \ {step.sym} = Held \ {step.sym}
    BY <1>2, <1>c DEF Fills, Outer, Held
  <2>2. Held \ {step.sym} \in SUBSET Symbols /\ Cardinality(Held \ {step.sym}) < MaxPositions
    BY <1>2, <1>b, <1>c DEF Fills
  <2>3. Cardinality(Held') <= Cardinality(Held' \ {step.sym}) + 1
    BY <1>c, <2>1, OneSymbolMore
  <2>4. Cardinality(Held') \in Nat /\ Cardinality(Held \ {step.sym}) \in Nat
    BY <1>c, <2>2, FewerSymbols
  <2>5. Cardinality(Held') <= MaxPositions
    <3>1. Cardinality(Held' \ {step.sym}) = Cardinality(Held \ {step.sym})
      BY <2>1
    <3> QED BY <2>2, <2>3, <2>4, <3>1, CycleAssumption
  <2>6. step'.at \in {"order", "market", "maker"} => step'.sym = step.sym
    BY <1>2 DEF Fills
  <2> QED BY <2>1, <2>2, <2>5, <2>6
<1> QED BY <1>1, <1>2, LotsEffect

\* On a venue that serves no cached positions, and while no order went astray,
\* no sequence of entries, cuts and fills exceeds the limit on positions.
THEOREM LimitHolds == Spec => []WithinMaxPositions
<1>1. Init => RoomInv
  <2> SUFFICES ASSUME Init PROVE RoomInv
    OBVIOUS
  <2>1. Held = {} /\ step.at = "rest"
    BY DEF Init, Held, Flat, Resting
  <2>2. Cardinality({}) = 0
    BY FS_EmptySet
  <2> QED BY <2>1, <2>2, CycleAssumption DEF RoomInv
<1>2. RoomInv => WithinMaxPositions
  BY DEF RoomInv, WithinMaxPositions
<1>3. Spec => [](Inv /\ RoomInv)
  BY <1>1, EntryInit, EntryStep, RoomStep, PTL DEF Spec
<1> QED BY <1>2, <1>3, PTL

-----------------------------------------------------------------------------
(* No position stays without protection *)

Excused == failed \cap {"lost", "cancel", "status"} # {} \/ {"protect", "close"} \subseteq failed

\* The entry of this position is filled and its protection is due.
Due(s) ==
  /\ step.sym = s
  /\ step.at \in {"protect", "undo"} \/ (step.at = "maker" /\ step.filled > 0)

NakedInv == Excused \/ \A s \in Held : account[s].protected \/ Due(s)

\* Without an excuse, every position stays protected or about to be.
LEMMA NakedStep == Inv /\ NakedInv /\ [Next]_vars => NakedInv'
<1> SUFFICES ASSUME Inv, NakedInv, [Next]_vars, ~Excused', NEW s \in Held'
             PROVE  account'[s].protected \/ Due(s)'
  BY DEF NakedInv
<1>a. /\ account \in Accounts /\ step \in Step /\ trader \in Trader
      /\ Held \subseteq Symbols /\ s \in Symbols /\ account'[s].lots > 0
  BY DEF Inv, CycleTypeOK, Accounts, Held
<1>b. EntryInv
  BY DEF Inv
<1>c. failed \subseteq failed' /\ ~Excused
  BY FailuresStay DEF Excused
<1>d. s \in Held => account[s].protected \/ Due(s)
  BY <1>c DEF NakedInv
<1>e. /\ failed' \cap {"lost", "cancel", "status"} = {}
      /\ "protect" \notin failed' \/ "close" \notin failed'
  BY DEF Excused
<1>f. \* the position is as it was
      ASSUME account'[s] = account[s], Due(s) => Due(s)'
      PROVE  account'[s].protected \/ Due(s)'
  BY <1>a, <1>d, <1>f DEF Held
<1>g. ASSUME NEW r \in Symbols, ClosedAt(r) PROVE s # r /\ account'[s] = account[s]
  BY <1>a, <1>g, Closing DEF Flat
<1>1. CASE UNCHANGED vars
  BY <1>1, <1>f DEF vars, Due
<1>2. CASE Quiet
  BY <1>2, <1>f, <1>b, QuietStep DEF QuietEffect, Due, Outer
<1>3. ASSUME NEW r \in Symbols, CloseDecision(r) PROVE account'[s].protected \/ Due(s)'
  <2>1. step.at = "decide" /\ ((UNCHANGED account) \/ ClosedAt(r))
    BY <1>3 DEF CloseDecision
  <2> QED BY <1>f, <1>g, <2>1 DEF Due
<1>4. CASE CheckEntry
  <2>1. step.at = "entry"
    BY <1>4 DEF CheckEntry
  <2>2. ASSUME NEW v \in Seen, ClosedAt(v) PROVE account'[s] = account[s]
    <3>1. v \in Symbols
      BY <1>a DEF Seen, Held, Inv, CycleTypeOK
    <3> QED BY <1>g, <2>2, <3>1
  <2>3. account'[s] = account[s]
    BY <1>4, <2>2 DEF CheckEntry
  <2> QED BY <1>f, <2>1, <2>3 DEF Due
<1>5. CASE Recheck \/ PlaceEntry
  BY <1>5, <1>f DEF Recheck, PlaceEntry, Due
<1>6. CASE MakerFilled
  <2>1. step.at = "maker" /\ GoTo("protect") /\ UNCHANGED account
    BY <1>6 DEF MakerFilled
  <2>2. step'.at = "protect" /\ step'.sym = step.sym
    BY <1>a, <2>1, StepMoves
  <2> QED BY <1>f, <2>1, <2>2 DEF Due
<1>7. CASE MakerTimeout
  <2>1. step.at = "maker" /\ UNCHANGED account /\ FinalState
    BY <1>7, <1>e DEF MakerTimeout, Fails
  <2>2. CASE step.filled > 0
    <3>1. step' = [step EXCEPT !.at = "protect", !.left = 0]
      BY <2>1, <2>2 DEF FinalState
    <3>2. step'.at = "protect" /\ step'.sym = step.sym
      BY <1>a, <3>1 DEF Step
    <3> QED BY <1>f, <2>1, <3>2 DEF Due
  <2>3. CASE ~(step.filled > 0)
    BY <1>f, <2>1, <2>3 DEF Due
  <2> QED BY <2>2, <2>3
<1>8. CASE MarketEntry
  <2>1. /\ step.at = "market" /\ step.sym \in Symbols
        /\ \/ UNCHANGED account
           \/ GoTo("protect") /\ Bought(step.sym, OpenSize, FALSE)
    BY <1>8, <1>b, <1>e DEF MarketEntry, Fails, EntryInv, Outer
  <2>2. CASE UNCHANGED account
    BY <1>f, <2>1, <2>2 DEF Due
  <2>3. CASE GoTo("protect") /\ Bought(step.sym, OpenSize, FALSE)
    <3>1. OpenSize \in 0 .. OpenSize
      BY CycleAssumption
    <3>2. s # step.sym => account'[s] = account[s]
      BY <1>a, <2>1, <2>3, <3>1, BuyingLots
    <3>3. step'.at = "protect" /\ step'.sym = step.sym
      BY <1>a, <2>3, StepMoves
    <3>4. CASE s = step.sym
      BY <3>3, <3>4 DEF Due
    <3>5. CASE s # step.sym
      BY <1>f, <3>2, <3>5 DEF Due
    <3> QED BY <3>4, <3>5
  <2> QED BY <2>1, <2>2, <2>3
<1>9. CASE Undo
  <2>1. step.at = "undo" /\ step.sym \in Symbols /\ "protect" \in failed
    BY <1>9, <1>b DEF Undo, EntryInv, Outer
  <2>2. ClosedAt(step.sym)
    BY <1>9, <1>c, <1>e, <2>1 DEF Undo, EmergencyClose, Fails
  <2> QED BY <1>f, <1>g, <2>1, <2>2 DEF Due
<1>10. CASE ProtectEntry
  <2>1. step.at = "protect" /\ step.sym \in Symbols
    BY <1>10, <1>b DEF ProtectEntry, EntryInv, Outer
  <2>2. CASE account' = [account EXCEPT ![step.sym].protected = step.sym \in Held]
    <3>1. CASE s # step.sym
      <4>1. account'[s] = account[s]
        BY <1>a, <2>2, <3>1 DEF Accounts
      <4> QED BY <1>f, <3>1, <4>1 DEF Due
    <3>2. CASE s = step.sym
      <4>1. ASSUME NEW b, account' = [account EXCEPT ![s].protected = b]
            PROVE  account'[s].lots = account[s].lots /\ account'[s].protected = b
        BY <1>a, <4>1 DEF Accounts
      <4>2. account'[s].lots = account[s].lots
        BY <2>2, <3>2, <4>1
      <4>3. step.sym \in Held
        BY <1>a, <3>2, <4>2 DEF Held
      <4>4. account' = [account EXCEPT ![s].protected = TRUE]
        BY <2>2, <3>2, <4>3
      <4> QED BY <4>1, <4>4
    <3> QED BY <3>1, <3>2
  <2>3. CASE GoTo("undo") /\ UNCHANGED account
    <3>1. step'.at = "undo" /\ step'.sym = step.sym
      BY <1>a, <2>3, StepMoves
    <3> QED BY <1>f, <2>1, <2>3, <3>1 DEF Due
  <2> QED BY <1>10, <2>2, <2>3 DEF ProtectEntry
<1>11. CASE RestingFill
  <2>1. /\ step.at = "maker" /\ step.sym \in Symbols
        /\ step' = [step EXCEPT !.left = @ - 1, !.filled = @ + 1]
        /\ Bought(step.sym, 1, account[step.sym].protected)
    BY <1>11, <1>b DEF RestingFill, EntryInv, Outer
  <2>2. step.filled \in 0 .. OpenSize
    BY <1>a DEF Step
  <2>3. step'.at = "maker" /\ step'.sym = step.sym /\ step'.filled = step.filled + 1
    BY <1>a, <2>1 DEF Step
  <2>4. CASE s = step.sym
    BY <2>2, <2>3, <2>4, CycleAssumption DEF Due
  <2>5. CASE s # step.sym
    <3>1. 1 \in 0 .. OpenSize /\ account[step.sym].protected \in BOOLEAN
      BY <1>a, <2>1, CycleAssumption DEF Accounts
    <3>2. account'[s] = account[s]
      BY <1>a, <2>1, <2>5, <3>1, BuyingLots
    <3> QED BY <1>f, <2>5, <3>2 DEF Due
  <2> QED BY <2>4, <2>5
<1>12. ASSUME NEW r \in Symbols, AstrayFill(r) PROVE FALSE
  BY <1>12, <1>b, <1>c, <1>e DEF AstrayFill, EntryInv
<1>13. ASSUME NEW r \in Symbols, ExchangeCloses(r) PROVE account'[s].protected \/ Due(s)'
  <2>1. account' = [account EXCEPT ![r] = Flat] /\ step' = step
    BY <1>13 DEF ExchangeCloses
  <2>2. s # r /\ account'[s] = account[s]
    BY <1>a, <2>1 DEF Accounts, Flat
  <2> QED BY <1>f, <2>1, <2>2 DEF Due
<1> QED BY <1>1, <1>2, <1>3, <1>4, <1>5, <1>6, <1>7, <1>8, <1>9, <1>10, <1>11, <1>12, <1>13
           DEF Next, Cycle, Outside, Quiet

\* Whatever fills, closes and operator actions come between its steps, an entry
\* leaves a position without protection only after a lost response, a failed
\* cancel or status read, or after its protection and its close both failed.
THEOREM EntriesAreProtected == Spec => []NakedOnlyAfterTwoFailures
<1>1. Init => NakedInv
  BY DEF Init, NakedInv, Held, Flat
<1>2. NakedInv => NakedOnlyAfterTwoFailures
  BY DEF NakedInv, NakedOnlyAfterTwoFailures, Excused, Due
<1>3. Spec => [](Inv /\ NakedInv)
  BY <1>1, EntryInit, EntryStep, NakedStep, PTL DEF Spec
<1> QED BY <1>2, <1>3, PTL

-----------------------------------------------------------------------------
(* The endpoints of a call *)

EndpointSet == [url : STRING, key : STRING, priority : Int]

\* What precedes an entry in the order of priorities comes before all that follows it.
SortedBefore(s, i, j) ==
  s[i].priority < s[j].priority \/ (s[i].priority = s[j].priority /\ i < j)

Ahead(s, i) == {j \in DOMAIN s : SortedBefore(s, j, i)}

\* Every place of the sorted list is some entry's, and a later place is not of
\* a lower priority.
LEMMA Ranks ==
  ASSUME NEW s \in Seq(EndpointSet)
  PROVE  /\ \A i \in DOMAIN s : Cardinality(Ahead(s, i)) + 1 \in DOMAIN s
         /\ \A i, j \in DOMAIN s : Cardinality(Ahead(s, i)) < Cardinality(Ahead(s, j))
                                     => s[i].priority <= s[j].priority
         /\ \A i, j \in DOMAIN s : Cardinality(Ahead(s, i)) = Cardinality(Ahead(s, j)) => i = j
         /\ \A p \in DOMAIN s : \E i \in DOMAIN s : Cardinality(Ahead(s, i)) + 1 = p
<1> DEFINE D == DOMAIN s
           n == Len(s)
           c(i) == Cardinality(Ahead(s, i))
<1>1. n \in Nat /\ D = 1 .. n /\ \A i \in D : s[i].priority \in Int /\ i \in Int
  <2>1. \A i \in D : s[i] \in EndpointSet
    OBVIOUS
  <2> QED BY <2>1 DEF EndpointSet
<1>2. IsFiniteSet(D) /\ Cardinality(D) = n
  BY <1>1, FS_Interval
<1>3. \A i \in D : Ahead(s, i) \subseteq D \ {i}
  BY <1>1 DEF Ahead, SortedBefore
<1>4. \A i \in D : IsFiniteSet(Ahead(s, i)) /\ c(i) \in Nat /\ c(i) + 1 <= n
  <2> TAKE i \in D
  <2>1. IsFiniteSet(D \ {i}) /\ Cardinality(D \ {i}) = n - 1
    BY <1>2, FS_RemoveElement
  <2>2. IsFiniteSet(Ahead(s, i)) /\ c(i) <= n - 1
    BY <1>3, <2>1, FS_Subset
  <2>3. c(i) \in Nat
    BY <2>2, FS_CardinalityType
  <2> QED BY <1>1, <2>2, <2>3
<1>5. ASSUME NEW i \in D, NEW j \in D, SortedBefore(s, i, j) PROVE c(i) < c(j)
  <2>1. Ahead(s, i) \subseteq Ahead(s, j)
    <3> SUFFICES ASSUME NEW k \in D, SortedBefore(s, k, i) PROVE SortedBefore(s, k, j)
      BY DEF Ahead
    <3>1. s[i].priority \in Int /\ s[j].priority \in Int /\ s[k].priority \in Int
          /\ i \in Int /\ j \in Int /\ k \in Int
      BY <1>1
    <3> QED BY <1>5, <3>1 DEF SortedBefore
  <2>2. i \in Ahead(s, j) /\ i \notin Ahead(s, i)
    BY <1>3, <1>5 DEF Ahead
  <2>3. c(i) <= c(j) /\ c(i) # c(j)
    BY <1>4, <2>1, <2>2, FS_Subset
  <2> QED BY <1>4, <2>3
<1>6. ASSUME NEW i \in D, NEW j \in D, i # j PROVE SortedBefore(s, i, j) \/ SortedBefore(s, j, i)
  <2>1. s[i].priority \in Int /\ s[j].priority \in Int /\ i \in Int /\ j \in Int
    BY <1>1
  <2> QED BY <1>6, <2>1 DEF SortedBefore
<1>7. ASSUME NEW i \in D, NEW j \in D, c(i) = c(j) PROVE i = j
  BY <1>4, <1>5, <1>6, <1>7
<1>8. ASSUME NEW i \in D, NEW j \in D, c(i) < c(j) PROVE s[i].priority <= s[j].priority
  <2>1. i # j /\ ~SortedBefore(s, j, i)
    BY <1>4, <1>5, <1>8
  <2>2. SortedBefore(s, i, j)
    BY <1>6, <2>1
  <2> QED BY <1>1, <2>2 DEF SortedBefore
<1>9. \A i \in D : c(i) + 1 \in D
  BY <1>1, <1>4
<1>10. \A p \in D : \E i \in D : c(i) + 1 = p
  <2> DEFINE f == [i \in D |-> c(i) + 1]
  <2>1. f \in [D -> D]
    BY <1>9
  <2>2. \A i, j \in D : f[i] = f[j] => i = j
    BY <1>4, <1>7
  <2>3. f \in Injection(D, D)
    BY <2>1, <2>2 DEF Injection, IsInjective
  <2>4. f \in Surjection(D, D)
    BY <1>2, <2>3, FS_Injection
  <2> QED BY <2>4 DEF Surjection
<1> QED BY <1>7, <1>8, <1>9, <1>10

\* SetFallbackEndpoints keeps the fallbacks, in the order of their priorities.
LEMMA SortedIs ==
  ASSUME NEW s \in Setups
  PROVE  LET f == Sorted(s)
         IN /\ f \in Seq(EndpointSet) /\ Len(f) = Len(s) /\ ToSet(f) = ToSet(s)
            /\ \A p, q \in DOMAIN f : p < q => f[p].priority <= f[q].priority
            /\ \A p, q \in DOMAIN f : f[p].url = f[q].url => p = q
            /\ \A p \in DOMAIN f : f[p].url # Primary.url /\ f[p].url \in Urls
<1> DEFINE D == DOMAIN s
           c(i) == Cardinality(Ahead(s, i))
           at(p) == CHOOSE i \in D : c(i) + 1 = p
           f == Sorted(s)
<1>1. s \in Seq(EndpointSet) /\ D = 1 .. Len(s) /\ Len(s) \in Nat
  BY EndpointsAssumption DEF EndpointSet
<1>2. f = [p \in D |-> s[at(p)]]
  BY DEF Sorted, Ahead, SortedBefore
<1>3. \A i \in D : c(i) \in Int /\ c(i) + 1 \in D
  <2>1. \A i \in D : IsFiniteSet(Ahead(s, i))
    <3>1. IsFiniteSet(D)
      BY <1>1, FS_Interval
    <3> QED BY <3>1, FS_Subset DEF Ahead
  <2>2. \A i \in D : c(i) \in Nat
    BY <2>1, FS_CardinalityType
  <2> QED BY <1>1, <2>2, Ranks
<1>4. \A p \in D : at(p) \in D /\ c(at(p)) + 1 = p
  <2>1. \A p \in D : \E i \in D : c(i) + 1 = p
    BY <1>1, Ranks
  <2> QED BY <2>1
<1>5. \A i \in D : at(c(i) + 1) = i
  <2> TAKE i \in D
  <2>1. at(c(i) + 1) \in D /\ c(at(c(i) + 1)) + 1 = c(i) + 1
    BY <1>3, <1>4
  <2>2. c(at(c(i) + 1)) = c(i)
    BY <1>3, <2>1
  <2> QED BY <1>1, <2>1, <2>2, Ranks
<1> HIDE DEF at, f
<1>6. f \in Seq(EndpointSet) /\ Len(f) = Len(s) /\ DOMAIN f = D
  <2>1. \A p \in D : s[at(p)] \in EndpointSet
    BY <1>1, <1>4
  <2>2. f \in [1 .. Len(s) -> EndpointSet]
    BY <1>1, <1>2, <2>1
  <2> QED BY <1>1, <2>2
<1>7. ToSet(f) = ToSet(s)
  <2>1. \A p \in D : f[p] = s[at(p)] /\ at(p) \in D
    BY <1>2, <1>4
  <2>2. \A i \in D : \E p \in D : f[p] = s[i]
    BY <1>2, <1>3, <1>5
  <2> QED BY <1>6, <2>1, <2>2 DEF ToSet
<1>8. ASSUME NEW p \in D, NEW q \in D, p < q PROVE f[p].priority <= f[q].priority
  <2>1. c(at(p)) < c(at(q))
    BY <1>1, <1>3, <1>4, <1>8
  <2>2. s[at(p)].priority <= s[at(q)].priority
    BY <1>1, <1>4, <2>1, Ranks
  <2> QED BY <1>2, <2>2
<1>9. ASSUME NEW p \in D, NEW q \in D, f[p].url = f[q].url PROVE p = q
  <2>1. at(p) = at(q)
    BY <1>2, <1>4, <1>9, EndpointsAssumption
  <2> QED BY <1>4, <2>1
<1>10. ASSUME NEW p \in D PROVE f[p].url # Primary.url /\ f[p].url \in Urls
  <2>1. f[p] \in ToSet(s)
    BY <1>6, <1>7 DEF ToSet
  <2>2. f[p] \in Endpoints
    BY <2>1 DEF Endpoints
  <2> QED BY <2>2, EndpointsAssumption DEF Urls
<1> QED BY <1>6, <1>7, <1>8, <1>9, <1>10 DEF f

\* What a step of the cycle does to the client and its call.
LEMMA FailoverSteps ==
  [Next]_vars => \/ BeginCall \/ Try \/ Weather \/ UNCHANGED failoverVars
                 \/ call' = NoCall /\ UNCHANGED <<client, weather>>
BY DEF Next, Cycle, Outside, StartCycle, Ask, AIFails, AIAnswers, CycleOver, CloseDecision,
       OpenDecision, CheckEntry, Recheck, PlaceEntry, MakerFilled, MakerTimeout, MarketEntry,
       ProtectEntry, Undo, RestingFill, AstrayFill, ExchangeCloses, CacheAges, Operate, vars

Keys == {Primary.key} \cup {e.key : e \in Endpoints}

\* The endpoint asked i + 1st.
UrlAt(c, i) == IF i = 0 THEN Primary.url ELSE c.fallbacks[i].url

ClientOK ==
  /\ client \in [fallbacks : Seq(EndpointSet), index : Nat, url : Urls, key : Keys]
  /\ \E s \in Setups : client.fallbacks = Sorted(s)
  /\ client.index <= Len(client.fallbacks)
  /\ client.fallbacks = <<>> => client.url = Primary.url /\ client.key = Primary.key

\* A call has asked the primary and the fallbacks up to the one in use.
CallOK ==
  /\ call \in [stage : {"none", "trying", "answer", "garbled", "failed"},
               tried : Seq([url : Urls, key : Keys])]
  /\ client.fallbacks # <<>> =>
       /\ \A i \in DOMAIN call.tried :
            i <= Len(client.fallbacks) + 1 /\ call.tried[i].url = UrlAt(client, i - 1)
       /\ call.stage = "trying" => Len(call.tried) = client.index
                                   /\ client.url = UrlAt(client, client.index)
       /\ call.stage = "failed" => Len(call.tried) = Len(client.fallbacks) + 1
  /\ client.fallbacks = <<>> => \A i \in DOMAIN call.tried : call.tried[i] = Attempt(client)

CallInv == ClientOK /\ CallOK

\* The client's fallbacks are sorted, and no two are the same endpoint.
LEMMA ClientsFallbacks ==
  ASSUME ClientOK
  PROVE  LET f == client.fallbacks
         IN /\ Len(f) \in Nat /\ DOMAIN f = 1 .. Len(f) /\ (f = <<>> <=> Len(f) = 0)
            /\ \A p, q \in DOMAIN f : p < q => f[p].priority <= f[q].priority
            /\ \A p, q \in DOMAIN f : f[p].url = f[q].url => p = q
            /\ \A p \in DOMAIN f : f[p].url # Primary.url /\ f[p].url \in Urls
            /\ \A p \in DOMAIN f : f[p].key \in Keys
            /\ \E s \in Setups : f = Sorted(s) /\ ToSet(f) = ToSet(s)
<1>1. PICK s \in Setups : client.fallbacks = Sorted(s)
  BY DEF ClientOK
<1>2. client.fallbacks \in Seq(EndpointSet) /\ ToSet(client.fallbacks) = ToSet(s)
  BY <1>1, SortedIs
<1>3. \A p \in DOMAIN client.fallbacks : client.fallbacks[p].key \in Keys
  <2> TAKE p \in DOMAIN client.fallbacks
  <2>1. client.fallbacks[p] \in ToSet(s)
    BY <1>2 DEF ToSet
  <2> QED BY <2>1 DEF Keys, Endpoints
<1> QED BY <1>1, <1>2, <1>3, SortedIs

\* One more attempt.
LEMMA OneMoreTried ==
  ASSUME ClientOK, CallOK, call.stage = "trying",
         NEW st \in {"trying", "answer", "garbled", "failed"},
         call' = [stage |-> st, tried |-> Append(call.tried, Attempt(client))]
  PROVE  /\ call' \in [stage : {"none", "trying", "answer", "garbled", "failed"},
                       tried : Seq([url : Urls, key : Keys])]
         /\ call'.stage = st /\ Len(call'.tried) = Len(call.tried) + 1
         /\ DOMAIN call'.tried = 1 .. Len(call.tried) + 1 /\ Len(call.tried) \in Nat
         /\ \A i \in 1 .. Len(call.tried) : call'.tried[i] = call.tried[i]
         /\ call'.tried[Len(call.tried) + 1] = Attempt(client)
<1>1. call.tried \in Seq([url : Urls, key : Keys]) /\ Attempt(client) \in [url : Urls, key : Keys]
  BY DEF ClientOK, CallOK, Attempt
<1> HIDE DEF ClientOK, CallOK
<1> QED BY <1>1

\* The call starts at the primary and goes on through the fallbacks in order.
LEMMA CallStep == CallInv /\ [Next]_vars => CallInv'
<1> SUFFICES ASSUME ClientOK, CallOK, [Next]_vars PROVE ClientOK' /\ CallOK'
  BY DEF CallInv
<1> DEFINE F == client.fallbacks
<1>0. /\ Len(F) \in Nat /\ DOMAIN F = 1 .. Len(F) /\ (F = <<>> <=> Len(F) = 0)
      /\ \A p \in DOMAIN F : F[p].url \in Urls /\ F[p].key \in Keys
  BY ClientsFallbacks
<1>a. Primary.url \in Urls /\ Primary.key \in Keys
  BY DEF Urls, Keys
<1>b. ASSUME client' = client \/ client' = RestoreToPrimary(client)
      PROVE  ClientOK' /\ client'.fallbacks = F
  <2>1. CASE client' = RestoreToPrimary(client)
    <3>1. /\ client'.fallbacks = F /\ client'.index = 0 /\ client'.url = Primary.url
          /\ client'.key = Primary.key
          /\ client' \in [fallbacks : Seq(EndpointSet), index : Nat, url : Urls, key : Keys]
      BY <1>a, <2>1 DEF RestoreToPrimary, ClientOK
    <3> QED BY <1>0, <3>1 DEF ClientOK
  <2>2. CASE client' = client
    BY <2>2 DEF ClientOK
  <2> QED BY <1>b, <2>1, <2>2
<1>1. CASE BeginCall
  <2>1. /\ client' = IF F = <<>> THEN client ELSE RestoreToPrimary(client)
        /\ call' = [stage |-> "trying", tried |-> <<>>]
    BY <1>1 DEF BeginCall, NoCall
  <2>2. ClientOK' /\ client'.fallbacks = F
    BY <1>b, <2>1
  <2>3. F # <<>> => client'.index = 0 /\ client'.url = Primary.url
    BY <2>1 DEF RestoreToPrimary, ClientOK
  <2> QED BY <2>1, <2>2, <2>3 DEF CallOK, UrlAt
<1>2. CASE Try
  <2> DEFINE tried == Append(call.tried, Attempt(client))
             n == Len(call.tried)
  <2>1. call.stage = "trying"
    BY <1>2 DEF Try
  <2>2. ASSUME NEW st \in {"trying", "answer", "garbled", "failed"},
               call' = [stage |-> st, tried |-> tried],
               client'.fallbacks = F, ClientOK',
               st = "failed" => (F # <<>> => client.index = Len(F)),
               F = <<>> => client' = client,
               st = "trying" /\ F # <<>> => /\ client'.index = client.index + 1
                                            /\ client'.url = UrlAt(client, client.index + 1)
        PROVE  CallOK'
    <3>1. /\ call' \in [stage : {"none", "trying", "answer", "garbled", "failed"},
                        tried : Seq([url : Urls, key : Keys])]
          /\ call'.stage = st /\ Len(call'.tried) = n + 1
          /\ DOMAIN call'.tried = 1 .. n + 1 /\ n \in Nat
          /\ \A i \in 1 .. n : call'.tried[i] = call.tried[i]
          /\ call'.tried[n + 1] = Attempt(client)
      BY <2>1, <2>2, OneMoreTried
    <3>2. DOMAIN call.tried = 1 .. n
      BY DEF CallOK
    <3>3. CASE F = <<>>
      <4>1. \A i \in DOMAIN call'.tried : call'.tried[i] = Attempt(client)
        BY <3>1, <3>2, <3>3 DEF CallOK
      <4> QED BY <2>2, <3>1, <3>3, <4>1 DEF CallOK
    <3>4. CASE F # <<>>
      <4>1. n = client.index /\ client.url = UrlAt(client, client.index) /\ client.index <= Len(F)
        BY <2>1, <3>4 DEF CallOK, ClientOK
      <4>2. \A i \in 1 .. n + 1 : i <= Len(F) + 1 /\ call'.tried[i].url = UrlAt(client, i - 1)
        <5> TAKE i \in 1 .. n + 1
        <5>1. CASE i \in 1 .. n
          BY <3>1, <3>2, <3>4, <5>1 DEF CallOK
        <5>2. CASE i = n + 1
          <6>1. i - 1 = client.index /\ call'.tried[i].url = client.url
            BY <3>1, <4>1, <5>2 DEF Attempt
          <6> QED BY <1>0, <3>1, <4>1, <5>2, <6>1
        <5> QED BY <3>1, <5>1, <5>2
      <4>3. \A i \in Nat : UrlAt(client', i) = UrlAt(client, i)
        BY <2>2 DEF UrlAt
      <4>4. \A i \in DOMAIN call'.tried :
              i <= Len(client'.fallbacks) + 1 /\ call'.tried[i].url = UrlAt(client', i - 1)
        BY <2>2, <3>1, <4>2, <4>3
      <4>5. st = "trying" => Len(call'.tried) = client'.index /\ client'.url = UrlAt(client', client'.index)
        BY <2>2, <3>1, <3>4, <4>1, <4>3
      <4>6. st = "failed" => Len(call'.tried) = Len(client'.fallbacks) + 1
        BY <2>2, <3>1, <3>4, <4>1
      <4> QED BY <2>2, <3>1, <3>4, <4>4, <4>5, <4>6 DEF CallOK
    <3> QED BY <3>3, <3>4
  <2>3. CASE Answered(tried)
    <3>1. PICK o \in {"answer", "garbled"} : call' = [stage |-> o, tried |-> tried]
      BY <2>3 DEF Answered, Outcomes
    <3>2. client' = IF F = <<>> THEN client ELSE RestoreToPrimary(client)
      BY <2>3 DEF Answered
    <3>3. ClientOK' /\ client'.fallbacks = F
      BY <1>b, <3>2
    <3> QED BY <2>2, <3>1, <3>2, <3>3
  <2>4. ASSUME GiveUp(tried), F # <<>> => client.index = Len(F) PROVE ClientOK' /\ CallOK'
    <3>1. client' = IF F = <<>> THEN client ELSE RestoreToPrimary(client)
      BY <2>4 DEF GiveUp
    <3>2. ClientOK' /\ client'.fallbacks = F
      BY <1>b, <3>1
    <3>3. call' = [stage |-> "failed", tried |-> tried]
      BY <2>4 DEF GiveUp
    <3> QED BY <2>2, <2>4, <3>1, <3>2, <3>3
  <2>5. ASSUME call' = [call EXCEPT !.tried = tried] PROVE call' = [stage |-> "trying", tried |-> tried]
    BY <2>1, <2>5 DEF CallOK
  <2>6. CASE F = <<>> /\ Retry(tried)
    <3>1. CASE GiveUp(tried)
      BY <2>4, <2>6, <3>1
    <3>2. CASE call' = [call EXCEPT !.tried = tried] /\ UNCHANGED client
      <4>1. ClientOK' /\ client'.fallbacks = F
        BY <1>b, <3>2
      <4> QED BY <2>2, <2>5, <2>6, <3>2, <4>1
    <3> QED BY <2>6, <3>1, <3>2 DEF Retry
  <2>7. CASE F # <<>> /\ FailOver(tried)
    <3>1. CASE HasNext(client)
      <4> DEFINE e == F[client.index + 1]
      <4>1. client' = SwitchToNextEndpoint(client) /\ call' = [call EXCEPT !.tried = tried]
        BY <2>7, <3>1 DEF FailOver
      <4>2. client.index \in Nat /\ client.index + 1 <= Len(F)
        BY <1>0, <3>1 DEF ClientOK, HasNext
      <4>3. e.url \in Urls /\ e.key \in Keys
        BY <1>0, <4>2
      <4>4. /\ client'.fallbacks = F /\ client'.index = client.index + 1 /\ client'.url = e.url
            /\ client' \in [fallbacks : Seq(EndpointSet), index : Nat, url : Urls, key : Keys]
        <5> DEFINE k == IF e.key = NoKey THEN client.key ELSE e.key
        <5>1. client' = [client EXCEPT !.index = @ + 1, !.url = e.url, !.key = k]
          BY <4>1 DEF SwitchToNextEndpoint
        <5>2. client \in [fallbacks : Seq(EndpointSet), index : Nat, url : Urls, key : Keys]
              /\ k \in Keys
          BY <4>3 DEF ClientOK
        <5> HIDE DEF k, e
        <5>3. client.index + 1 \in Nat /\ client.fallbacks \in Seq(EndpointSet)
          BY <4>2, <5>2
        <5>4. client' = [fallbacks |-> client.fallbacks, index |-> client.index + 1,
                         url |-> e.url, key |-> k]
          BY <5>1, <5>2
        <5> QED BY <4>3, <5>2, <5>3, <5>4
      <4>5. ClientOK'
        BY <2>7, <4>2, <4>4 DEF ClientOK
      <4>6. UrlAt(client, client.index + 1) = e.url
        BY <4>2 DEF UrlAt
      <4> QED BY <2>2, <2>5, <2>7, <4>1, <4>4, <4>5, <4>6
    <3>2. CASE ~HasNext(client)
      <4>1. GiveUp(tried)
        BY <2>7, <3>2 DEF FailOver
      <4>2. client.index = Len(F)
        BY <1>0, <3>2 DEF ClientOK, HasNext
      <4> QED BY <2>4, <4>1, <4>2
    <3> QED BY <3>1, <3>2
  <2>8. Answered(tried) \/ (IF F = <<>> THEN Retry(tried) ELSE FailOver(tried))
    BY <1>2 DEF Try
  <2>9. CASE Answered(tried)
    <3>1. client' = IF F = <<>> THEN client ELSE RestoreToPrimary(client)
      BY <2>9 DEF Answered
    <3>2. ClientOK'
      BY <1>b, <3>1
    <3> QED BY <2>3, <2>9, <3>2
  <2> QED BY <2>6, <2>7, <2>8, <2>9
<1>3. CASE Weather \/ UNCHANGED failoverVars
  BY <1>3 DEF Weather, failoverVars, ClientOK, CallOK, UrlAt, Attempt
<1>4. CASE call' = NoCall /\ UNCHANGED <<client, weather>>
  BY <1>4 DEF NoCall, ClientOK, CallOK, UrlAt, Attempt
<1> QED BY <1>1, <1>2, <1>3, <1>4, FailoverSteps

\* At the start no call is made and the primary is in use.
LEMMA CallStart == Init => CallInv
<1> SUFFICES ASSUME Init PROVE ClientOK /\ CallOK
  BY DEF CallInv
<1>1. PICK s \in Setups : client = [fallbacks |-> Sorted(s), index |-> 0, url |-> Primary.url,
                                    key |-> Primary.key]
  BY DEF Init, FailoverInit, Configured
<1>2. call = [stage |-> "none", tried |-> <<>>]
  BY DEF Init, FailoverInit, NoCall
<1>3. Sorted(s) \in Seq(EndpointSet)
  BY SortedIs
<1>4. Len(Sorted(s)) \in Nat
  BY <1>3
<1>5. ClientOK
  BY <1>1, <1>3, <1>4 DEF ClientOK, Urls, Keys
<1> QED BY <1>2, <1>5 DEF CallOK

\* One call (CallWithMessages) asks the primary first, then every fallback at
\* most once and never one of a higher priority after one of a lower, and fails
\* only when all were asked, for any number of fallbacks.
THEOREM AsksInOrder == Spec => []AsksByPriority
<1>1. CallInv => AsksByPriority
  <2> SUFFICES ASSUME ClientOK, CallOK, client.fallbacks # <<>> PROVE AsksByPriority
    BY DEF CallInv, AsksByPriority
  <2> DEFINE F == client.fallbacks
  <2>0. /\ Len(F) \in Nat /\ DOMAIN F = 1 .. Len(F)
        /\ \A p, q \in DOMAIN F : p < q => F[p].priority <= F[q].priority
        /\ \A p, q \in DOMAIN F : F[p].url = F[q].url => p = q
        /\ \A p \in DOMAIN F : F[p].url # Primary.url
    BY ClientsFallbacks
  <2>1. DOMAIN call.tried = 1 .. Len(call.tried) /\ Len(call.tried) \in Nat
    BY DEF CallOK
  <2>2. \A i \in DOMAIN call.tried : i \in Nat \ {0} /\ i - 1 \in 0 .. Len(F)
                                     /\ call.tried[i].url = UrlAt(client, i - 1)
    BY <2>0, <2>1 DEF CallOK
  <2>3. \A i \in DOMAIN call.tried : i = 1 \/ (i - 1 \in DOMAIN F /\ call.tried[i].url = F[i - 1].url)
    BY <2>0, <2>2 DEF UrlAt
  <2>4. \A i \in DOMAIN call.tried : (i = 1) <=> (call.tried[i].url = Primary.url)
    BY <2>0, <2>2, <2>3 DEF UrlAt
  <2>5. ASSUME NEW n \in DOMAIN call.tried, n # 1
        PROVE  (CHOOSE e \in ToSet(F) : e.url = call.tried[n].url) = F[n - 1]
    <3>1. n - 1 \in DOMAIN F /\ call.tried[n].url = F[n - 1].url
      BY <2>3, <2>5
    <3>2. \A e \in ToSet(F) : e.url = call.tried[n].url <=> e = F[n - 1]
      BY <2>0, <3>1 DEF ToSet
    <3>3. F[n - 1] \in ToSet(F)
      BY <3>1 DEF ToSet
    <3> QED BY <3>2, <3>3
  <2>6. ASSUME NEW i \in DOMAIN call.tried, NEW j \in 2 .. i - 1
        PROVE  /\ call.tried[j].url # call.tried[i].url
               /\ (CHOOSE e \in ToSet(F) : e.url = call.tried[j].url).priority
                    <= (CHOOSE e \in ToSet(F) : e.url = call.tried[i].url).priority
    <3>1. i \in Nat /\ j \in Nat /\ j \in DOMAIN call.tried /\ i # 1 /\ j # 1
          /\ i - 1 # j - 1 /\ j - 1 < i - 1
      BY <2>1
    <3>2. i - 1 \in DOMAIN F /\ j - 1 \in DOMAIN F
          /\ call.tried[i].url = F[i - 1].url /\ call.tried[j].url = F[j - 1].url
      BY <2>3, <3>1
    <3>3. call.tried[j].url # call.tried[i].url /\ F[j - 1].priority <= F[i - 1].priority
      BY <2>0, <3>1, <3>2
    <3> QED BY <2>5, <3>1, <3>3
  <2>7. ASSUME call.stage = "failed" PROVE {a.url : a \in ToSet(call.tried)} = Asked
    <3>1. Len(call.tried) = Len(F) + 1
      BY <2>7 DEF CallOK
    <3>2. ASSUME NEW a \in ToSet(call.tried) PROVE a.url \in Asked
      <4>1. PICK i \in DOMAIN call.tried : a = call.tried[i]
        BY DEF ToSet
      <4> QED BY <2>3, <2>4, <4>1 DEF Asked, ToSet
    <3>3. ASSUME NEW u \in Asked PROVE \E a \in ToSet(call.tried) : a.url = u
      <4>1. CASE u = Primary.url
        <5>1. 1 \in DOMAIN call.tried
          BY <2>0, <2>1, <3>1
        <5> QED BY <2>4, <4>1, <5>1 DEF ToSet
      <4>2. CASE u # Primary.url
        <5>1. PICK p \in DOMAIN F : u = F[p].url
          BY <4>2 DEF Asked, ToSet
        <5>2. p + 1 \in DOMAIN call.tried /\ (p + 1) - 1 = p /\ p + 1 # 1
          BY <2>0, <2>1, <3>1, <5>1
        <5>3. call.tried[p + 1].url = u
          BY <2>3, <5>1, <5>2
        <5> QED BY <5>2, <5>3 DEF ToSet
      <4> QED BY <4>1, <4>2
    <3> QED BY <3>2, <3>3
  <2> QED BY <2>4, <2>6, <2>7 DEF AsksByPriority
<1> QED BY <1>1, CallStart, CallStep, PTL DEF Spec

\* The fallbacks are configured once.
LEMMA FallbacksStay == CallInv /\ [Next]_vars => client'.fallbacks = client.fallbacks
<1> SUFFICES ASSUME CallInv, [Next]_vars PROVE client'.fallbacks = client.fallbacks
  OBVIOUS
<1>1. ASSUME client' = client \/ client' = RestoreToPrimary(client) \/ client' = SwitchToNextEndpoint(client)
      PROVE  client'.fallbacks = client.fallbacks
  BY <1>1 DEF RestoreToPrimary, SwitchToNextEndpoint, CallInv, ClientOK
<1>2. CASE BeginCall \/ Weather \/ UNCHANGED failoverVars \/ (call' = NoCall /\ UNCHANGED <<client, weather>>)
  BY <1>1, <1>2 DEF BeginCall, Weather, failoverVars
<1>3. CASE Try
  BY <1>1, <1>3 DEF Try, Answered, Retry, GiveUp, FailOver
<1> QED BY <1>2, <1>3, FailoverSteps

\* Fallbacks without a key of their own come before those with one.
KeylessFirst ==
  \A s \in Setups : \A d, e \in ToSet(s) :
    d.key # NoKey /\ e.key = NoKey => e.priority < d.priority

\* What an endpoint accepts.
LEMMA KeyForIs ==
  ASSUME ClientOK
  PROVE  /\ KeyFor(client, Primary.url) = Primary.key
         /\ \A p \in DOMAIN client.fallbacks :
              KeyFor(client, client.fallbacks[p].url)
                = IF client.fallbacks[p].key = NoKey THEN Primary.key ELSE client.fallbacks[p].key
<1> DEFINE F == client.fallbacks
           Own(u) == {e \in ToSet(F) : e.url = u /\ e.key # NoKey}
<1>1. /\ \A p, q \in DOMAIN F : F[p].url = F[q].url => p = q
      /\ \A p \in DOMAIN F : F[p].url # Primary.url
  BY ClientsFallbacks
<1>2. Own(Primary.url) = {}
  BY <1>1 DEF ToSet
<1>3. ASSUME NEW p \in DOMAIN F
      PROVE  KeyFor(client, F[p].url) = IF F[p].key = NoKey THEN Primary.key ELSE F[p].key
  <2>1. \A e \in Own(F[p].url) : e = F[p]
    BY <1>1 DEF ToSet
  <2>2. CASE F[p].key = NoKey
    <3>1. Own(F[p].url) = {}
      BY <2>1, <2>2
    <3> QED BY <2>2, <3>1 DEF KeyFor
  <2>3. CASE F[p].key # NoKey
    <3>1. F[p] \in Own(F[p].url)
      BY <2>3 DEF ToSet
    <3>2. (CHOOSE e \in Own(F[p].url) : TRUE) = F[p]
      BY <2>1, <3>1
    <3> QED BY <2>3, <3>1, <3>2 DEF KeyFor
  <2> QED BY <2>2, <2>3
<1> QED BY <1>2, <1>3 DEF KeyFor

\* Without a key of its own an endpoint keeps the one in use, which is the
\* primary's as long as no endpoint before it has one.
KeyInv ==
  /\ \A i \in DOMAIN call.tried : call.tried[i].key = KeyFor(client, call.tried[i].url)
  /\ call.stage = "trying" => client.key = KeyFor(client, client.url)

\* The key in use stays that of the endpoint in use.
LEMMA KeyStep == ASSUME KeylessFirst, CallInv, KeyInv, [Next]_vars PROVE KeyInv'
<1> DEFINE F == client.fallbacks
           n == Len(call.tried)
           tried == Append(call.tried, Attempt(client))
<1>0. ClientOK /\ CallOK /\ client'.fallbacks = F
  BY FallbacksStay DEF CallInv
<1>1. \A u : KeyFor(client', u) = KeyFor(client, u)
  BY <1>0 DEF KeyFor
<1>2. CASE BeginCall
  <2>1. call' = [stage |-> "trying", tried |-> <<>>]
        /\ client' = IF F = <<>> THEN client ELSE RestoreToPrimary(client)
    BY <1>2 DEF BeginCall, NoCall
  <2>2. client'.key = Primary.key /\ client'.url = Primary.url
    BY <1>0, <2>1 DEF RestoreToPrimary, ClientOK
  <2>3. KeyFor(client, Primary.url) = Primary.key
    BY <1>0, KeyForIs
  <2> QED BY <1>1, <2>1, <2>2, <2>3 DEF KeyInv
<1>3. CASE Try
  <2>1. call.stage = "trying"
    BY <1>3 DEF Try
  <2>2. ASSUME NEW st \in {"trying", "answer", "garbled", "failed"},
               call' = [stage |-> st, tried |-> tried],
               st = "trying" => client'.key = KeyFor(client, client'.url)
        PROVE  KeyInv'
    <3>1. /\ call'.stage = st /\ DOMAIN call'.tried = 1 .. n + 1 /\ n \in Nat
          /\ \A i \in 1 .. n : call'.tried[i] = call.tried[i]
          /\ call'.tried[n + 1] = Attempt(client)
      BY <1>0, <2>1, <2>2, OneMoreTried
    <3>2. DOMAIN call.tried = 1 .. n
      BY <1>0 DEF CallOK
    <3>3. Attempt(client).key = KeyFor(client, Attempt(client).url)
      BY <2>1 DEF KeyInv, Attempt
    <3>4. \A i \in 1 .. n + 1 : call'.tried[i].key = KeyFor(client, call'.tried[i].url)
      <4> TAKE i \in 1 .. n + 1
      <4>1. CASE i \in 1 .. n
        BY <3>1, <3>2, <4>1 DEF KeyInv
      <4>2. CASE i = n + 1
        BY <3>1, <3>3, <4>2
      <4> QED BY <3>1, <4>1, <4>2
    <3> QED BY <1>1, <2>2, <3>1, <3>4 DEF KeyInv
  <2>3. CASE Answered(tried)
    <3>1. PICK o \in {"answer", "garbled"} : call' = [stage |-> o, tried |-> tried]
      BY <2>3 DEF Answered, Outcomes
    <3> QED BY <2>2, <3>1
  <2>4. CASE GiveUp(tried)
    <3>1. call' = [stage |-> "failed", tried |-> tried]
      BY <2>4 DEF GiveUp
    <3> QED BY <2>2, <3>1
  <2>5. ASSUME call' = [call EXCEPT !.tried = tried] PROVE call' = [stage |-> "trying", tried |-> tried]
    BY <1>0, <2>1, <2>5 DEF CallOK
  <2>6. CASE call' = [call EXCEPT !.tried = tried] /\ UNCHANGED client
    <3>1. client'.key = KeyFor(client, client'.url)
      BY <2>1, <2>6 DEF KeyInv
    <3> QED BY <2>2, <2>5, <2>6, <3>1
  <2>7. CASE F # <<>> /\ HasNext(client) /\ FailOver(tried)
    <3> DEFINE p == client.index + 1
               e == F[p]
    <3>1. client' = SwitchToNextEndpoint(client) /\ call' = [call EXCEPT !.tried = tried]
      BY <2>7 DEF FailOver
    <3>2. Len(F) \in Nat /\ DOMAIN F = 1 .. Len(F) /\ client.index \in Nat /\ p \in DOMAIN F
      BY <1>0, <2>7, ClientsFallbacks DEF ClientOK, HasNext
    <3>3. client'.url = e.url /\ client'.key = IF e.key = NoKey THEN client.key ELSE e.key
      BY <1>0, <3>1 DEF SwitchToNextEndpoint, ClientOK
    <3>4. KeyFor(client, e.url) = IF e.key = NoKey THEN Primary.key ELSE e.key
      BY <1>0, <3>2, KeyForIs
    <3>5. ASSUME e.key = NoKey PROVE client.key = Primary.key
      <4>1. client.key = KeyFor(client, client.url) /\ client.url = UrlAt(client, client.index)
        BY <1>0, <2>1, <2>7 DEF KeyInv, CallOK
      <4>2. CASE client.index = 0
        BY <1>0, <4>1, <4>2, KeyForIs DEF UrlAt
      <4>3. CASE client.index # 0
        <5> DEFINE q == client.index
        <5>1. q \in DOMAIN F /\ q < p
          BY <3>2, <4>3
        <5>2. F[q].priority <= e.priority
          BY <1>0, <3>2, <5>1, ClientsFallbacks
        <5>3. PICK s \in Setups : F = Sorted(s) /\ ToSet(F) = ToSet(s)
          BY <1>0, ClientsFallbacks
        <5>4. F[q] \in ToSet(s) /\ e \in ToSet(s)
          BY <3>2, <5>1, <5>3 DEF ToSet
        <5>5. F[q].priority \in Int /\ e.priority \in Int
          <6>1. F \in Seq(EndpointSet)
            BY <5>3, SortedIs
          <6>2. F[q] \in EndpointSet /\ e \in EndpointSet
            BY <3>2, <5>1, <6>1
          <6> QED BY <6>2 DEF EndpointSet
        <5>6. F[q].key = NoKey
          <6>1. F[q].key # NoKey => e.priority < F[q].priority
            BY <3>5, <5>4 DEF KeylessFirst
          <6> QED BY <5>2, <5>5, <6>1
        <5>7. client.url = F[q].url
          BY <4>1, <4>3 DEF UrlAt
        <5> QED BY <1>0, <4>1, <5>1, <5>6, <5>7, KeyForIs
      <4> QED BY <4>2, <4>3
    <3>6. client'.key = KeyFor(client, client'.url)
      BY <3>3, <3>4, <3>5
    <3> QED BY <2>2, <2>5, <3>1, <3>6
  <2>8. \/ Answered(tried) \/ GiveUp(tried)
        \/ call' = [call EXCEPT !.tried = tried] /\ UNCHANGED client
        \/ F # <<>> /\ HasNext(client) /\ FailOver(tried)
    BY <1>3 DEF Try, Retry, FailOver
  <2> QED BY <2>3, <2>4, <2>6, <2>7, <2>8
<1>4. CASE Weather \/ UNCHANGED failoverVars
  <2>1. client' = client /\ call' = call
    BY <1>4 DEF Weather, failoverVars
  <2> QED BY <1>1, <2>1 DEF KeyInv
<1>5. CASE call' = NoCall /\ UNCHANGED <<client, weather>>
  BY <1>5 DEF NoCall, KeyInv
<1> QED BY <1>2, <1>3, <1>4, <1>5, FailoverSteps

\* When no fallback without a key of its own is tried after one with a key, every
\* attempt of every call carries the key of the endpoint it goes to, the
\* primary's if it has none: switchToNextEndpoint hands no key on.
THEOREM OwnKeys == KeylessFirst => (Spec => []OwnKeyOrPrimarys)
<1> SUFFICES ASSUME KeylessFirst PROVE Spec => []OwnKeyOrPrimarys
  OBVIOUS
<1> DEFINE EInv == CallInv /\ KeyInv
<1>1. Init => EInv
  <2>1. Init => KeyInv
    BY DEF Init, FailoverInit, NoCall, KeyInv
  <2> QED BY <2>1, CallStart
<1>2. EInv /\ [Next]_vars => EInv'
  BY CallStep, KeyStep
<1>3. EInv => OwnKeyOrPrimarys
  BY DEF KeyInv, OwnKeyOrPrimarys, ToSet
<1> QED BY <1>1, <1>2, <1>3, PTL DEF Spec
=============================================================================
