---------------------------- MODULE DecisionCycle ----------------------------
(***************************************************************************)
(* The decision cycle of an AI trader (src/trader/auto_trader_loop.go and  *)
(* auto_trader_orders.go) composed with its LLM client (EndpointFailover): *)
(* read the account, ask the model, then carry out its decisions one by    *)
(* one - closes first, then opens.  An open checks the number of           *)
(* positions, may cut the weakest one to make room                         *)
(* (auto_trader_replace.go), tries a post-only order                       *)
(* (auto_trader_maker_entry.go) or crosses the market, and protects what   *)
(* it opened or closes it again (protection_execution.go).  Meanwhile the  *)
(* exchange fills the resting order and closes positions, calls fail, and  *)
(* the operator stops the trader or puts it into protect-only mode.        *)
(*                                                                         *)
(* One side per symbol: the close-and-reverse of trend_reversal_flip.go is *)
(* a close followed by an open.  Sizes are lots of one entry; prices, the  *)
(* sizing rules, the entry gate and the post-loss cooldown only decide     *)
(* whether an entry is refused, and a refusal is always possible.          *)
(***************************************************************************)
EXTENDS EndpointFailover

CONSTANTS Symbols,
          NoSymbol,
          MaxPositions,   \* RiskControl.MaxPositions
          OpenSize,       \* lots of one entry
          Modes,          \* maker: post-only entries are "off", or what follows an unfilled
                          \* one; venue: "cached" serves positions up to 15 s old (OKX)
          FailureLimit,   \* consecutive AI failures that activate safe mode
          Faults,         \* the calls that may fail, each once
          MaxFaults

ASSUME CycleAssumption ==
  /\ NoSymbol \notin Symbols /\ IsFiniteSet(Symbols)
  /\ MaxPositions \in Nat \ {0}
  /\ OpenSize \in Nat \ {0}
  /\ FailureLimit \in Nat \ {0}
  /\ Modes \subseteq [maker : {"off", "abort", "market"}, venue : {"cached", "fresh"}]
  /\ Faults \subseteq {"cancel", "status", "lost", "protect", "close"}

VARIABLES account,   \* the exchange: per symbol the lots held, and whether they are protected
          astray,    \* per symbol the lots of resting entry orders nobody watches any more
          cache,     \* the symbols of the positions the adapter would serve without
                     \* asking the exchange; an empty answer is never kept
          trader,    \* running, safe mode, consecutive failures of the AI, its settings
          step,      \* where the cycle is: the decisions left, the entry in progress
          failed     \* the kinds of call that failed so far

vars == <<failoverVars, account, astray, cache, trader, step, failed>>

Held == {s \in Symbols : account[s].lots > 0}
Flat == [lots |-> 0, protected |-> FALSE]
Resting == [at |-> "rest", sym |-> NoSymbol, closes |-> {}, opens |-> {}, left |-> 0, filled |-> 0]

Init ==
  /\ FailoverInit
  /\ account = [s \in Symbols |-> Flat]
  /\ astray = [s \in Symbols |-> 0]
  /\ cache = {}
  /\ \E m \in Modes :
       trader = [running |-> TRUE, safe |-> "off", failures |-> 0,
                 maker |-> m.maker, venue |-> m.venue]
  /\ step = Resting
  /\ failed = {}

-----------------------------------------------------------------------------
Fails(kind) ==
  /\ kind \in Faults \ failed
  /\ Cardinality(failed) < MaxFaults
  /\ failed' = failed \cup {kind}

Works == UNCHANGED failed

\* GetPositions of the adapter: the symbols it reports, and what it keeps.
Seen == IF cache = {} THEN Held ELSE cache

Keep(symbols) == IF trader.venue = "cached" THEN symbols ELSE {}

GoTo(at) == step' = [step EXCEPT !.at = at]

\* The entry in progress is over, the next decision is due.
EntryOver == step' = [step EXCEPT !.at = "decide", !.sym = NoSymbol, !.left = 0, !.filled = 0]

\* CloseLong(symbol, 0): asks for the positions afresh - what it then keeps was
\* read before the close - closes all of it and cancels the symbol's orders.
ClosedAt(s) ==
  /\ account' = [account EXCEPT ![s] = Flat]
  /\ astray' = [astray EXCEPT ![s] = IF s \in Held THEN 0 ELSE @]
  /\ cache' = Keep(Held)

-----------------------------------------------------------------------------
\* runCycle: read the account, then ask the model.
StartCycle ==
  /\ step.at = "rest"
  /\ trader.running
  /\ \/ weather = "foul" /\ UNCHANGED <<failoverVars, cache, step>>   \* a read fails
     \/ BeginCall /\ cache' = Keep(Seen) /\ GoTo("ask")
  /\ UNCHANGED <<account, astray, trader, failed>>

Ask ==
  /\ step.at = "ask"
  /\ Try
  /\ UNCHANGED <<account, astray, cache, trader, step, failed>>

\* The call failed, or its answer does not parse: at the limit safe mode begins.
AIFails ==
  /\ step.at = "ask"
  /\ call.stage \in {"failed", "garbled"}
  /\ call' = NoCall
  /\ LET n == IF trader.failures < FailureLimit THEN trader.failures + 1 ELSE FailureLimit
     IN trader' = [trader EXCEPT !.failures = n,
                                 !.safe = IF @ = "off" /\ n = FailureLimit THEN "ai" ELSE @]
  /\ step' = Resting
  /\ UNCHANGED <<client, weather, account, astray, cache, failed>>

\* Mutant: safe mode stays on when the AI answers again.
NeverRecovered(t) == [t EXCEPT !.failures = 0]

Recovered(t) == [t EXCEPT !.failures = 0, !.safe = IF @ = "ai" THEN "off" ELSE @]

\* The answer parses: the decisions of a trader that still runs are due.
AIAnswers ==
  /\ step.at = "ask"
  /\ call.stage = "answer"
  /\ call' = NoCall
  /\ trader' = Recovered(trader)
  /\ IF trader.running
     THEN \E c \in SUBSET Held, o \in SUBSET Symbols :
            step' = [Resting EXCEPT !.at = "decide", !.closes = c, !.opens = o]
     ELSE step' = Resting
  /\ UNCHANGED <<client, weather, account, astray, cache, failed>>

CycleOver ==
  /\ step.at = "decide"
  /\ ~trader.running \/ (step.closes = {} /\ step.opens = {})
  /\ step' = Resting
  /\ UNCHANGED <<failoverVars, account, astray, cache, trader, failed>>

\* A close decision: refused by the AI close gate, failed, or carried out.
CloseDecision(s) ==
  /\ step.at = "decide" /\ trader.running /\ s \in step.closes
  /\ step' = [step EXCEPT !.closes = @ \ {s}]
  /\ \/ UNCHANGED <<account, astray, cache>>
     \/ ClosedAt(s)
  /\ UNCHANGED <<failoverVars, trader, failed>>

\* An open decision: refused by a gate, or its entry begins.
OpenDecision(s) ==
  /\ step.at = "decide" /\ trader.running /\ step.closes = {} /\ s \in step.opens
  /\ \/ step' = [step EXCEPT !.opens = @ \ {s}]
     \/ step' = [step EXCEPT !.opens = @ \ {s}, !.at = "entry", !.sym = s]
  /\ UNCHANGED <<failoverVars, account, astray, cache, trader, failed>>

-----------------------------------------------------------------------------
\* Mutant: the limit on positions is off by one.
RoomForOneMore(symbols) == Cardinality(symbols) <= MaxPositions

HasRoom(symbols) == Cardinality(symbols) < MaxPositions

\* The checks before an entry: no position in the symbol, room for one more or
\* a weakest position to cut for it.  A read or the cut may fail, the position
\* may be there, nothing may be worth cutting: then the entry is over.
CheckEntry ==
  /\ step.at = "entry"
  /\ \/ EntryOver /\ UNCHANGED <<account, astray>> /\ cache' \in {cache, Keep(Seen)}
     \/ /\ step.sym \notin Seen /\ HasRoom(Seen)
        /\ GoTo("order") /\ cache' = Keep(Seen) /\ UNCHANGED <<account, astray>>
     \/ /\ step.sym \notin Seen /\ ~HasRoom(Seen)
        /\ \E victim \in Seen : ClosedAt(victim) /\ GoTo("recheck")
  /\ UNCHANGED <<failoverVars, trader, failed>>

\* After the cut the positions are read again, and the limit holds again.
Recheck ==
  /\ step.at = "recheck"
  /\ \/ EntryOver /\ UNCHANGED cache    \* the read failed
     \/ /\ IF HasRoom(Seen) THEN GoTo("order") ELSE EntryOver
        /\ cache' = Keep(Seen)
  /\ UNCHANGED <<failoverVars, account, astray, trader, failed>>

Unfilled == IF trader.maker = "market" THEN step' = [step EXCEPT !.at = "market", !.left = 0, !.filled = 0]
            ELSE EntryOver

\* The entry is refused by a sizing rule, or its order goes out: at the market -
\* also when the order book cannot be read - or post-only, if the exchange takes it.
PlaceEntry ==
  /\ step.at = "order"
  /\ \/ EntryOver
     \/ GoTo("market")
     \/ trader.maker # "off" /\ step' = [step EXCEPT !.at = "maker", !.left = OpenSize]
     \/ trader.maker # "off" /\ Unfilled
  /\ UNCHANGED <<failoverVars, account, astray, cache, trader, failed>>

MakerFilled ==
  /\ step.at = "maker"
  /\ step.left = 0
  /\ GoTo("protect")
  /\ UNCHANGED <<failoverVars, account, astray, cache, trader, failed>>

\* Mutant: what was filled before the cancel is not looked at again.
FilledIgnored == Unfilled

\* The status read after the cancel: what was filled is the whole entry.
FinalState == IF step.filled > 0 THEN step' = [step EXCEPT !.at = "protect", !.left = 0]
              ELSE Unfilled

\* The order was not seen filled in time: cancel it and look again.
MakerTimeout ==
  /\ step.at = "maker"
  /\ \/ Works /\ FinalState /\ UNCHANGED astray
     \/ Fails("status") /\ Unfilled /\ UNCHANGED astray
     \/ Fails("cancel") /\ FinalState /\ astray' = [astray EXCEPT ![step.sym] = @ + step.left]
  /\ UNCHANGED <<failoverVars, account, cache, trader>>

\* A position of more than an entry counts as one of OpenSize + 1 lots.
Bought(s, lots, protected) ==
  account' = [account EXCEPT ![s] =
                [lots |-> IF @.lots + lots > OpenSize THEN OpenSize + 1 ELSE @.lots + lots,
                 protected |-> protected]]

\* OpenLong cancels the symbol's orders and crosses the market.  The exchange
\* may reject the order, or carry it out and the response is lost.
MarketEntry ==
  /\ step.at = "market"
  /\ astray' = [astray EXCEPT ![step.sym] = 0]
  /\ \/ Works /\ EntryOver /\ UNCHANGED account
     \/ Fails("lost") /\ EntryOver /\ Bought(step.sym, OpenSize, FALSE)
     \/ Works /\ GoTo("protect") /\ Bought(step.sym, OpenSize, FALSE)
  /\ UNCHANGED <<failoverVars, cache, trader>>

\* Mutant: a failed protection is reported and the position kept.
Reported == Works /\ EntryOver /\ UNCHANGED <<account, astray, cache>>

\* applyPostOpenProtection failed: the position is closed at once.
EmergencyClose ==
  \/ Works /\ ClosedAt(step.sym) /\ EntryOver
  \/ Fails("close") /\ EntryOver /\ UNCHANGED <<account, astray, cache>>

Undo ==
  /\ step.at = "undo"
  /\ EmergencyClose
  /\ UNCHANGED <<failoverVars, trader>>

ProtectEntry ==
  /\ step.at = "protect"
  /\ \/ /\ Works /\ EntryOver
        /\ account' = [account EXCEPT ![step.sym].protected = step.sym \in Held]
     \/ Fails("protect") /\ GoTo("undo") /\ UNCHANGED account
  /\ UNCHANGED <<failoverVars, astray, cache, trader>>

-----------------------------------------------------------------------------
\* The exchange fills a lot of the order the cycle waits for, or of one astray.
RestingFill ==
  /\ step.at = "maker" /\ step.left > 0
  /\ step' = [step EXCEPT !.left = @ - 1, !.filled = @ + 1]
  /\ Bought(step.sym, 1, account[step.sym].protected)
  /\ UNCHANGED <<failoverVars, astray, cache, trader, failed>>

AstrayFill(s) ==
  /\ astray[s] > 0
  /\ astray' = [astray EXCEPT ![s] = @ - 1]
  /\ Bought(s, 1, account[s].protected)
  /\ UNCHANGED <<failoverVars, cache, trader, step, failed>>

\* A stop, a target or the owner closes a position.
ExchangeCloses(s) ==
  /\ s \in Held
  /\ account' = [account EXCEPT ![s] = Flat]
  /\ UNCHANGED <<failoverVars, astray, cache, trader, step, failed>>

\* The cached positions grow too old; another goroutine reads them again.
CacheAges ==
  /\ trader.venue = "cached"
  /\ cache' \in {{}, Held}
  /\ UNCHANGED <<failoverVars, account, astray, trader, step, failed>>

\* The operator stops the trader, starts it in protect-only mode, clears safe mode.
Operate ==
  /\ \/ trader.running /\ trader' = [trader EXCEPT !.running = FALSE]
     \/ trader.safe # "protect" /\ trader' = [trader EXCEPT !.safe = "protect"]
     \/ trader.safe # "off" /\ trader' = [trader EXCEPT !.safe = "off", !.failures = 0]
  /\ UNCHANGED <<failoverVars, account, astray, cache, step, failed>>

Outside ==
  \/ Weather /\ UNCHANGED <<account, astray, cache, trader, step, failed>>
  \/ RestingFill
  \/ \E s \in Symbols : AstrayFill(s) \/ ExchangeCloses(s)
  \/ CacheAges
  \/ Operate

Cycle ==
  \/ StartCycle \/ Ask \/ AIFails \/ AIAnswers \/ CycleOver
  \/ \E s \in Symbols : CloseDecision(s) \/ OpenDecision(s)
  \/ CheckEntry \/ Recheck \/ PlaceEntry \/ MakerFilled \/ MakerTimeout
  \/ MarketEntry \/ ProtectEntry \/ Undo

Next == Cycle \/ Outside

Spec == Init /\ [][Next]_vars

\* The loop's goroutine keeps running.
FairSpec == Spec /\ WF_vars(Cycle)

-----------------------------------------------------------------------------
Trader == [running : BOOLEAN, safe : {"off", "ai", "protect"}, failures : 0 .. FailureLimit,
           maker : {"off", "abort", "market"}, venue : {"cached", "fresh"}]
Step == [at : {"rest", "ask", "decide", "entry", "recheck", "order", "maker", "market", "protect", "undo"},
         sym : Symbols \cup {NoSymbol}, closes : SUBSET Symbols, opens : SUBSET Symbols,
         left : 0 .. OpenSize, filled : 0 .. OpenSize]

CycleTypeOK ==
  /\ account \in [Symbols -> [lots : 0 .. OpenSize + 1, protected : BOOLEAN]]
  /\ astray \in [Symbols -> 0 .. OpenSize]
  /\ cache \subseteq Symbols
  /\ trader \in Trader
  /\ step \in Step
  /\ failed \subseteq Faults

\* Every part of the state has its type; nothing is cached for a venue that asks
\* the exchange every time, and an entry has its symbol.
TypeOK ==
  /\ FailoverTypeOK
  /\ CycleTypeOK
  /\ trader.venue = "fresh" => cache = {}
  /\ step.at \in {"rest", "ask", "decide"} <=> step.sym = NoSymbol

Watched(s) == IF step.sym = s THEN step.left ELSE 0

\* On a venue that serves no cached positions, and as long as the cancel and
\* the status read of a post-only order work, a position is never larger than
\* one entry: what was filled before the cancel is counted, the market order
\* does not come on top of it, and no later cycle adds to the position.
NeverOversized ==
  trader.venue = "fresh" /\ failed \cap {"cancel", "status"} = {} =>
    \A s \in Symbols : account[s].lots + astray[s] + Watched(s) <= OpenSize

\* On such a venue, and while no order went astray, an account never holds more positions than its limit.
WithinMaxPositions ==
  trader.venue = "fresh" /\ "cancel" \notin failed => Cardinality(Held) <= MaxPositions

\* The same on every venue.
CapacityIsNeverExceeded == "cancel" \notin failed => Cardinality(Held) <= MaxPositions

\* No single failure but these leaves a position without protection once its
\* entry is over: the response of the market order, the cancel or the final
\* status of a post-only order; a failed protection needs a failed close too.
NakedOnlyAfterTwoFailures ==
  \A s \in Held :
    step.sym # s /\ ~account[s].protected =>
      failed \cap {"lost", "cancel", "status"} # {} \/ {"protect", "close"} \subseteq failed

\* In protect-only mode the model's open decisions buy nothing.
ProtectOnlyOpensNothing ==
  [][trader.safe = "protect" => ~(step.at = "decide" /\ step'.at = "entry")]_vars

\* Once the weather stays fine - one endpoint answers every request and no
\* answer is garbled - a running trader leaves the safe mode its AI's failures
\* put it into.
AIRecovers == (weather # "foul") ~> (trader.safe # "ai" \/ ~trader.running)
=============================================================================
