--------------------------- MODULE MCDecisionCycle ---------------------------
(***************************************************************************)
(* Small instances of DecisionCycle: two symbols, room for one position,   *)
(* an entry of two lots, a primary endpoint with up to two fallbacks.      *)
(***************************************************************************)
EXTENDS DecisionCycle

ThePrimary == [url |-> "p", key |-> "kp"]
Fallback(u, k, n) == [url |-> u, key |-> k, priority |-> n]

\* No fallbacks; a keyless one tried before one with a key, configured last.
TheSetups == {<<>>, <<Fallback("f", "kf", 2), Fallback("g", "none", 1)>>}

\* No post-only entries; one that ends an unfilled entry; one the market follows.
TheModes == {[maker |-> "off", venue |-> "cached"], [maker |-> "abort", venue |-> "fresh"],
             [maker |-> "market", venue |-> "fresh"]}

\* OKX, entries at the market.
OKX == {[maker |-> "off", venue |-> "cached"]}
NoFallbacks == {<<>>}

\* A fallback without a key after one with a key: it inherits that one's key.
KeylessLast == {<<Fallback("f", "kf", 1), Fallback("g", "none", 2)>>}
=============================================================================
