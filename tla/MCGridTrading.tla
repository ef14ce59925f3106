--------------------------- MODULE MCGridTrading ---------------------------
(***************************************************************************)
(* Small instances of GridTrading: two levels, two orders, candles of two  *)
(* prices.                                                                 *)
(***************************************************************************)
EXTENDS GridTrading

Candles == {c \in [low : 1 .. 2, high : 1 .. 2, close : 1 .. 2] : c.low <= c.close /\ c.close <= c.high}

\* Two candles of one price or of both, the fewest a box can have.
TheHistories ==
  {<<c, d>> : c, d \in {e \in Candles : e.low = e.high \/ e.close = e.high}}
TheBuyLevels == [d \in {"long_bias", "short_bias"} |-> IF d = "long_bias" THEN 1 ELSE 0]

Venue(legs, signed, stale) == [legs |-> legs, signed |-> signed, stale |-> stale]
OneLeg == {Venue("one", TRUE, FALSE)}
TwoLegs == {Venue("two", TRUE, FALSE)}
OKX == {Venue("two", FALSE, TRUE)}
=============================================================================
