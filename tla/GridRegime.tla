----------------------------- MODULE GridRegime -----------------------------
(***************************************************************************)
(* The regime of a grid trader (src/trader/grid_regime.go and              *)
(* auto_trader_grid_regime.go): boxes over the last candles                *)
(* (src/market/data_indicators.go), a breakout of the price from a box and *)
(* its confirmation, what a confirmed breakout does, and the recovery from *)
(* it.  A regime is a record; the operators say how one check changes it.  *)
(*                                                                         *)
(* A box is given by its candles: the price is above it when it is above   *)
(* the highest high, that is above every high.                             *)
(***************************************************************************)
EXTENDS Integers, Sequences

CONSTANTS
  Histories,           \* candle sequences the exchange may serve, newest last
  ShortBox, MidBox, LongBox, \* candles of each box
  ConfirmRequired,     \* BreakoutConfirmRequired
  DirectionAdjust,     \* EnableDirectionAdjust
  N,                   \* GridCount
  BuyLevels            \* levels that buy under a long and a short bias

ASSUME CandlesAssumption ==
  /\ Histories \subseteq Seq([low : Int, high : Int, close : Int])
  /\ \A h \in Histories :
       /\ h # <<>>
       /\ \A i \in DOMAIN h : h[i].low <= h[i].close /\ h[i].close <= h[i].high

ASSUME RegimeAssumption ==
  /\ {ShortBox, MidBox, LongBox, ConfirmRequired, N} \subseteq Nat \ {0}
  /\ DirectionAdjust \in BOOLEAN
  /\ BuyLevels \in [{"long_bias", "short_bias"} -> 0 .. N]

Directions == {"neutral", "long", "long_bias", "short", "short_bias"}

\* reduced stands for PositionReductionPct = 50.
Regime == [paused : BOOLEAN, level : {"unset", "none", "short", "mid", "long"},
           way : {"none", "up", "down"}, count : Nat, reduced : BOOLEAN, direction : Directions]

NewRegime == [paused |-> FALSE, level |-> "unset", way |-> "none", count |-> 0,
              reduced |-> FALSE, direction |-> "neutral"]

-----------------------------------------------------------------------------
(* The boxes *)

\* Mutant: the forming candle is left out of the box.
ClosedCandles(h, n) == {i \in DOMAIN h : Len(h) - 1 - n < i /\ i < Len(h)}

\* The candles of calculateDonchian, the newest one included.
Channel(h, n) == {i \in DOMAIN h : Len(h) - n < i}

\* GetBoxData: the price is the close of the newest candle.
Price(h) == h[Len(h)].close

Above(h, n) == \A i \in Channel(h, n) : h[i].high < Price(h)
Below(h, n) == \A i \in Channel(h, n) : Price(h) < h[i].low
Inside(h, n) == ~Above(h, n) /\ ~Below(h, n)

\* detectBoxBreakout: the longest box comes first.
Breakout(h) ==
  LET Way(n) == IF Above(h, n) THEN "up" ELSE "down"
  IN IF ~Inside(h, LongBox) THEN [level |-> "long", way |-> Way(LongBox)]
     ELSE IF ~Inside(h, MidBox) THEN [level |-> "mid", way |-> Way(MidBox)]
     ELSE IF ~Inside(h, ShortBox) THEN [level |-> "short", way |-> Way(ShortBox)]
     ELSE [level |-> "none", way |-> "none"]

-----------------------------------------------------------------------------
(* The check of a breakout *)

\* confirmBreakout
Observed(r, b) ==
  [r EXCEPT !.level = b.level, !.way = b.way,
            !.count = IF b.level = "none" THEN 0
                      ELSE IF r.level = b.level /\ r.way = b.way THEN @ + 1 ELSE 1]

Confirmed(r) == r.level # "none" /\ r.count >= ConfirmRequired

\* getBreakoutActionWithDirection
BreakoutAction(level) ==
  IF level = "long" THEN "close"
  ELSE IF DirectionAdjust THEN "direction"
  ELSE IF level = "mid" THEN "pause" ELSE "reduce"

\* determineGridDirection
BreakoutDirection(b) ==
  IF b.level = "short" THEN IF b.way = "up" THEN "long_bias" ELSE "short_bias"
  ELSE IF b.way = "up" THEN "long" ELSE "short"

\* checkBoxBreakout: the regime after it, and the stages that carry it out.
Checked(r, h) ==
  LET b == Breakout(h)
      o == Observed(r, b)
      action == BreakoutAction(b.level)
  IN IF ~Confirmed(o) THEN o
     ELSE IF action = "reduce" THEN [o EXCEPT !.reduced = TRUE]
     ELSE IF action = "direction" THEN [o EXCEPT !.direction = BreakoutDirection(b)]
     ELSE [o EXCEPT !.paused = TRUE]

Sequel(r, h) ==
  LET o == Observed(r, Breakout(h))
      action == BreakoutAction(o.level)
  IN IF ~Confirmed(o) \/ action = "reduce" THEN <<>>
     ELSE IF action = "pause" THEN <<"cancel">>
     ELSE IF action = "close" THEN <<"cancel", "close">>
     ELSE IF Checked(r, h).direction = r.direction THEN <<>>
     ELSE <<"cancel", "redirect">>

-----------------------------------------------------------------------------
(* The recovery *)

NeedsRecovery(r) ==
  \/ r.level # "none" \/ r.reduced \/ r.paused
  \/ DirectionAdjust /\ r.direction # "neutral"

\* determineRecoveryDirection: one step toward neutral.
Toward(d) ==
  IF d = "long" THEN "long_bias" ELSE IF d = "short" THEN "short_bias" ELSE "neutral"

\* checkFalseBreakoutRecovery: back inside the long box everything is lifted.
Recovered(r, h) ==
  LET back == IF Inside(h, LongBox)
                THEN [r EXCEPT !.level = "none", !.way = "none", !.count = 0,
                               !.reduced = TRUE, !.paused = FALSE]
                ELSE r
  IN IF DirectionAdjust /\ Inside(h, ShortBox)
       THEN [back EXCEPT !.direction = Toward(@)]
       ELSE back

-----------------------------------------------------------------------------
\* applyGridDirection: the side of each level, when k levels are at or below the price.
Sides(d, k) ==
  [i \in 1 .. N |->
     IF \/ d = "long"
        \/ d = "neutral" /\ i <= k
        \/ d = "long_bias" /\ i <= BuyLevels[d]
        \/ d = "short_bias" /\ (\/ i <= k /\ i <= BuyLevels[d]
                                \/ i > k /\ i > k + N - BuyLevels[d])
       THEN "buy" ELSE "sell"]
=============================================================================
