----------------------------- MODULE V5Signals -----------------------------
(***************************************************************************)
(* scripts/v5_strategy_engine.py: the regime of a candle and what six      *)
(* families of strategies make of it.  Research that generates candidates; *)
(* the execution engine (V5Engine) has rules of its own.                   *)
(***************************************************************************)
EXTENDS CandleSeries

-----------------------------------------------------------------------------
(* calculate_indicators and detect_regime                                  *)

\* Mutant of RangeLow: without the shift, the candle itself is in its range.
LateRangeLow(h) == Min(Newest(Lows(h), LiquidityLookback))

RangeHigh(h) == PreviousHigh(h, LiquidityLookback)
RangeLow(h) == PreviousLow(h, LiquidityLookback)

\* Every column exists; a missing RSI fails each comparison it is in.
HasColumns(h) == HasAtrRatio(h) /\ Len(h) > LiquidityLookback

\* Points for the order of the averages, the close and the momentum.
TrendPoints(h, sign) ==
  LET close == Last(h).close * Scale
  IN  Points(sign * (Ema(h, EmaFast) - Ema(h, EmaSlow)) > 0, 1)
      + Points(sign * (close - Ema(h, EmaFast)) > 0, 1)
      + Points(sign * Momentum(h) > 0, 1)

\* In the order the code asks.
Regime(h) ==
  CASE ~HasColumns(h) -> "TRANSITION"
    [] HasColumns(h) /\ TrendPoints(h, 1) = 3 /\ AtrRatioAtLeast(h, 85) -> "BULL_TREND"
    [] HasColumns(h) /\ TrendPoints(h, -1) = 3 /\ AtrRatioAtLeast(h, 85) -> "BEAR_TREND"
    [] OTHER ->
         IF ~AtrRatioAtLeast(h, 70) THEN "VOLATILITY_COMPRESSION"
         ELSE IF ~AtrRatioAtMost(h, 150) THEN "VOLATILITY_EXPANSION"
         ELSE IF AtrPeriod * (RangeHigh(h) - RangeLow(h)) < 6 * AtrSum(h, Len(h)) THEN "RANGE"
         ELSE "TRANSITION"

-----------------------------------------------------------------------------
(* The families.  Each gives the set of its signals, [direction, score].   *)

Rsi(h, low, high) == HasRsi(h) /\ RsiWithin(h, low, high)

Signal(condition, direction, score) ==
  IF condition THEN {[direction |-> direction, score |-> score]} ELSE {}

\* body_ratio is 0, and close_location a half, of a candle without a range.
BodyAtLeast(c, percent) ==
  c.high > c.low /\ 100 * Max({c.close - c.open, c.open - c.close}) >= percent * (c.high - c.low)

LocationAtLeast(c, percent) == CloseAtLeast(c, percent) /\ (c.high > c.low \/ percent <= 50)
LocationAtMost(c, percent) == CloseAtMost(c, percent) /\ (c.high > c.low \/ percent >= 50)

Above(h, span) == Last(h).close * Scale > Ema(h, span)
Below(h, span) == Last(h).close * Scale < Ema(h, span)

TrendContinuation(h, regime) ==
  Signal(/\ regime = "BULL_TREND" /\ Above(h, EmaFast) /\ Ema(h, EmaFast) > Ema(h, EmaSlow)
         /\ Rsi(h, 52, 72) /\ Momentum(h) > 0,
         "BUY", 70 + Points(LocationAtLeast(Last(h), 65), 10))
  \cup
  Signal(/\ regime = "BEAR_TREND" /\ Below(h, EmaFast) /\ Ema(h, EmaFast) < Ema(h, EmaSlow)
         /\ Rsi(h, 28, 48) /\ Momentum(h) < 0,
         "SELL", 70 + Points(LocationAtMost(Last(h), 35), 10))

PullbackRetest(h, regime) ==
  Signal(/\ regime = "BULL_TREND" /\ Last(h).low * Scale <= Ema(h, EmaFast)
         /\ Above(h, EmaFast) /\ Above(h, EmaSlow) /\ Rsi(h, 50, 100),
         "BUY", 75 + Points(LocationAtLeast(Last(h), 65), 10))
  \cup
  Signal(/\ regime = "BEAR_TREND" /\ Last(h).high * Scale >= Ema(h, EmaFast)
         /\ Below(h, EmaFast) /\ Below(h, EmaSlow) /\ Rsi(h, 0, 50),
         "SELL", 75 + Points(LocationAtMost(Last(h), 35), 10))

Breakout(h, regime) ==
  Signal(/\ HasColumns(h) /\ Last(h).close > RangeHigh(h) /\ BodyAtLeast(Last(h), 50)
         /\ LocationAtLeast(Last(h), 70) /\ AtrRatioAtLeast(h, 100),
         "BUY", 75 + Points(regime \in {"BULL_TREND", "VOLATILITY_EXPANSION"}, 10))
  \cup
  Signal(/\ HasColumns(h) /\ Last(h).close < RangeLow(h) /\ BodyAtLeast(Last(h), 50)
         /\ LocationAtMost(Last(h), 30) /\ AtrRatioAtLeast(h, 100),
         "SELL", 75 + Points(regime \in {"BEAR_TREND", "VOLATILITY_EXPANSION"}, 10))

LiquidityReversal(h, regime) ==
  Signal(/\ HasColumns(h) /\ Last(h).low < RangeLow(h) /\ Last(h).close > RangeLow(h)
         /\ LocationAtLeast(Last(h), 65),
         "BUY", 70 + Points(Rsi(h, 0, 45), 10))
  \cup
  Signal(/\ HasColumns(h) /\ Last(h).high > RangeHigh(h) /\ Last(h).close < RangeHigh(h)
         /\ LocationAtMost(Last(h), 35),
         "SELL", 70 + Points(Rsi(h, 55, 100), 10))

\* Within three quarters of an ATR of the range's end.
RangeMeanReversion(h, regime) ==
  LET near == 3 * AtrSum(h, Len(h))
      scale == 4 * AtrPeriod
  IN  Signal(/\ regime = "RANGE" /\ scale * (Last(h).close - RangeLow(h)) <= near
             /\ Rsi(h, 0, 35) /\ LocationAtLeast(Last(h), 45), "BUY", 75)
      \cup
      Signal(/\ regime = "RANGE" /\ scale * (RangeHigh(h) - Last(h).close) <= near
             /\ Rsi(h, 65, 100) /\ LocationAtMost(Last(h), 55), "SELL", 75)

MomentumExpansion(h, regime) ==
  Signal(/\ regime = "VOLATILITY_EXPANSION" /\ Last(h).close > Last(h).open
         /\ BodyAtLeast(Last(h), 60) /\ LocationAtLeast(Last(h), 75)
         /\ Rsi(h, 58, 100) /\ Momentum(h) > 0, "BUY", 80)
  \cup
  Signal(/\ regime = "VOLATILITY_EXPANSION" /\ Last(h).close < Last(h).open
         /\ BodyAtLeast(Last(h), 60) /\ LocationAtMost(Last(h), 25)
         /\ Rsi(h, 0, 42) /\ Momentum(h) < 0, "SELL", 80)

-----------------------------------------------------------------------------
(* evaluate_row                                                            *)

\* The signals of a candle, by the family that gives them.
EvaluateRow(h) ==
  LET regime == Regime(h)
  IN  [trend |-> TrendContinuation(h, regime), pullback |-> PullbackRetest(h, regime),
       breakout |-> Breakout(h, regime), reversal |-> LiquidityReversal(h, regime),
       range |-> RangeMeanReversion(h, regime), momentum |-> MomentumExpansion(h, regime)]

Families == {"trend", "pullback", "breakout", "reversal", "range", "momentum"}

=============================================================================
