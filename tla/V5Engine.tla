------------------------------ MODULE V5Engine ------------------------------
(***************************************************************************)
(* scripts/v5_execution_engine.py: the backtest of one family of           *)
(* strategies in one regime.  It enters at the close of the candle that    *)
(* signals, moves the stop and the target while it holds, and pauses for   *)
(* the rest of a week that has lost too much.                              *)
(***************************************************************************)
EXTENDS Simulation

CONSTANTS
  FirstBar,                     \* candles before the loop starts
  LongAtrPeriod,                \* atr50
  MinimumScore, RiskPercent, RiskReward2, AtrStop10, MaxTradesPerWeek,
  WeeklyLossLimit,
  BreakEven10, BreakEvenLock10, TrailingStart10, TrailingDistance10,
                                \* tenths of R
  TpExtension,                  \* allow_tp_extension
  MinVolume, MaxVolume

ValidRun ==
  /\ FirstBar \in Nat /\ FirstBar >= LiquidityLookback
  /\ FirstBar >= LongAtrPeriod /\ FirstBar >= RsiPeriod /\ FirstBar >= AtrPeriod
  /\ RiskPercent \in 1..100 /\ RiskReward2 \in Nat /\ AtrStop10 \in Nat
  /\ MinVolume \in Nat \ {0} /\ MaxVolume \in Nat
  /\ {BreakEven10, BreakEvenLock10, TrailingStart10, TrailingDistance10} \subseteq Nat

CooldownBars == 1

-----------------------------------------------------------------------------
(* calculate_indicators and detect_regime                                  *)

LongAtrSum(h) == RollingSum(TrueRange(h), LongAtrPeriod)

\* ATR to long ATR, in percent, compared with a bound.
AtrAbove(h, percent) ==
  100 * LongAtrPeriod * AtrSum(h, Len(h)) > percent * AtrPeriod * LongAtrSum(h)
AtrBelow(h, percent) ==
  100 * LongAtrPeriod * AtrSum(h, Len(h)) < percent * AtrPeriod * LongAtrSum(h)

\* A thousandth of the close.
Distance(h) ==
  LET d == Ema(h, EmaFast) - Ema(h, EmaSlow) IN IF d < 0 THEN -d ELSE d
Thousandth(h) == Last(h).close * (Scale \div 1000)

DetectRegime(h) ==
  LET fast == Ema(h, EmaFast)  slow == Ema(h, EmaSlow)  close == Last(h).close * Scale
  IN  IF Len(h) < LongAtrPeriod THEN "TRANSITION"
      ELSE IF AtrBelow(h, 70) THEN "VOLATILITY_COMPRESSION"
      ELSE IF AtrAbove(h, 150) THEN "VOLATILITY_EXPANSION"
      ELSE IF fast > slow /\ close > slow /\ Distance(h) > Thousandth(h) THEN "BULL_TREND"
      ELSE IF fast < slow /\ close < slow /\ Distance(h) > Thousandth(h) THEN "BEAR_TREND"
      ELSE IF Distance(h) < Thousandth(h) THEN "RANGE"
      ELSE "TRANSITION"

\* The RSI of simple averages.
GainSum(h) == RollingSum(Gains(Closes(h)), RsiPeriod)
LossSum(h) == RollingSum(Losses(Closes(h)), RsiPeriod)
RollingRsi(h, low, high) == RsiBetween(GainSum(h), LossSum(h), low, high)

-----------------------------------------------------------------------------
(* generate_signal                                                         *)

\* What a family scores, seen from one direction: sign is 1 for BUY.  Prices
\* and averages are compared in that direction; an RSI r of the BUY is 100 - r
\* of the SELL.
RsiIn(h, sign, low, high) ==
  IF sign = 1 THEN RollingRsi(h, low, high) ELSE RollingRsi(h, 100 - high, 100 - low)

\* Strictly above (below, for the SELL).
RsiOver(h, sign, bound) == ~RsiIn(h, sign, 0, bound)

Ahead(h, sign, span) == sign * (Last(h).close * Scale - Ema(h, span))
MacdAhead(h, sign) == sign * Momentum(h)

TrendRegime(sign) == IF sign = 1 THEN "BULL_TREND" ELSE "BEAR_TREND"

\* The end of the range the direction breaks through, and the one it turns at.
Front20(h, sign) ==
  IF sign = 1 THEN PreviousHigh(h, LiquidityLookback) ELSE PreviousLow(h, LiquidityLookback)
Back20(h, sign) == Front20(h, -sign)
Reach(h, sign) == IF sign = 1 THEN Last(h).low ELSE Last(h).high

ContinuationScore(h, sign, regime) ==
  IF regime # TrendRegime(sign) THEN 0
  ELSE 30 + Points(Ahead(h, sign, EmaFast) > 0, 20) + Points(MacdAhead(h, sign) > 0, 20)
       + Points(RsiIn(h, sign, 52, 72), 20)

PullbackScore(h, sign, regime) ==
  IF regime # TrendRegime(sign) THEN 0
  ELSE Points(Ahead(h, sign, EmaSlow) > 0, 25) + Points(Ahead(h, sign, EmaFast) >= 0, 25)
       + Points(MacdAhead(h, sign) >= 0, 20) + Points(RsiIn(h, sign, 45, 65), 20)

BreakoutScore(h, sign) ==
  IF sign * (Last(h).close - Front20(h, sign)) <= 0 THEN 0
  ELSE 50 + Points(MacdAhead(h, sign) > 0, 20) + Points(RsiOver(h, sign, 55), 20)

Swept(h, sign) ==
  /\ sign * (Reach(h, sign) - Back20(h, sign)) < 0
  /\ sign * (Last(h).close - Back20(h, sign)) > 0

\* The BUY is asked first.
ReversalScore(h, sign) ==
  IF ~Swept(h, sign) \/ (sign = -1 /\ Swept(h, 1)) THEN 0
  ELSE 55 + Points(RsiOver(h, -sign, 55), 20) + Points(MacdAhead(h, sign) > 0, 15)

AtEdge(h, sign) ==
  /\ 1000 * sign * (Last(h).close - Back20(h, sign)) <= Back20(h, sign)
  /\ RsiOver(h, -sign, 60)

RangeScore(h, sign, regime) ==
  IF regime # "RANGE" \/ ~AtEdge(h, sign) \/ (sign = -1 /\ AtEdge(h, 1)) THEN 0
  ELSE 70 + Points(MacdAhead(h, sign) > 0, 20)

ExpansionScore(h, sign, regime) ==
  Points(/\ regime = "VOLATILITY_EXPANSION" /\ Ahead(h, sign, EmaFast) > 0
         /\ sign * (Ema(h, EmaFast) - Ema(h, EmaSlow)) > 0
         /\ MacdAhead(h, sign) > 0 /\ RsiOver(h, sign, 55), 90)

FamilyScore(h, sign, run) ==
  CASE run.family = "TREND_CONTINUATION" -> ContinuationScore(h, sign, run.regime)
    [] run.family = "PULLBACK_RETEST" -> PullbackScore(h, sign, run.regime)
    [] run.family = "BREAKOUT" -> BreakoutScore(h, sign)
    [] run.family = "LIQUIDITY_REVERSAL" -> ReversalScore(h, sign)
    [] run.family = "RANGE_MEAN_REVERSION" -> RangeScore(h, sign, run.regime)
    [] run.family = "MOMENTUM_EXPANSION" -> ExpansionScore(h, sign, run.regime)

\* No losses within the RSI's window, and there is no RSI and no signal.
HasValues(h) == Len(h) > RsiPeriod /\ LossSum(h) > 0

GenerateSignal(h, run) ==
  CASE DetectRegime(h) # run.regime \/ ~HasValues(h) -> "WAIT"
    [] DetectRegime(h) = run.regime /\ HasValues(h)
       /\ FamilyScore(h, 1, run) >= MinimumScore -> "BUY"
    [] DetectRegime(h) = run.regime /\ HasValues(h)
       /\ FamilyScore(h, 1, run) < MinimumScore /\ FamilyScore(h, -1, run) >= MinimumScore -> "SELL"
    [] OTHER -> "WAIT"

-----------------------------------------------------------------------------
(* Size, entry, management and exit                                        *)

\* round_lots: into the limits first, so that the smallest lot is traded
\* however little may be risked.
RoundLots(lots) == Min({Max({lots, MinVolume}), MaxVolume})

LotSize(money, distance) ==
  IF money <= 0 \/ distance <= 0 THEN 0
  ELSE RoundLots((money * RiskPercent) \div (100 * distance))

Entry(direction, h, money) ==
  LET entry == WithEntryCost(direction, Last(h).close)
      distance == (AtrSum(h, Len(h)) * AtrStop10) \div (10 * AtrPeriod)
      lots == LotSize(money, distance)
  IN  IF distance <= 0 \/ lots < MinVolume THEN None
      ELSE [direction |-> direction, entry |-> entry,
            stop |-> entry - Toward(direction) * distance,
            target |-> entry + Toward(direction) * ((distance * RiskReward2) \div 2),
            volume |-> lots, risk |-> distance, amount |-> distance * lots,
            opened |-> Len(h), even |-> FALSE, extended |-> FALSE]

Tenths(p, tenths) == Toward(p.direction) * ((p.risk * tenths) \div 10)

\* The best price of the candle for the position.
Best(p, c) == IF p.direction = "BUY" THEN c.high ELSE c.low

Reached(p, c, tenths) ==
  Toward(p.direction) * (Best(p, c) - (p.entry + Tenths(p, tenths))) >= 0

Tighter(p, stop) == IF p.direction = "BUY" THEN Max({p.stop, stop}) ELSE Min({p.stop, stop})

ToBreakEven(p, c) ==
  IF p.even \/ ~Reached(p, c, BreakEven10) THEN p
  ELSE [p EXCEPT !.stop = Tighter(p, p.entry + Tenths(p, BreakEvenLock10)), !.even = TRUE]

Extended(p, c) ==
  IF ~TpExtension \/ p.extended \/ ~Reached(p, c, 20) THEN p
  ELSE [p EXCEPT !.target = p.entry + Tenths(p, Max({5 * RiskReward2, 30})), !.extended = TRUE]

\* Mutant of Trailed: the trailing stop is set, whatever the stop was.
AlwaysTrailed(p, c) ==
  IF ~Reached(p, c, TrailingStart10) THEN p
  ELSE [p EXCEPT !.stop = Best(p, c) - Tenths(p, TrailingDistance10)]

Trailed(p, c) ==
  IF ~Reached(p, c, TrailingStart10) THEN p
  ELSE [p EXCEPT !.stop = Tighter(p, Best(p, c) - Tenths(p, TrailingDistance10))]

UpdatePosition(p, c) == Trailed(Extended(ToBreakEven(p, c), c), c)

ExitPrices(p, c) ==
  LET sign == Toward(p.direction)
      worst == IF p.direction = "BUY" THEN c.low ELSE c.high
  IN  IF sign * (worst - p.stop) <= 0 THEN {p.stop}
      ELSE IF sign * (Best(p, c) - p.target) >= 0 THEN {p.target} ELSE {}

TradeOf(p, raw) ==
  LET exit == WithExitCost(p.direction, raw)
  IN  [direction |-> p.direction, opened |-> p.opened, closed |-> Len(candles),
       entry |-> p.entry, exit |-> exit, stop |-> p.stop, target |-> p.target,
       volume |-> p.volume, amount |-> p.amount,
       pnl |-> Pnl(p.direction, p.entry, exit, p.volume)]

-----------------------------------------------------------------------------
(* run_backtest                                                            *)

Week == Last(periods)

\* The week is begun by its first candle within the loop.
V5Candle ==
  /\ phase = "next" /\ ~AtEnd
  /\ \E move \in MovesOf(Len(candles) + 1) :
       candles' = Append(candles, NextBar(Bar.close, move))
  /\ phase' = IF Len(candles) < FirstBar THEN "next" ELSE "exit"
  /\ IF /\ Len(candles) >= FirstBar
        /\ periods = <<>> \/ PeriodOf(Len(candles)) # PeriodOf(Len(candles) + 1)
     THEN periods' = Append(periods, [start |-> balance, trades |-> 0])
     ELSE UNCHANGED periods
  /\ UNCHANGED <<balance, position, trades, pending, curve>>

\* equity, its peak and the drawdown, of what the account is after the exit.
Marked(money, p, c) ==
  LET equity == IF p = None THEN money ELSE money + Pnl(p.direction, p.entry, c.close, p.volume)
  IN  /\ peak' = Max({peak, equity})
      /\ drawdown' = Max({drawdown, Max({peak, equity}) - equity})

V5Exit ==
  /\ phase = "exit" /\ position # None
  /\ \E raw \in ExitPrices(position, Bar) :
       /\ balance' = balance + TradeOf(position, raw).pnl
       /\ trades' = Append(trades, TradeOf(position, raw))
       /\ Marked(balance', None, Bar)
  /\ position' = None
  /\ phase' = "enter"
  /\ UNCHANGED <<candles, periods, pending>>

V5Update ==
  /\ phase = "exit"
  /\ position # None => ExitPrices(position, Bar) = {}
  /\ position' = IF position = None THEN None ELSE UpdatePosition(position, Bar)
  /\ Marked(balance, position, Bar)
  /\ phase' = "enter"
  /\ UNCHANGED <<candles, balance, periods, trades, pending>>

\* The week has not lost too much, nothing is held, the last entry is more
\* than the cooldown ago, and the week has trades left.
LastEntry == IF trades = <<>> THEN -(Bars + CooldownBars) ELSE Last(trades).opened

\* Mutant of MayEnter: no pause after a loss.
MayEnterAfterLoss ==
  position = None /\ Len(candles) - LastEntry > CooldownBars /\ Week.trades < MaxTradesPerWeek

MayEnter ==
  /\ Week.start > 0 => 100 * (balance - Week.start) > WeeklyLossLimit * Week.start
  /\ position = None
  /\ Len(candles) - LastEntry > CooldownBars
  /\ Week.trades < MaxTradesPerWeek

V5Enter ==
  /\ phase = "enter"
  /\ LET direction == GenerateSignal(candles, variant)
         opened == IF MayEnter /\ direction # "WAIT"
                   THEN Entry(direction, candles, balance) ELSE None
     IN  IF opened = None THEN UNCHANGED <<position, periods>>
         ELSE /\ position' = opened
              /\ periods' = [periods EXCEPT ![Len(periods)].trades = @ + 1]
  /\ phase' = "next"
  /\ UNCHANGED <<candles, balance, trades, pending, curve>>

\* The close at the end of the data adds no point to the equity curve.
V5Finish ==
  /\ phase = "next" /\ AtEnd
  /\ IF position = None THEN UNCHANGED <<balance, trades>>
     ELSE /\ balance' = balance + TradeOf(position, Bar.close).pnl
          /\ trades' = Append(trades, TradeOf(position, Bar.close))
  /\ position' = None
  /\ phase' = "done"
  /\ UNCHANGED <<candles, periods, pending, curve>>

V5Next == V5Candle \/ V5Exit \/ V5Update \/ V5Enter \/ V5Finish

=============================================================================
