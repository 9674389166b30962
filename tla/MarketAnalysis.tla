--------------------------- MODULE MarketAnalysis ---------------------------
(***************************************************************************)
(* What the decision engine is told about the market: the indicators of    *)
(* technical_indicators.py, the pressure of market_pressure.py and the     *)
(* TechnicalContext that trading_pipeline_service.build_context puts them  *)
(* into.  A candle holds whole ticks; everything computed from it is in    *)
(* Unit-ths of a tick, rounded as floats are: to the nearest, a tie to the *)
(* even one.  An instance picks Unit so that its divisions are exact (a    *)
(* mean over 2 candles, a factor 2/3, ...).                                *)
(***************************************************************************)
EXTENDS Integers, Sequences, SequencesExt

CONSTANTS
  Unit,                  \* fixed-point units of a tick, and of a ratio
  FastPeriod,            \* 20 in calculate_indicators
  SlowPeriod,            \* 50
  RsiPeriod,             \* 14
  AtrPeriod,             \* 14
  MacdPeriods,           \* <<12, 26, 9>>: fast, slow, signal
  MinimumCandles,        \* 50: fewer are refused
  Lookback               \* 20: the candles market pressure looks at

\* With the minimum of candles every indicator has a value, so no field of
\* the context is None: true of 50 candles and the periods of the code.  A
\* quarter, the least weight of a volume, is not rounded to nothing.
ASSUME PeriodAssumption ==
  /\ Unit \in Nat /\ Unit >= 4
  /\ \A n \in {FastPeriod, SlowPeriod, RsiPeriod, AtrPeriod, MinimumCandles} : n \in Nat \ {0}
  /\ Lookback \in 2..MinimumCandles
  /\ MacdPeriods \in [1..3 -> Nat \ {0}] /\ MacdPeriods[1] < MacdPeriods[2]
  /\ \A n \in {FastPeriod, SlowPeriod, RsiPeriod + 1, AtrPeriod,
               MacdPeriods[2] + MacdPeriods[3] - 1} : n <= MinimumCandles

Abs(x) == IF x < 0 THEN -x ELSE x
Larger(x, y) == IF x > y THEN x ELSE y
Smaller(x, y) == IF x < y THEN x ELSE y
Clamp(x, low, high) == Larger(low, Smaller(high, x))

\* The nearest integer to a / b, of two the even one: round() of Python, and
\* how a float keeps a quotient.
Rounded(a, b) ==
  LET q == a \div b
      r == 2 * (a % b)
  IN  IF r > b \/ (r = b /\ q % 2 = 1) THEN q + 1 ELSE q

\* The mean of what s has at the places in S.
Mean(s, S) == Rounded(SumFunctionOnSet(s, S), Cardinality(S))

Scaled(s) == [i \in DOMAIN s |-> s[i] * Unit]
Closes(candles) == Scaled([i \in DOMAIN candles |-> candles[i].close])

\* The fields of a candle that calculate_indicators checks.
ValidCandle(c) ==
  /\ c.low <= c.high
  /\ c.open \in c.low..c.high
  /\ c.close \in c.low..c.high

-----------------------------------------------------------------------------
(* technical_indicators.py                                                 *)

\* Begins with the mean of the first period values.
Ema(values, period) ==
  LET f[i \in 1..(Len(values) - period + 1)] ==
        IF i = 1 THEN Mean(values, 1..period)
        ELSE LET before == f[i - 1]
             IN  before + Rounded(2 * (values[period + i - 1] - before), period + 1)
  IN  f

\* Wilder's smoothing: the mean of the first period values, then each later
\* one for 1/period of the average.
Smoothed(values, period) ==
  LET f[i \in 1..(Len(values) - period + 1)] ==
        IF i = 1 THEN Mean(values, 1..period)
        ELSE Rounded(f[i - 1] * (period - 1) + values[period + i - 1], period)
  IN  Last(f)

Rsi(closes) ==
  LET change == [i \in 1..(Len(closes) - 1) |-> closes[i + 1] - closes[i]]
      gain == Smoothed([i \in DOMAIN change |-> Larger(change[i], 0)], RsiPeriod)
      loss == Smoothed([i \in DOMAIN change |-> Larger(-change[i], 0)], RsiPeriod)
  IN  IF loss = 0
        THEN IF gain = 0 THEN 50 * Unit ELSE 100 * Unit
        ELSE Rounded(100 * Unit * gain, gain + loss)

TrueRange(candles, i) ==
  LET c == candles[i]
      before == candles[i - 1].close
  IN  IF i = 1 THEN c.high - c.low
      ELSE Larger(c.high - c.low,
                  Larger(Abs(c.high - before), Abs(c.low - before)))

Atr(candles) ==
  Smoothed(Scaled([i \in DOMAIN candles |-> TrueRange(candles, i)]), AtrPeriod)

Macd(closes) ==
  LET slow == Ema(closes, MacdPeriods[2])
      fast == Ema(closes, MacdPeriods[1])
      line == [i \in DOMAIN slow |-> fast[i + MacdPeriods[2] - MacdPeriods[1]] - slow[i]]
  IN  [line |-> Last(line), signal |-> Last(Ema(line, MacdPeriods[3]))]

Sign(x, y) == IF x > y THEN 1 ELSE IF x < y THEN -1 ELSE 0

\* Mutant of RsiVote: an overbought market still counts as bullish.
EagerRsiVote(rsi) ==
  CASE rsi > 50 * Unit -> [points |-> 1, score |-> 8]
    [] 30 * Unit < rsi /\ rsi < 50 * Unit -> [points |-> -1, score |-> -8]
    [] rsi <= 30 * Unit -> [points |-> 0, score |-> 3]
    [] OTHER -> [points |-> 0, score |-> 0]

\* What RSI adds: an exhausted market weighs a little against its move.
RsiVote(rsi) ==
  CASE 50 * Unit < rsi /\ rsi < 70 * Unit -> [points |-> 1, score |-> 8]
    [] 30 * Unit < rsi /\ rsi < 50 * Unit -> [points |-> -1, score |-> -8]
    [] rsi >= 70 * Unit -> [points |-> 0, score |-> -3]
    [] rsi <= 30 * Unit -> [points |-> 0, score |-> 3]
    [] OTHER -> [points |-> 0, score |-> 0]

DetermineTrend(close, ema20, ema50, rsi, macd) ==
  LET price == Sign(close, ema20)
      order == Sign(ema20, ema50)
      momentum == Sign(macd.line, macd.signal)
      vote == RsiVote(rsi)
      votes == <<price, 2 * order, vote.points, momentum>>
      bullish == SumFunction([i \in 1..4 |-> Larger(votes[i], 0)])
      bearish == SumFunction([i \in 1..4 |-> Larger(-votes[i], 0)])
      score == Clamp(50 + 8 * price + 12 * order + vote.score + 8 * momentum, 0, 100)
      trend == CASE bullish >= 3 /\ bullish > bearish -> "Bullish"
                 [] bearish >= 3 /\ bearish > bullish -> "Bearish"
                 [] OTHER -> "Neutral"
  IN  [trend |-> trend, score |-> score,
       signal |-> CASE trend = "Bullish" /\ score >= 65 -> "BUY"
                    [] trend = "Bearish" /\ score <= 35 -> "SELL"
                    [] OTHER -> "WAIT"]

-----------------------------------------------------------------------------
(* market_pressure.py                                                      *)

NoPressure == [available |-> FALSE, score |-> 0, label |-> "UNAVAILABLE"]

\* Where the close lies between low (-Unit) and high (Unit).
CandlePressure(c) ==
  IF c.high = c.low THEN 0
  ELSE Clamp(Rounded(Unit * (2 * c.close - c.low - c.high), c.high - c.low), -Unit, Unit)

PressureLabel(score) ==
  CASE score >= 25 -> "BUY_PRESSURE"
    [] score <= -25 -> "SELL_PRESSURE"
    [] OTHER -> "NEUTRAL"

\* The mean of the recent candles' pressures, weighted by how their volume
\* compares with the earlier positive ones: a quarter at least, three times
\* at most.  A negative volume is an error, which build_context takes for
\* no pressure.
MarketPressure(candles) ==
  LET recent == SubSeq(candles, Len(candles) - Lookback + 1, Len(candles))
      volumes == [i \in DOMAIN recent |-> recent[i].volume]
      earlier == {i \in 1..(Lookback - 1) : volumes[i] > 0}
      average == IF earlier = {} THEN Unit * Last(volumes) ELSE Mean(Scaled(volumes), earlier)
      weight == [i \in DOMAIN recent |->
                   IF volumes[i] = 0 THEN 0
                   ELSE Clamp(Rounded(volumes[i] * Unit * Unit, average),
                              Unit \div 4, 3 * Unit)]
      weighted == SumFunction([i \in DOMAIN recent |->
                                 IF volumes[i] = 0 THEN 0
                                 ELSE CandlePressure(recent[i]) * weight[i]])
      score == Clamp(Rounded(100 * weighted, Unit * SumFunction(weight)), -100, 100)
  IN  IF \/ \A i \in DOMAIN recent : volumes[i] = 0
         \/ \E i \in DOMAIN recent : volumes[i] < 0
        THEN NoPressure
        ELSE [available |-> TRUE, score |-> score, label |-> PressureLabel(score)]

-----------------------------------------------------------------------------
(* trading_pipeline_service.py: build_context, indicator_to_context        *)

Context(candles) ==
  LET closes == Closes(candles)
      close == Last(closes)
      ema20 == Last(Ema(closes, FastPeriod))
      ema50 == Last(Ema(closes, SlowPeriod))
      rsi == Rsi(closes)
      macd == Macd(closes)
      assessment == DetermineTrend(close, ema20, ema50, rsi, macd)
  IN  [close |-> close, ema20 |-> ema20, ema50 |-> ema50, rsi14 |-> rsi,
       atr14 |-> Atr(candles), macd |-> macd.line, macdSignal |-> macd.signal,
       trend |-> assessment.trend, score |-> assessment.score,
       signal |-> assessment.signal, pressure |-> MarketPressure(candles)]

\* The candles the pipeline can work on: enough of them, each consistent.
Usable(candles) ==
  /\ Len(candles) >= MinimumCandles
  /\ \A i \in DOMAIN candles : ValidCandle(candles[i])

=============================================================================
