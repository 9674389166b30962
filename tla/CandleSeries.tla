---------------------------- MODULE CandleSeries ----------------------------
(***************************************************************************)
(* What the research scripts compute of a history of candles, a sequence   *)
(* of [open, high, low, close] with the newest candle last: pandas' ewm,   *)
(* rolling and shift.  Averages that are only compared are kept as sums,   *)
(* and exponential averages are in units of 1/Scale tick: with a Scale     *)
(* that the spans divide often enough, nothing is rounded.                 *)
(***************************************************************************)
EXTENDS Integers, Sequences, SequencesExt, FiniteSetsExt

CONSTANTS
  EmaFast, EmaSlow, MacdSpans,     \* spans of the exponential averages
  RsiPeriod, AtrPeriod,
  MedianPeriod,                    \* ATRs the ATR is compared with
  SwingLookback, LiquidityLookback,
  Scale, RsiScale

ASSUME PeriodAssumption ==
  /\ Scale \in Nat \ {0} /\ RsiScale \in Nat \ {0}
  /\ AtrPeriod \in Nat \ {0} /\ MedianPeriod \in Nat \ {0} /\ RsiPeriod \in Nat \ {0}
  /\ SwingLookback \in Nat \ {0} /\ LiquidityLookback \in Nat \ {0}
  /\ EmaFast \in Nat \ {0} /\ EmaSlow \in Nat \ {0} /\ MacdSpans \in [1..3 -> Nat \ {0}]

Closes(h) == [i \in DOMAIN h |-> h[i].close]
Highs(h) == [i \in DOMAIN h |-> h[i].high]
Lows(h) == [i \in DOMAIN h |-> h[i].low]

Scaled(s) == [i \in DOMAIN s |-> s[i] * Scale]

\* a / b, what is left of a tick dropped alike on both sides of zero: a float
\* is rounded by its size, not by its sign.
Quotient(a, b) == IF a < 0 THEN -((-a) \div b) ELSE a \div b

\* ewm(span, adjust=False).mean()
Ewm(s, span) ==
  LET f[i \in DOMAIN s] ==
        IF i = 1 THEN s[1]
        ELSE LET before == f[i - 1]
             IN  before + Quotient(2 * (s[i] - before), span + 1)
  IN  f

MacdLine(s, fast, slow) ==
  LET f == Ewm(s, fast)  g == Ewm(s, slow)
  IN  [i \in DOMAIN s |-> f[i] - g[i]]

MacdHistogram(s, fast, slow, signal) ==
  LET m == MacdLine(s, fast, slow)
  IN  Last(m) - Last(Ewm(m, signal))

\* The first candle has no previous close.
TrueRange(h) ==
  [i \in DOMAIN h |->
     IF i = 1 THEN h[i].high - h[i].low
     ELSE Max({h[i].high, h[i - 1].close}) - Min({h[i].low, h[i - 1].close})]

\* diff().clip(lower=0) and -diff().clip(upper=0), without the first.
Gains(s) == [i \in 1..(Len(s) - 1) |-> Max({s[i + 1] - s[i], 0})]
Losses(s) == [i \in 1..(Len(s) - 1) |-> Max({s[i] - s[i + 1], 0})]

Newest(s, n) == {s[i] : i \in (Len(s) - n + 1)..Len(s)}

\* rolling(n).sum(), defined from n values on.
RollingSum(s, n) == SumFunctionOnSet(s, (Len(s) - n + 1)..Len(s))

\* shift(1).rolling(n): the n values before the newest.
PreviousHigh(h, n) == Max(Newest(Highs(Front(h)), n))
PreviousLow(h, n) == Min(Newest(Lows(Front(h)), n))

Ema(h, span) == Last(Ewm(Scaled(Closes(h)), span))

Momentum(h) == MacdHistogram(Scaled(Closes(h)), MacdSpans[1], MacdSpans[2], MacdSpans[3])

\* Wilder's average, ewm(alpha=1/n), is the one of span 2n - 1; in units of
\* 1/RsiScale tick.
WilderAverage(s) ==
  Last(Ewm([i \in DOMAIN s |-> s[i] * RsiScale], 2 * RsiPeriod - 1))

\* low <= RSI <= high, of averages of the gains and the losses.
RsiBetween(gain, loss, low, high) ==
  low * (gain + loss) <= 100 * gain /\ 100 * gain <= high * (gain + loss)

\* The RSI divides by the average loss: no loss at all makes it missing.
HasRsi(h) == Len(h) > RsiPeriod /\ WilderAverage(Losses(Closes(h))) > 0

RsiWithin(h, low, high) ==
  RsiBetween(WilderAverage(Gains(Closes(h))), WilderAverage(Losses(Closes(h))), low, high)

\* Sum of the last AtrPeriod true ranges up to candle i: AtrPeriod times the
\* ATR.
AtrSum(h, i) == RollingSum(TrueRange(SubSeq(h, 1, i)), AtrPeriod)

Middle(s) == SortSeq(s, LAMBDA a, b : a < b)[(Len(s) + 1) \div 2]

\* The middle one of the last MedianPeriod sums.
MedianAtrSum(h) == Middle([k \in 1..MedianPeriod |-> AtrSum(h, Len(h) - k + 1)])

HasAtrRatio(h) == Len(h) >= AtrPeriod + MedianPeriod - 1

\* low <= 100 * ATR / median ATR.
AtrRatioAtLeast(h, low) == 100 * AtrSum(h, Len(h)) >= low * MedianAtrSum(h)
AtrRatioAtMost(h, high) == 100 * AtrSum(h, Len(h)) <= high * MedianAtrSum(h)

\* close_location, in percent of the range; a candle without one has no place.
CloseAtLeast(c, percent) == 100 * (c.close - c.low) >= percent * (c.high - c.low)
CloseAtMost(c, percent) == 100 * (c.close - c.low) <= percent * (c.high - c.low)

Points(condition, points) == IF condition THEN points ELSE 0

\* The history upside down, price about becoming 2 * about - price.
Mirrored(h, about) ==
  [i \in DOMAIN h |->
     [open |-> 2 * about - h[i].open, close |-> 2 * about - h[i].close,
      high |-> 2 * about - h[i].low, low |-> 2 * about - h[i].high]]

=============================================================================
