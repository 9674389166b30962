---------------------------- MODULE WeeklyGrowth ----------------------------
(***************************************************************************)
(* The weekly research strategies.                                         *)
(*                                                                         *)
(* V1, scripts/run_weekly_growth_backtest.py: score a candle, enter at the *)
(* open of the next one, leave at the stop or the target, within the       *)
(* limits of the week.                                                     *)
(*                                                                         *)
(* V3, scripts/run_weekly_growth_v3_research.py: the loop of V1, statement *)
(* for statement, over the helpers it imports from V1, with a profit       *)
(* protection of the open position added.                                  *)
(*                                                                         *)
(* V4, scripts/run_weekly_growth_v4_research.py: the scores of V1,         *)
(* computed for all candles at once, a confirmation of two lower           *)
(* timeframes, and a simulator that stores the signal as a tuple and reads *)
(* it as a dictionary: the first candle that finds a signal pending        *)
(* raises, and the run ends there.  What it would do with a position       *)
(* (lines 1256-1562 and 1596-1775) is not reached and not modelled.        *)
(*                                                                         *)
(* The main programs of V3 and V4, which select one candidate of a grid on *)
(* three separate periods, are PeriodSearch.                               *)
(***************************************************************************)
EXTENDS Simulation

CONSTANTS
  GroupBars,                 \* candles of the higher timeframe's candle
  MinAtrPercent, MaxAtrPercent,           \* of the median ATR
  MinSignalScore,
  RiskPercent, WeeklyTarget, WeeklyLossLimit,   \* percent
  MaxTradesPerWeek,
  RiskReward2,               \* twice the reward to risk ratio
  AtrStop10,                 \* ten times the ATR multiple of the stop
  MinVolume, MaxVolume,      \* in volume steps
  LowerFast, LowerSlow       \* spans of V4's lower timeframes' averages

\* validate_config
ValidConfig ==
  /\ StartBalance > 0 /\ RiskPercent \in 1..100
  /\ WeeklyTarget \in Nat \ {0} /\ WeeklyLossLimit \in Int /\ WeeklyLossLimit < 0
  /\ MaxTradesPerWeek \in Nat \ {0} /\ RiskReward2 \in Nat \ {0} /\ AtrStop10 \in Nat
  /\ MinVolume \in Nat \ {0} /\ MaxVolume \in Nat
  /\ MinSignalScore \in 0..100 /\ Cost >= 0

\* Constants of the scripts; pandas refuses an average over less than one candle.
ValidSpans ==
  GroupBars \in Nat \ {0} /\ LowerFast \in Nat \ {0} /\ LowerSlow \in Nat \ {0}

-----------------------------------------------------------------------------
(* Indicators and signal                                                   *)

\* The candles of the higher timeframe that are complete.
Grouped(h) ==
  [g \in 1..(Len(h) \div GroupBars) |-> h[g * GroupBars].close]

HigherTrend(h) ==
  LET s == Scaled(Grouped(h))
      fast == Ewm(s, EmaFast)  slow == Ewm(s, EmaSlow)
  IN  CASE Len(s) = 0 -> "NONE"
        [] Len(s) > 0 /\ Last(fast) > Last(slow) /\ Last(s) > Last(fast) -> "BULL"
        [] Len(s) > 0 /\ Last(fast) < Last(slow) /\ Last(s) < Last(fast) -> "BEAR"
        [] OTHER -> "NEUTRAL"

\* Enough candles for every column score_signal requires.
HasIndicators(h) ==
  /\ HasAtrRatio(h) /\ HasRsi(h) /\ Len(h) >= GroupBars
  /\ Len(h) > SwingLookback /\ Len(h) > LiquidityLookback

VolatilityOk(h) == AtrRatioAtLeast(h, MinAtrPercent) /\ AtrRatioAtMost(h, MaxAtrPercent)

BuyScore(h) ==
  LET c == Last(h)
  IN  Points(HigherTrend(h) = "BULL", 20)
      + Points(c.close * Scale > Ema(h, EmaSlow), 15)
      + Points(c.low * Scale <= Ema(h, EmaFast) /\ c.close * Scale > Ema(h, EmaFast), 15)
      + Points(c.low < PreviousLow(h, LiquidityLookback)
               /\ c.close > PreviousLow(h, LiquidityLookback), 15)
      + Points(RsiWithin(h, 52, 72) /\ Momentum(h) > 0, 15)
      + Points(c.high > c.low /\ CloseAtLeast(c, 65), 10)

SellScore(h) ==
  LET c == Last(h)
  IN  Points(HigherTrend(h) = "BEAR", 20)
      + Points(c.close * Scale < Ema(h, EmaSlow), 15)
      + Points(c.high * Scale >= Ema(h, EmaFast) /\ c.close * Scale < Ema(h, EmaFast), 15)
      + Points(c.high > PreviousHigh(h, LiquidityLookback)
               /\ c.close < PreviousHigh(h, LiquidityLookback), 15)
      + Points(RsiWithin(h, 28, 48) /\ Momentum(h) < 0, 15)
      + Points(c.high > c.low /\ CloseAtMost(c, 35), 10)

ScoreSignal(h) ==
  CASE ~HasIndicators(h) \/ ~VolatilityOk(h) -> "WAIT"
    [] HasIndicators(h) /\ VolatilityOk(h) /\ BuyScore(h) >= MinSignalScore -> "BUY"
    [] HasIndicators(h) /\ VolatilityOk(h) /\ BuyScore(h) < MinSignalScore
       /\ SellScore(h) >= MinSignalScore -> "SELL"
    [] OTHER -> "WAIT"

-----------------------------------------------------------------------------
(* Entry and exit                                                          *)

\* A volume below the smallest one is raised to it.
RoundDownVolume(volume) == Min({Max({volume, MinVolume}), MaxVolume})

VolumeForRisk(money, distance) ==
  IF money <= 0 \/ distance <= 0 THEN 0
  ELSE RoundDownVolume((money * RiskPercent) \div (100 * distance))

\* The stop lies the ATR multiple behind the entry, or a tenth of the ATR
\* behind the last swing, whichever is further.
StopPrice(direction, entry, h) ==
  LET atr == AtrSum(h, Len(h)) \div AtrPeriod
      atrStop == entry - Toward(direction) * ((atr * AtrStop10) \div 10)
      structural == IF direction = "BUY"
                    THEN PreviousLow(h, SwingLookback) - atr \div 10
                    ELSE PreviousHigh(h, SwingLookback) + atr \div 10
  IN  IF direction = "BUY" THEN Min({atrStop, structural}) ELSE Max({atrStop, structural})

\* The position opened in direction at the open of the last candle of h.
Entry(direction, h, money) ==
  LET entry == WithEntryCost(direction, Last(h).open)
      stop == StopPrice(direction, entry, h)
      distance == Toward(direction) * (entry - stop)
      volume == VolumeForRisk(money, distance)
  IN  IF distance <= 0 \/ volume <= 0 THEN None
      ELSE [direction |-> direction, entry |-> entry, stop |-> stop,
            target |-> entry + Toward(direction) * ((distance * RiskReward2) \div 2),
            volume |-> volume, risk |-> distance, amount |-> distance * volume,
            opened |-> Len(h)]

StopHit(p, c) == IF p.direction = "BUY" THEN c.low <= p.stop ELSE c.high >= p.stop
TargetHit(p, c) == IF p.direction = "BUY" THEN c.high >= p.target ELSE c.low <= p.target

\* The stop first when a candle touches both.
ExitPrices(p, c) ==
  IF StopHit(p, c) THEN {p.stop} ELSE IF TargetHit(p, c) THEN {p.target} ELSE {}

TradeOf(p, raw) ==
  LET exit == WithExitCost(p.direction, raw)
  IN  [direction |-> p.direction, opened |-> p.opened, closed |-> Len(candles),
       entry |-> p.entry, exit |-> exit, stop |-> p.stop, target |-> p.target,
       volume |-> p.volume, amount |-> p.amount,
       pnl |-> Pnl(p.direction, p.entry, exit, p.volume)]

-----------------------------------------------------------------------------
(* The week                                                                *)

\* Mutant of NewWeek: every week starts from the initial balance.
NewWeekFromStart(money) ==
  [start |-> StartBalance, profit |-> 0, trades |-> 0, wins |-> 0, losses |-> 0]

NewWeek(money) ==
  [start |-> money, profit |-> 0, trades |-> 0, wins |-> 0, losses |-> 0]

Week == Last(periods)

Booked(week, pnl) ==
  [week EXCEPT !.profit = @ + pnl, !.trades = @ + 1,
               !.wins = @ + Points(pnl > 0, 1), !.losses = @ + Points(pnl < 0, 1)]

WeekIsOver(week, money) ==
  \/ week.start > 0 /\ 100 * (money - week.start) >= WeeklyTarget * week.start
  \/ week.start > 0 /\ 100 * (money - week.start) <= WeeklyLossLimit * week.start
  \/ week.trades >= MaxTradesPerWeek

-----------------------------------------------------------------------------
(* run_backtest                                                            *)

\* The loop starts with the second candle; a new week drops the signal.
NextCandle ==
  /\ phase = "next" /\ ~AtEnd
  /\ \E move \in MovesOf(Len(candles) + 1) :
       candles' = Append(candles, NextBar(Bar.close, move))
  /\ phase' = "exit"
  /\ IF periods = <<>> \/ PeriodOf(Len(candles)) # PeriodOf(Len(candles) + 1)
     THEN periods' = Append(periods, NewWeek(balance)) /\ pending' = None
     ELSE UNCHANGED <<periods, pending>>
  /\ UNCHANGED <<balance, position, trades, curve>>

CloseAt(raw) ==
  LET trade == TradeOf(position, raw)
  IN  /\ balance' = balance + trade.pnl
      /\ trades' = Append(trades, trade)
      /\ periods' = [periods EXCEPT ![Len(periods)] = Booked(@, trade.pnl)]
      /\ position' = None

\* An exit drops the pending signal, and nothing else is done this candle.
ExitPosition ==
  /\ phase = "exit" /\ position # None
  /\ \E raw \in ExitPrices(position, Bar) : CloseAt(raw)
  /\ pending' = None
  /\ phase' = "next"
  /\ UNCHANGED <<candles, curve>>

KeepPosition ==
  /\ phase = "exit"
  /\ position # None => ExitPrices(position, Bar) = {}
  /\ phase' = "enter"
  /\ UNCHANGED <<candles, account, pending, curve>>

\* The signal of the candle before is executed at this candle's open, or
\* dropped: by a limit of the week, for want of a stop or of a volume.
EnterPending ==
  /\ phase = "enter" /\ position = None /\ pending # None
  /\ position' = IF WeekIsOver(Week, balance) THEN None
                 ELSE Entry(pending.direction, candles, balance)
  /\ pending' = None
  /\ phase' = "score"
  /\ UNCHANGED <<candles, balance, periods, trades, curve>>

NothingToEnter ==
  /\ phase = "enter" /\ (position # None \/ pending = None)
  /\ phase' = "score"
  /\ UNCHANGED <<candles, account, pending, curve>>

\* The last candle is not scored.
ScoreCandle ==
  /\ phase = "score"
  /\ pending' = IF AtEnd THEN pending
                ELSE IF ScoreSignal(candles) \in {"BUY", "SELL"}
                     THEN [direction |-> ScoreSignal(candles)] ELSE None
  /\ phase' = "next"
  /\ UNCHANGED <<candles, account, curve>>

\* What is still open is closed at the last close.
FinishRun ==
  /\ phase = "next" /\ AtEnd
  /\ IF position = None THEN UNCHANGED account ELSE CloseAt(Bar.close)
  /\ phase' = "done"
  /\ UNCHANGED <<candles, pending, curve>>

Next ==
  \/ NextCandle \/ ExitPosition \/ KeepPosition \/ EnterPending
  \/ NothingToEnter \/ ScoreCandle \/ FinishRun

-----------------------------------------------------------------------------
(* calculate_metrics                                                       *)

Won == {i \in DOMAIN trades : trades[i].pnl > 0}
Lost == {i \in DOMAIN trades : trades[i].pnl < 0}

-----------------------------------------------------------------------------
(* V3: run_backtest_v3                                                     *)

\* The variant is the profit protection the run is made with.
ProtectionModes == {"none", "be_1r", "lock_0_5r", "trail_1r"}

\* How many half risks the close is in favour, at the least; halves.
HalfRs(p, close) == 2 * Toward(p.direction) * (close - p.entry)

Tighter(p, stop) == IF p.direction = "BUY" THEN Max({p.stop, stop}) ELSE Min({p.stop, stop})

ApplyProfitProtection(p, close) ==
  LET half == Toward(p.direction) * (p.risk \div 2)
  IN  CASE variant = "be_1r" /\ HalfRs(p, close) >= 2 * p.risk ->
             [p EXCEPT !.stop = Tighter(p, p.entry)]
        [] variant = "lock_0_5r" /\ HalfRs(p, close) >= 3 * p.risk ->
             [p EXCEPT !.stop = Tighter(p, p.entry + half)]
        [] variant = "trail_1r" /\ HalfRs(p, close) >= 4 * p.risk ->
             [p EXCEPT !.stop = Tighter(p, close - Toward(p.direction) * p.risk)]
        [] OTHER -> p

V3Candle == NextCandle

V3Exit == ExitPosition

\* A position that survives the candle is protected by its close, for the
\* candles to come.
V3Protect ==
  /\ phase = "exit"
  /\ position # None => ExitPrices(position, Bar) = {}
  /\ position' = IF position = None THEN None ELSE ApplyProfitProtection(position, Bar.close)
  /\ phase' = "enter"
  /\ UNCHANGED <<candles, balance, periods, trades, pending, curve>>

V3Enter == EnterPending \/ NothingToEnter

V3Score == ScoreCandle

V3Finish == FinishRun

V3Next ==
  V3Candle \/ V3Exit \/ V3Protect \/ V3Enter \/ V3Score \/ V3Finish

-----------------------------------------------------------------------------
(* V4: prepare_data, _confirm and simulate                                 *)

\* The variant says which lower timeframes must confirm.
ConfirmModes == {"m15", "m5", "both"}

\* prepare_data: the same points as score_signal, none of them without the
\* indicators and the volatility.
Rated(h) == HasIndicators(h) /\ VolatilityOk(h)
V4BuyScore(h) == Points(Rated(h), BuyScore(h))
V4SellScore(h) == Points(Rated(h), SellScore(h))

\* lower_features of the last lower candle, and ok() of them.
LowerOk(s, direction) ==
  LET close == Last(s).close * Scale
      fast == Ema(s, LowerFast)  slow == Ema(s, LowerSlow)
      body == Toward(direction) * (Last(s).close - Last(s).open)
  IN  /\ HasRsi(s)
      /\ Toward(direction) * (close - fast) > 0
      /\ Toward(direction) * (fast - slow) > 0
      /\ IF direction = "BUY" THEN RsiWithin(s, 52, 75) ELSE RsiWithin(s, 25, 48)
      /\ body > 0

\* _confirm, of what the two timeframes say.
Confirm(m15, m5) ==
  CASE variant = "m15" -> m15 [] variant = "m5" -> m5 [] variant = "both" -> m15 /\ m5

\* The higher of two scores that both reach the threshold; neither when they
\* are equal.
V4Direction(h) ==
  LET buy == V4BuyScore(h)  sell == V4SellScore(h)
  IN  CASE buy >= MinSignalScore /\ (sell < MinSignalScore \/ buy > sell) -> "BUY"
        [] sell >= MinSignalScore /\ (buy < MinSignalScore \/ sell > buy) -> "SELL"
        [] OTHER -> "NONE"

V4Candle == NextCandle

V4Flat ==
  /\ phase = "exit" /\ pending = None
  /\ phase' = "score"
  /\ UNCHANGED <<candles, account, pending, curve>>

\* pending["direction"] of a tuple.
V4Crash ==
  /\ phase = "exit" /\ pending # None
  /\ phase' = "crashed"
  /\ UNCHANGED <<candles, account, pending, curve>>

\* The candles of the lower timeframes are an input of their own.
V4Score ==
  /\ phase = "score"
  /\ \E m15, m5 \in BOOLEAN :
       LET direction == V4Direction(candles)
       IN  pending' = IF AtEnd THEN pending
                      ELSE IF direction # "NONE" /\ Confirm(m15, m5)
                           THEN [direction |-> direction] ELSE None
  /\ phase' = "next"
  /\ UNCHANGED <<candles, account, curve>>

V4Finish == FinishRun

V4Next == V4Candle \/ V4Flat \/ V4Crash \/ V4Score \/ V4Finish

=============================================================================
