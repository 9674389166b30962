------------------------ MODULE BacktestRequirements ------------------------
(***************************************************************************)
(* What a backtest must be for its results to mean something: the books    *)
(* add up, nothing is decided from the future, every fill is a price the   *)
(* market had, and the rules of the week and of the stop are kept.         *)
(***************************************************************************)
EXTENDS Backtests

-----------------------------------------------------------------------------
(* Books                                                                   *)

\* What the open position has already brought in, by its partial exit.
Realized ==
  IF engine = "production" /\ position # None THEN position.realized ELSE 0

PnlSum(s) == SumFunction([i \in DOMAIN s |-> s[i].pnl])

\* Every trade is booked once, with all it earned: the balance is the initial
\* one, the pnl of the trades, and the partial exit of the position that is
\* still open, which its trade will count again (_close_position,
\* backtest_engine.py:2286-2442; V5 and the weekly strategies book at once).
BalanceIsWhatWasTraded ==
  balance = StartBalance + PnlSum(trades) + Realized

Weekly == engine \in {"v1", "v3"}

\* The weekly report is a second set of books: each week starts with what the
\* one before ended with, no trade is in two weeks or in none, and wins and
\* losses are what the trades say (run_weekly_growth_backtest.py:1684-1756).
WeeksAddUp ==
  Weekly /\ periods # <<>> =>
    /\ periods[1].start = StartBalance
    /\ \A i \in 1..(Len(periods) - 1) :
         periods[i + 1].start = periods[i].start + periods[i].profit
    /\ balance = Last(periods).start + Last(periods).profit
    /\ SumFunction([i \in DOMAIN periods |-> periods[i].trades]) = Len(trades)
    /\ SumFunction([i \in DOMAIN periods |-> periods[i].wins]) = Cardinality(Growth!Won)
    /\ SumFunction([i \in DOMAIN periods |-> periods[i].losses]) = Cardinality(Growth!Lost)

\* The worst fall the result reports covers every fall between two balances of
\* the finished run, the last close included (backtest_engine.py:971-1018 and
\* 1319-1395).
DrawdownIsCovered ==
  engine = "production" /\ phase = "done" =>
    LET after(k) == StartBalance + PnlSum(SubSeq(trades, 1, k))
    IN  \A k \in 0..Len(trades), j \in 0..Len(trades) :
          j <= k => drawdown >= after(j) - after(k)

-----------------------------------------------------------------------------
(* Limits                                                                  *)

\* The bars at which a position was entered.
Entered ==
  {trades[i].opened : i \in DOMAIN trades}
  \cup (IF position = None THEN {} ELSE {position.opened})

\* The trades an entry at this bar finds closed, and those its week did when it
\* began: a trade entered at the last bar is also closed there.
ClosedBefore(bar) ==
  {i \in DOMAIN trades : trades[i].closed <= bar /\ trades[i].opened < bar}

ClosedInEarlierWeeks(bar) ==
  {i \in DOMAIN trades : PeriodOf(trades[i].closed) < PeriodOf(bar)}

PnlOf(s, part) == SumFunctionOnSet([i \in DOMAIN s |-> s[i].pnl], part)

BalanceAtEntry(bar) == StartBalance + PnlOf(trades, ClosedBefore(bar))

BalanceAtWeek(bar) == StartBalance + PnlOf(trades, ClosedInEarlierWeeks(bar))

EnteredInWeek(bar) == {b \in Entered : PeriodOf(b) = PeriodOf(bar)}

\* Pause for the week: nothing is entered in a week that had already lost the
\* limit (or won the target, for the weekly strategies), whenever the trades
\* that lost it were opened, and a week sees no more entries than it may
\* (run_weekly_growth_backtest.py:1318-1363, v5_execution_engine.py:1515-1567).
WeeklyLimitsHold ==
  engine \in {"v1", "v3", "v5"} =>
    \A bar \in Entered :
      LET start == BalanceAtWeek(bar)
          made == BalanceAtEntry(bar) - start
      IN  /\ start > 0 => 100 * made > WeeklyLossLimit * start
          /\ Weekly => 100 * made < WeeklyTarget * start
          /\ Cardinality(EnteredInWeek(bar)) <= MaxTradesPerWeek

\* The stop of a position that stays open moves in the direction of the trade
\* or not at all, through break-even, locks, trailing and whatever order they
\* come in ("trailing only protective", backtest_engine.py:1887-1945;
\* v5_execution_engine.py:921-1064; run_weekly_growth_v3_research.py:148-270).
StopsNeverLoosen ==
  [][position # None /\ position' # None /\ position.opened = position'.opened =>
       Toward(position.direction) * (position'.stop - position.stop) >= 0]_vars

-----------------------------------------------------------------------------
(* Time                                                                    *)

\* What all of a trade would have earned at the best price of a candle.
AtBest(t, c) ==
  Pnl(t.direction, t.entry, WithExitCost(t.direction, Production!Best(t, c)), t.volume)

\* No result of the production engine is better than the market was: wherever
\* the candles gap to, a trade closes at a price of its last candle, and its
\* partial exit and its close together earn no more than all of it would
\* have at one price of a candle it was held over.  The partial exit is
\* booked at one R, which a candle that opens beyond it never had: that is
\* the worse price (backtest_engine.py:1545-1680, 1742-1759 and 1972-1989).
TradesAreAttainable ==
  engine = "production" =>
    \A i \in DOMAIN trades :
      LET t == trades[i]
      IN  /\ candles[t.closed].low <= t.exit /\ t.exit <= candles[t.closed].high
          /\ \E k \in t.opened..t.closed : t.pnl <= AtBest(t, candles[k])

\* The candles that open where the last one did.
OthersAtTheOpen ==
  {[candles EXCEPT ![Len(candles)] = NextBar(candles[Len(candles) - 1].close, move)] :
     move \in {m \in Moves : candles[Len(candles) - 1].close + m.gap = Bar.open}}

\* What a weekly strategy executes at an open does not depend on what the
\* candle does next: "The next candle is used for entry. This prevents
\* same-candle lookahead." (run_weekly_growth_backtest.py:582-584)
WeeklyEntryIsAtTheOpen ==
  engine = "v1" /\ phase = "enter" /\ position = None /\ pending # None =>
    \A others \in OthersAtTheOpen :
      Growth!Entry(pending.direction, others, balance) = Growth!Entry(pending.direction, candles, balance)

-----------------------------------------------------------------------------
(* Symmetry                                                                *)

Opposite(direction) ==
  CASE direction = "BUY" -> "SELL" [] direction = "SELL" -> "BUY" [] OTHER -> direction

Turned(signals) == {[s EXCEPT !.direction = Opposite(@)] : s \in signals}

\* A market turned upside down gives V1 the opposite scores, V4 the opposite
\* direction and confirmation, and every family of V5 the opposite signals,
\* wherever both markets have an RSI and the market an ATR ratio: none of the
\* pairs of conditions written out twice has a wrong sign or bound.  Asked of
\* every history that the loop of V1 scores
\* (run_weekly_growth_backtest.py:664-765, run_weekly_growth_v4_research.py:
\* 584-738 and 850-920, v5_strategy_engine.py:494-987).
SignalsAreSymmetric ==
  LET other == Mirrored(candles, StartPrice)
      mine == Signals!EvaluateRow(candles)
      theirs == Signals!EvaluateRow(other)
  IN  engine = "v1" /\ phase = "score" /\ HasRsi(candles) /\ HasRsi(other) /\ HasAtrRatio(candles) =>
        /\ Growth!HasIndicators(candles) => Growth!BuyScore(candles) = Growth!SellScore(other)
        /\ Growth!V4Direction(other) = Opposite(Growth!V4Direction(candles))
        /\ Growth!LowerOk(candles, "BUY") <=> Growth!LowerOk(other, "SELL")
        /\ \A f \in Signals!Families : theirs[f] = Turned(mine[f])

=============================================================================
