----------------------------- MODULE Simulation -----------------------------
(***************************************************************************)
(* What the backtest engines have in common: a market that prints candles, *)
(* one position at a time, and an account that its trades are booked on.   *)
(* An engine goes through the phases of its loop once for every candle;    *)
(* each engine module says which.                                          *)
(***************************************************************************)
EXTENDS CandleSeries

CONSTANTS
  Warmup,          \* the moves of the first candles, before the free ones
  Moves,           \* what a candle may do: [gap, body, up, down]
  StartPrice, StartBalance,
  Cost,            \* half the spread plus the slippage, in ticks
  Bars,            \* bound of the model: candles of the data
  PeriodBars       \* candles of a trading week (a day, for the production
                   \* engine)

\* A candle's high and low are beyond its open and close by this much.
CandleMoves == [gap : Int, body : Int, up : Nat, down : Nat]

ASSUME SimulationAssumption ==
  /\ Bars \in Nat /\ PeriodBars \in Nat \ {0}
  /\ StartBalance \in Nat \ {0} /\ Cost \in Nat /\ StartPrice \in Int
  /\ Warmup \in Seq(CandleMoves) /\ Warmup # <<>> /\ Moves \subseteq CandleMoves

VARIABLES
  variant,         \* what the engine was asked to run
  candles,         \* the data up to the candle of this iteration
  phase,           \* where in the loop's body the engine is
  balance,
  position,        \* the open position, or None
  pending,         \* the signal to execute at the next open, or None
  periods,         \* one record per week (day) seen so far
  trades,          \* the closed trades
  peak, drawdown   \* of the equity curve

None == [direction |-> "NONE"]

account == <<balance, position, periods, trades>>
curve == <<peak, drawdown>>

Toward(direction) == IF direction = "BUY" THEN 1 ELSE -1

Bar == Last(candles)

AtEnd == Len(candles) = Bars

NextBar(close, move) ==
  LET open == close + move.gap
      end == open + move.body
  IN  [open |-> open, close |-> end,
       high |-> Max({open, end}) + move.up, low |-> Min({open, end}) - move.down]

FirstCandle == NextBar(StartPrice, Warmup[1])

\* What candle number i of the data may do.
MovesOf(i) == IF i <= Len(Warmup) THEN {Warmup[i]} ELSE Moves

PeriodOf(i) == (i - 1) \div PeriodBars

SimulationInit ==
  /\ phase = "next"
  /\ periods = <<>>
  /\ candles = <<FirstCandle>>
  /\ balance = StartBalance
  /\ position = None
  /\ pending = None
  /\ trades = <<>>
  /\ peak = StartBalance
  /\ drawdown = 0

\* A direction's price against the costs: what is bought costs more, what is
\* sold earns less.
WithEntryCost(direction, price) == price + Toward(direction) * Cost
WithExitCost(direction, price) == price - Toward(direction) * Cost

Pnl(direction, entry, exit, volume) == Toward(direction) * (exit - entry) * volume

=============================================================================
