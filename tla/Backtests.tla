----------------------------- MODULE Backtests -----------------------------
(***************************************************************************)
(* A run of one of the backtest engines over a market: the engine and its  *)
(* variant are chosen at the start.                                        *)
(***************************************************************************)
EXTENDS Simulation

CONSTANTS
  Engines,                       \* subset of v1, v3, v4, v5, production
  V5Runs,                        \* the [family, regime] V5 is run with
  ProductionBars,                \* bound of the model: Bars, for production
  GroupBars, MinAtrPercent, MaxAtrPercent, MinSignalScore, RiskPercent,
  WeeklyTarget, WeeklyLossLimit, MaxTradesPerWeek, RiskReward2, AtrStop10,
  MinVolume, MaxVolume, LowerFast, LowerSlow,
  FirstBar, LongAtrPeriod, MinimumScore, BreakEven10, BreakEvenLock10,
  TrailingStart10, TrailingDistance10, TpExtension,
  WarmupCandles, Proposals, DailyLossPercent, ExposurePercent, Leverage,
  MinRewardRatio, ProtectTrigger20, ProtectLock20, LowerRequired

VARIABLE engine

Growth == INSTANCE WeeklyGrowth
V5 == INSTANCE V5Engine
Signals == INSTANCE V5Signals
Production == INSTANCE ProductionBacktest WITH Bars <- ProductionBars

ASSUME BacktestAssumption ==
  /\ Engines \subseteq {"v1", "v3", "v4", "v5", "production"}
  /\ Growth!ValidConfig /\ Growth!ValidSpans /\ V5!ValidRun
  /\ Production!ValidConfig /\ Production!Risk!ValidRiskConfig

vars == <<engine, variant, candles, phase, account, pending, curve>>

Variants(e) ==
  CASE e = "v1" -> {"v1"}
    [] e = "v3" -> Growth!ProtectionModes
    [] e = "v4" -> Growth!ConfirmModes
    [] e = "v5" -> V5Runs
    [] e = "production" -> {"production"}

Init ==
  /\ SimulationInit
  /\ engine \in Engines
  /\ variant \in Variants(engine)

Step ==
  \/ engine = "v1" /\ Growth!Next
  \/ engine = "v3" /\ Growth!V3Next
  \/ engine = "v4" /\ Growth!V4Next
  \/ engine = "v5" /\ V5!V5Next
  \/ engine = "production" /\ Production!ProductionNext

Next == Step /\ UNCHANGED <<engine, variant>>

Spec == Init /\ [][Next]_vars

=============================================================================
