----------------------------- MODULE RiskRules -----------------------------
(***************************************************************************)
(* RiskEngine (risk_engine.py) and the sizing and exposure of Step14       *)
(* (step14_pipeline.py).  Volumes are counted in volume steps and money in *)
(* what one tick is worth for one step, so a distance of d Unit-ths of a   *)
(* tick costs d * volume Unit-ths of money.                                *)
(***************************************************************************)
EXTENDS Integers

CONSTANTS
  PriceUnit,             \* Unit of the prices: Unit-ths of a tick
  RiskPercent,           \* risk_per_trade_percent, 1
  DailyLossPercent,      \* max_daily_loss_percent, 3
  ExposurePercent,       \* max_total_exposure_percent, 5
  MaxOpen,               \* max_open_positions, 3
  MinRewardRatio,        \* min_risk_reward in tenths, 15
  VolumeMin, VolumeMax,  \* of the symbol, in steps
  VolumeLimit,           \* volume_limit in steps, 0 for none
  TradeMode              \* "disabled" "long" "short" "close" "full"

\* RiskConfig.validate and SymbolSpecification.validate.
ValidRiskConfig ==
  /\ PriceUnit \in Nat \ {0}
  /\ RiskPercent \in 1..100 /\ DailyLossPercent \in 1..100
  /\ ExposurePercent \in 1..100 /\ MaxOpen \in Nat \ {0}
  /\ MinRewardRatio \in Nat \ {0}
  /\ VolumeMin \in Nat \ {0} /\ VolumeMax \in Nat /\ VolumeMin <= VolumeMax
  /\ VolumeLimit \in Nat

Span(x, y) == IF x > y THEN x - y ELSE y - x

\* What the stop of this volume costs, in Unit-ths of money.
StopCost(entry, stop, volume) == Span(entry, stop) * volume

\* risk_amount, daily_loss_limit and total_exposure_limit, in hundredths of
\* money: equity * percent.
RiskAmount(equity) == equity * RiskPercent
DailyLossLimit(equity) == equity * DailyLossPercent
TotalExposureLimit(equity) == equity * ExposurePercent

\* Mutant of PositionSize: the volume is rounded up to the next step.
RoundedUpSize(equity, entry, stop) ==
  LET budget == (RiskAmount(equity) * PriceUnit) \div 100
      steps == budget \div Span(entry, stop) + 1
  IN  IF steps < VolumeMin THEN 0 ELSE IF steps > VolumeMax THEN VolumeMax ELSE steps

\* calculate_position_size_from_symbol: the steps that the budget pays for,
\* nothing below the minimum, the maximum above it.
PositionSize(equity, entry, stop) ==
  LET budget == (RiskAmount(equity) * PriceUnit) \div 100
      steps == budget \div Span(entry, stop)
  IN  IF steps < VolumeMin THEN 0 ELSE IF steps > VolumeMax THEN VolumeMax ELSE steps

DirectionAllowed(direction) ==
  \/ TradeMode = "full"
  \/ TradeMode = "long" /\ direction = "BUY"
  \/ TradeMode = "short" /\ direction = "SELL"

VolumeAllowed(volume) ==
  /\ volume \in VolumeMin..VolumeMax
  /\ VolumeLimit > 0 => volume <= VolumeLimit

RewardAllowed(proposal) ==
  LET risk == Span(proposal.entry, proposal.stop)
      reward == Span(proposal.target, proposal.entry)
  IN  risk > 0 /\ reward > 0 /\ 10 * reward >= MinRewardRatio * risk

\* pre_trade_check on a risk state, loss of the day, open positions and
\* exposure, and the exposure the proposal adds (in Unit-ths of money).
PreTradeCheck(equity, state, proposal, volume, exposure) ==
  /\ 100 * state.dailyLoss < PriceUnit * DailyLossLimit(equity)
  /\ state.open < MaxOpen
  /\ 100 * (state.exposure + exposure) <= PriceUnit * TotalExposureLimit(equity)
  /\ DirectionAllowed(proposal.direction)
  /\ proposal.stop > 0
  /\ RewardAllowed(proposal)
  /\ VolumeAllowed(volume)

=============================================================================
