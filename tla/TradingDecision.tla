-------------------------- MODULE TradingDecision --------------------------
(***************************************************************************)
(* AITradingDecisionEngine (ai_trading_decision.py): from a technical      *)
(* context to BUY with a proposal, SELL with a proposal, or WAIT.          *)
(* Scores and confluence are whole points, confidence is in hundredths of  *)
(* a point, risk/reward in tenths, prices in the Unit-ths of               *)
(* MarketAnalysis.                                                         *)
(***************************************************************************)
EXTENDS MarketAnalysis

CONSTANTS
  BuyScore,              \* 65, the defaults of AIDecisionConfig
  SellScore,             \* 35
  MinimumConfidence,     \* 60.00
  MaxConfidence,         \* 95.00
  MinimumRewardRatio,    \* 1.5
  MaximumRewardRatio,    \* 3.0
  ConfluenceLevels,      \* <<60, 75, 80, 85>>: minimum, strong, very strong,
                         \* exceptional
  ConfidenceLevels,      \* <<80.00, 85.00>>: very strong, exceptional
  RoundingErrors         \* what floating point may add to a computed target

\* AIDecisionConfig.validate, which the engine's constructor calls.
ValidConfig ==
  /\ BuyScore \in 0..100 /\ SellScore \in 0..100 /\ SellScore < BuyScore
  /\ MinimumConfidence \in 0..10000 /\ MaxConfidence \in 1..10000
  /\ MinimumConfidence <= MaxConfidence
  /\ MinimumRewardRatio \in Nat \ {0} /\ MaximumRewardRatio \in Nat
  /\ MinimumRewardRatio <= MaximumRewardRatio
  /\ ConfluenceLevels \in [1..4 -> 0..100]
  /\ \A i \in 1..3 : ConfluenceLevels[i] <= ConfluenceLevels[i + 1]
  /\ ConfidenceLevels \in [1..2 -> 0..10000]
  /\ ConfidenceLevels[1] <= ConfidenceLevels[2]

ASSUME ConfigAssumption == ValidConfig

\* TechnicalContext.validate raises on anything else.
ValidContext(c) ==
  /\ c.close > 0
  /\ c.score \in 0..100
  /\ c.trend \in {"Bullish", "Bearish", "Neutral"}
  /\ c.signal \in {"BUY", "SELL", "WAIT"}
  /\ c.rsi14 \in 0..(100 * Unit)
  /\ c.atr14 >= 0

\* The pressure part of it: label and score must say the same.
ValidPressure(p) ==
  /\ p.available => p.label # "UNAVAILABLE" /\ p.score \in -100..100
  /\ ~p.available => p.label = "UNAVAILABLE"
  /\ p.label = "BUY_PRESSURE" => p.score > 0
  /\ p.label = "SELL_PRESSURE" => p.score < 0

\* Both directions are judged alike once prices are turned round: Toward(d)
\* is 1 for BUY, -1 for SELL.
Toward(direction) == IF direction = "BUY" THEN 1 ELSE -1

TrendOf(direction) == IF direction = "BUY" THEN "Bullish" ELSE "Bearish"

Aligned(c, direction) ==
  /\ c.trend = TrendOf(direction)
  /\ c.signal = direction
  /\ Toward(direction) * (c.ema20 - c.ema50) > 0
  /\ Toward(direction) * (c.macd - c.macdSignal) > 0
  /\ IF direction = "BUY" THEN 0 < c.rsi14 /\ c.rsi14 <= 70 * Unit
                          ELSE 30 * Unit <= c.rsi14 /\ c.rsi14 < 100 * Unit

-----------------------------------------------------------------------------
(* Confluence: points earned of the points possible, in percent.           *)

RsiPoints(c, direction) ==
  LET strength == Toward(direction) * (c.rsi14 - 50 * Unit)
  IN  CASE strength >= 0 /\ strength <= 20 * Unit -> 15
        [] strength < 0 /\ strength >= -5 * Unit -> 7
        [] OTHER -> 0

MacdPoints(c, direction) ==
  IF Toward(direction) * (c.macd - c.macdSignal) > 0 THEN 15 ELSE 0

PressurePoints(p, direction) ==
  LET support == Toward(direction) * p.score
  IN  CASE support >= 50 -> 10
        [] support >= 25 -> 7
        [] support > 0 -> 3
        [] OTHER -> 0

\* 40 of the points are the technical score's, in tenths here: a SELL, whose
\* score is low, gets few of them.
TechnicalPoints(c) == 4 * c.score

\* What the indicators that have a direction add to it, in points.
DirectionPoints(c) ==
  IF c.signal = "WAIT" THEN 0
  ELSE LET d == c.signal
       IN  (IF Toward(d) * (c.ema20 - c.ema50) > 0 THEN 20 ELSE 0)
           + RsiPoints(c, d) + MacdPoints(c, d)
           + (IF c.trend = TrendOf(d) THEN 10 ELSE 0)
           + (IF c.pressure.available THEN PressurePoints(c.pressure, d) ELSE 0)

ConfluenceScore(c) ==
  LET possible == IF c.pressure.available THEN 110 ELSE 100
  IN  Clamp(Rounded(10 * (TechnicalPoints(c) + 10 * DirectionPoints(c)), possible), 0, 100)

BaseConfidence(c, confluence) ==
  LET exhausted == \/ c.signal = "BUY" /\ c.rsi14 > 75 * Unit
                   \/ c.signal = "SELL" /\ c.rsi14 < 25 * Unit
      raw == 4500 + 55 * Abs(c.score - 50) + 20 * (confluence - 50)
             + (IF c.trend # "Neutral" THEN 500 ELSE 0)
             + (IF c.signal # "WAIT" /\ c.trend # "Neutral" THEN 500 ELSE 0)
             - (IF c.signal = "WAIT" THEN 1000 ELSE 0)
             - (IF exhausted THEN 1000 ELSE 0)
  IN  Clamp(raw, 0, MaxConfidence)

DetermineDirection(c, confluence) ==
  IF confluence < ConfluenceLevels[1] THEN "WAIT"
  ELSE CASE c.signal = "BUY" /\ c.score >= BuyScore /\ Aligned(c, "BUY") -> "BUY"
         [] c.signal = "SELL" /\ c.score <= SellScore /\ Aligned(c, "SELL") -> "SELL"
         [] OTHER -> "WAIT"

-----------------------------------------------------------------------------
(* The proposal: one ATR of risk, a target that grows with the strength.   *)

AdaptiveRiskReward(confluence, confidence) ==
  LET earned == {MinimumRewardRatio}
        \cup (IF confluence >= ConfluenceLevels[2] THEN {20} ELSE {})
        \cup (IF confluence >= ConfluenceLevels[3] /\ confidence >= ConfidenceLevels[1]
                THEN {25} ELSE {})
        \cup (IF confluence >= ConfluenceLevels[4] /\ confidence >= ConfidenceLevels[2]
                THEN {30} ELSE {})
      target == CHOOSE r \in earned : \A other \in earned : other <= r
  IN  Clamp(target, MinimumRewardRatio, MaximumRewardRatio)

\* entry + atr14 * ratio is rounded, so the ratio read back from the target
\* may be a hair off the one it was made from.
Proposal(c, direction, ratio, rounding) ==
  [direction |-> direction, entry |-> c.close,
   stop |-> c.close - Toward(direction) * c.atr14,
   target |-> c.close + Toward(direction) * ((c.atr14 * ratio) \div 10 + rounding),
   ratio |-> ratio]

\* The relative tolerance _build_proposal allows at the maximum only.
WithinMaximum(reward, risk) ==
  \/ 10 * reward <= MaximumRewardRatio * risk
  \/ \E e \in RoundingErrors : 10 * (reward - e) <= MaximumRewardRatio * risk

\* _build_proposal: a stop above zero, on the right side of entry, and the
\* target on the other one, at a risk/reward within the configured bounds.
Sound(p) ==
  LET risk == Toward(p.direction) * (p.entry - p.stop)
      reward == Toward(p.direction) * (p.target - p.entry)
  IN  /\ p.stop > 0
      /\ risk > 0 /\ reward > 0
      /\ 10 * reward >= MinimumRewardRatio * risk
      /\ WithinMaximum(reward, risk)

NoProposal == [direction |-> "WAIT", entry |-> 0, stop |-> 0, target |-> 0, ratio |-> 0]

\* evaluate: the direction, then the weakness filters, then the proposal; a
\* step that fails makes it WAIT.
Evaluate(c, rounding) ==
  LET confluence == ConfluenceScore(c)
      confidence == BaseConfidence(c, confluence)
      direction == DetermineDirection(c, confluence)
      proposal == Proposal(c, direction, AdaptiveRiskReward(confluence, confidence), rounding)
      trade == /\ direction # "WAIT"
               /\ confidence >= MinimumConfidence
               /\ c.atr14 > 0
               /\ Sound(proposal)
  IN  [direction |-> IF trade THEN direction ELSE "WAIT",
       proposal |-> IF trade THEN proposal ELSE NoProposal,
       confluence |-> confluence, confidence |-> confidence]

=============================================================================
