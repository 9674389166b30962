---------------------------- MODULE MCBacktests ----------------------------
(***************************************************************************)
(* Constants of the backtest runs.  Prices are multiples of 20 ticks; the  *)
(* periods of the indicators are the shortest that keep their shape.       *)
(***************************************************************************)
EXTENDS BacktestRequirements

Move(gap, body, up, down) == [gap |-> gap, body |-> body, up |-> up, down |-> down]

\* A zigzag that gives every indicator a gain and a loss to start with.
Zigzag == <<Move(0, 20, 20, 20), Move(0, -40, 0, 20), Move(0, 60, 20, 0),
            Move(0, -40, 0, 20), Move(0, 40, 0, 20)>>

\* Up a little and much, down with a sweep above, and a gap through the stop.
FewMoves == {Move(0, 60, 0, 60), Move(0, 140, 0, 20), Move(0, -60, 60, 0), Move(-120, 0, 20, 20)}

ShortMacd == <<3, 7, 3>>

AllEngines == {"v1", "v3", "v4", "v5", "production"}
WeeklyOnly == {"v1"}

FamilyRuns ==
  {[family |-> "TREND_CONTINUATION", regime |-> "BULL_TREND"],
   [family |-> "LIQUIDITY_REVERSAL", regime |-> "BEAR_TREND"]}

NearAndFar == {[risk |-> 80, reward |-> 120], [risk |-> 80, reward |-> 240]}

NoLoss == -9

=============================================================================
