----------------------------- MODULE MCResearch -----------------------------
(***************************************************************************)
(* Constants of the research run: a grid of three, and backtests that      *)
(* earn, lose, trade too little, or never lose.                            *)
(***************************************************************************)
EXTENDS Research

MCLog1p(x) ==
  CASE x = 0 -> 0 [] x = 1 -> 69 [] x = 4 -> 161 [] x = 8 -> 220 [] x = 9 -> 230
    [] x = 12 -> 256 [] x = 20 -> 304 [] x = 30 -> 343 [] x = 40 -> 371

MCLogRatio(x) == CASE x = 0 -> 0

Grid ==
  <<[family |-> "TREND_CONTINUATION", regime |-> "BULL_TREND"],
    [family |-> "BREAKOUT", regime |-> "BULL_TREND"]>>

LongGrid == Append(Grid, [family |-> "BREAKOUT", regime |-> "RANGE"])

Result(trades, ret, pf, drawdown) ==
  [trades |-> trades, ret |-> ret, pf |-> pf, expectancy |-> 10 * ret, drawdown |-> drawdown,
   consistency |-> IF ret > 0 THEN 60 ELSE 30]

Good == Result(40, 12, 180, 8)
Fair == Result(20, 1, 104, 12)
Poor == Result(40, -12, 70, 20)
Thin == Result(9, 30, 250, 4)
Perfect == Result(12, 9, NoLosses, 0)
Slip == Result(30, -4, 95, 9)
Idle == [Result(0, 0, 0, 0) EXCEPT !.consistency = 0]

SearchResults == {Good, Fair, Poor, Thin, Perfect, Result(0, 0, NoLosses, 0)}
Training == {Good, Fair, Thin}
Validating == {Good, Thin}
Testing == {Good, Slip, Poor, Idle}

AllStudies == {"v3", "v4", "v5"}
AskedFor == {1..4, {1}}
Ends == {27, 33}
DefectSets == {{}, {"lot_sizes"}, {"lookahead_column_scan"}}

=============================================================================
