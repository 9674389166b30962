-------------------------- MODULE ResearchMetrics --------------------------
(***************************************************************************)
(* How the research scripts score a backtest, and how they rank what they  *)
(* scored.  A result of a backtest is a record of                          *)
(*   trades, ret (return), drawdown, consistency   in percent,             *)
(*   pf (profit factor), expectancy                in hundredths.          *)
(* Scores are in hundredths.                                               *)
(***************************************************************************)
EXTENDS Integers, Sequences, FiniteSets, FiniteSetsExt, SequencesExt, TLC

CONSTANT Log1p(_)    \* hundredths of ln(1 + x), for the x of the results

\* The weekly scripts report no profit factor where no trade has lost.
NoLosses == -1

IsResult(r) ==
  /\ r.trades \in Nat /\ r.ret \in Int /\ r.drawdown \in Nat
  /\ r.expectancy \in Int /\ r.consistency \in 0..100
  /\ r.trades = 0 => r.ret = 0 /\ r.drawdown = 0

\* calculate_metrics: a profit is a factor above one.
IsWeeklyResult(r) ==
  /\ IsResult(r)
  /\ IF r.pf = NoLosses THEN r.ret >= 0 ELSE r.pf \in Nat /\ (r.ret > 0 <=> r.pf > 100)

IsV5Result(r) ==
  /\ IsResult(r) /\ r.pf \in Nat /\ (r.ret > 0 <=> r.pf > 100)
  /\ r.trades = 0 => r.pf = 0 /\ r.expectancy = 0 /\ r.consistency = 0

Clip(x, low, high) == Max({low, Min({high, x})})
Sign(x) == IF x < 0 THEN -1 ELSE IF x = 0 THEN 0 ELSE 1
Magnitude(x) == Sign(x) * x

\* The logarithm of a return keeps its sign.
Growth(ret) == Sign(ret) * Log1p(Magnitude(ret))

TooFewTrades == -1000000

\* v5_walk_forward.robust_score.
RobustScore(m) ==
  IF m.trades < 20 THEN TooFewTrades
  ELSE 12 * Growth(m.ret) + 25 * Clip(m.pf - 100, -100, 400)
       + 20 * Clip(m.expectancy, -200, 200) + 30 * m.consistency
       - 250 * Max({m.drawdown - 10, 0}) + Min({2 * Log1p(m.trades), 1500})

\* profit_factor or 0.0
KnownFactor(m) == IF m.pf = NoLosses THEN 0 ELSE m.pf

\* V3's and V4's score of the selection period.
SelectionScore(m) ==
  100 * m.ret - 75 * m.drawdown + 10 * Max({0, KnownFactor(m) - 100})

\* What a period asks of a candidate, in V3 and V4.
PassesGate(m, minTrades) ==
  m.ret > 0 /\ KnownFactor(m) > 100 /\ m.trades >= minTrades

-----------------------------------------------------------------------------

\* s in the order of Better, the earlier of two equals first: a stable sort.
Ranked(s, Better(_, _)) ==
  LET place(i) == 1 + Cardinality({j \in DOMAIN s :
                        Better(s[j], s[i]) \/ (~Better(s[i], s[j]) /\ j < i)})
  IN  [k \in DOMAIN s |-> s[CHOOSE i \in DOMAIN s : place(i) = k]]

SumOf(s) == FoldSeq(LAMBDA x, sum : x + sum, 0, s)

\* Twice the median.
Median2(s) ==
  LET sorted == Ranked(s, LAMBDA x, y : x < y)
  IN  sorted[(Len(s) + 1) \div 2] + sorted[Len(s) \div 2 + 1]

CountOf(s, Test(_)) == Len(SelectSeq(s, Test))

Smallest(s) == Min(Range(s))

\* Of n, at least so many percent.
AtLeast(count, n, percent) == 100 * count >= percent * n

=============================================================================
