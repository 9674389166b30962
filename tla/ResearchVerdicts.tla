-------------------------- MODULE ResearchVerdicts --------------------------
(***************************************************************************)
(* The two programs that judge a walk-forward: v5_robustness_analyzer.py,  *)
(* which reads its windows, and v5_results_validator.py, which reads the   *)
(* package of all that the jobs left.                                      *)
(***************************************************************************)
EXTENDS ResearchMetrics

Returns(rows) == [i \in DOMAIN rows |-> rows[i].test.ret]
Factors(rows) == [i \in DOMAIN rows |-> rows[i].test.pf]

Positive(rows) == CountOf(rows, LAMBDA r : r.test.ret > 0)
AboveOne(rows) == CountOf(rows, LAMBDA r : r.test.pf > 100)
AverageFactorAboveOne(rows) == SumOf(Factors(rows)) > 100 * Len(rows)
MedianPositive(rows) == Median2(Returns(rows)) > 0

-----------------------------------------------------------------------------
(* v5_robustness_analyzer.py                                               *)

Strong(rows) ==
  /\ Len(rows) >= 3
  /\ AtLeast(Positive(rows), Len(rows), 75)
  /\ AtLeast(AboveOne(rows), Len(rows), 75)
  /\ MedianPositive(rows)
  /\ Smallest(Returns(rows)) > -10
  /\ Smallest(Factors(rows)) > 90

Promising(rows) ==
  /\ Len(rows) >= 2
  /\ AtLeast(Positive(rows), Len(rows), 50)
  /\ AverageFactorAboveOne(rows) /\ MedianPositive(rows)

Unstable(rows) ==
  AverageFactorAboveOne(rows) /\ MedianPositive(rows) /\ Smallest(Returns(rows)) < -10

ClassifyRobustness(rows) ==
  CASE Strong(rows) -> "ROBUST"
    [] ~Strong(rows) /\ Promising(rows) -> "PROMISING"
    [] ~Strong(rows) /\ ~Promising(rows) /\ Unstable(rows) -> "UNSTABLE"
    [] OTHER -> "NOT_ROBUST"

\* What is best on average return, then on average profit factor, of the
\* values a field of the configurations takes.
GroupRows(rows, field, v) == SelectSeq(rows, LAMBDA r : r.config[field] = v)

BetterGroup(g, h) ==
  LET ret(x) == SumOf(Returns(x))  pf(x) == SumOf(Factors(x))
  IN  \/ ret(g) * Len(h) > ret(h) * Len(g)
      \/ ret(g) * Len(h) = ret(h) * Len(g) /\ pf(g) * Len(h) > pf(h) * Len(g)

Strongest(rows, field) ==
  LET values == {rows[i].config[field] : i \in DOMAIN rows}
  IN  CHOOSE v \in values :
        \A u \in values : ~BetterGroup(GroupRows(rows, field, u), GroupRows(rows, field, v))

AnalyzeStrategyFamilies(rows) == Strongest(rows, "family")
AnalyzeRegimes(rows) == Strongest(rows, "regime")

\* The report: "verdict" holds a structure with the classification in it.
BuildVerdict(rows) ==
  [verdict |-> [classification |-> ClassifyRobustness(rows),
                family |-> AnalyzeStrategyFamilies(rows),
                regime |-> AnalyzeRegimes(rows)]]

-----------------------------------------------------------------------------
(* v5_results_validator.py                                                 *)

\* The checks of the package that are not about the windows, and what a
\* failure counts as.
ErrorChecks ==
  {"trade_journal_read", "trade_pnl_values", "lot_sizes", "xauusd_pnl_reconstruction",
   "market_timestamps", "market_timestamp_order", "market_duplicate_timestamps",
   "market_numeric_values", "ohlc_structure"}
WarningChecks ==
  {"trade_journal", "equity_curve", "accounting_reconciliation", "market_data",
   "lookahead_column_scan"}

\* The walk-forward's own: the only error is a total loss.
WindowErrors(rows) == IF Smallest(Returns(rows)) <= -100 THEN {"worst_test_return"} ELSE {}
WindowWarnings(rows) ==
  (IF AtLeast(Positive(rows), Len(rows), 50) THEN {} ELSE {"positive_test_windows"})
    \cup (IF MedianPositive(rows) THEN {} ELSE {"median_test_return"})

\* The journal that is found first is the one of some window, of one that
\* failed as well as of any other; without a trade the file has no columns, and
\* cannot be read.  The walk-forward leaves no equity curve, so that it cannot
\* be reconciled with the trades.
JournalFailures(journal) == IF journal.trades = 0 THEN {"trade_journal_read"} ELSE {}

Failures(rows, journal, defects) ==
  defects \cup JournalFailures(journal) \cup WindowErrors(rows) \cup WindowWarnings(rows)
    \cup {"equity_curve", "accounting_reconciliation"}

Errors(failures) == failures \cap (ErrorChecks \cup {"worst_test_return"})

\* The report's "verdict" as text, in capitals: a structure is the text of all
\* of it, which is no classification.
TextOf(verdict) == "STRUCTURE"

\* Without a factor in the windows, the one of the journal.
FactorAboveOne(rows, journal) ==
  IF SumOf(Factors(rows)) = 0 THEN journal.pf > 100 ELSE AverageFactorAboveOne(rows)

\* Mutant of DetermineVerdict: the median is not asked for.
VerdictWithoutMedian(rows, journal, failures, robustness) ==
  CASE Errors(failures) # {} -> "INVALID_RESULTS"
    [] Errors(failures) = {} /\ AtLeast(Positive(rows), Len(rows), 50)
         /\ FactorAboveOne(rows, journal) -> "PROMISING"
    [] OTHER -> "UNSTABLE_EDGE"

DetermineVerdict(rows, journal, failures, robustness) ==
  LET positive(percent) == AtLeast(Positive(rows), Len(rows), percent)
      median == MedianPositive(rows)
      factor == FactorAboveOne(rows, journal)
  IN  IF Errors(failures) # {} THEN "INVALID_RESULTS"
      ELSE IF TextOf(robustness) = "ROBUST" /\ positive(60) /\ median /\ factor
      THEN "VALIDATED"
      ELSE IF positive(50) /\ median /\ factor THEN "PROMISING"
      ELSE IF positive(40) \/ median \/ factor THEN "UNSTABLE_EDGE"
      ELSE IF failures # {} THEN "INSUFFICIENT_EVIDENCE" ELSE "NO_VALIDATED_EDGE"

=============================================================================
