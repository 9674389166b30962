---------------------------- MODULE WalkForward ----------------------------
(***************************************************************************)
(* scripts/v5_walk_forward.py.  Each window trains the grid on one period, *)
(* validates the best of it on the next, locks the best of these and       *)
(* measures it once on the period after.  A window that fails is noted and *)
(* the next one is run.                                                    *)
(*                                                                         *)
(* Before it, scripts/v5_optimizer.py runs the whole grid on the whole     *)
(* file.  What it reads of a backtest are named entries of a dictionary,   *)
(* or attributes; the engine returns a tuple, which has none of them.      *)
(*                                                                         *)
(* Periods are sets of months, numbered from January 2024.                 *)
(***************************************************************************)
EXTENDS ResearchMetrics

CONSTANTS
  Configs,             \* parameter_grid, in its order
  MaxCandidates,       \* --max-candidates, or the length of the grid
  TopN,                \* --top-n
  WindowChoices,       \* what --window may select: sets of window numbers
  DataEnds,            \* the last month the file has: one of these
  TrainResults, ValidationResults, TestResults,
  LogRatio(_)          \* hundredths of ln(1 + x / 100)

VARIABLES
  phase,
  chosen,              \* the windows asked for
  dataEnd,
  window,              \* the number of the current window
  training,            \* training_records, best first
  validation,          \* validation_records, best first
  rows,                \* window_results: what the CSV will hold
  journals,            \* what the journals of failed windows hold
  failed               \* failed_windows

windowVars == <<training, validation>>
inputs == <<chosen, dataEnd>>

-----------------------------------------------------------------------------
(* v5_optimizer.py                                                         *)

\* extract_metric and extract_trades of what run_backtest returns: nothing is
\* found, and every figure is its default.
Extracted(result) ==
  [trades |-> 0, ret |-> 0, pf |-> 0, expectancy |-> 0, drawdown |-> 0, consistency |-> 50]

\* evaluate_candidate's score, in hundredths: the growth of the balance within
\* two, the factor, the expectancy, the consistency, the sample and the
\* drawdown with their weights.
CandidateScore(m) ==
  (45 * Clip(LogRatio(m.ret), -200, 200) + 10 * (Clip(m.pf, 0, 300) - 100)
     + 10 * Clip(m.expectancy, -100, 100) + 10 * m.consistency
     + 100 * Max({k \in 0..10 : k * k <= m.trades}) - 20 * Clip(2 * m.drawdown, 0, 100)) \div 100

BetterCandidate(x, y) ==
  LET key(r) == <<CandidateScore(r.metrics), r.metrics.pf, r.metrics.ret, r.metrics.expectancy>>
  IN  \E i \in 1..4 : key(x)[i] > key(y)[i] /\ \A j \in 1..(i - 1) : key(x)[j] = key(y)[j]

\* The candidates are first sorted by score with a sort that is not stable:
\* of equals, any may be the one that is selected.
SelectBest(found) == {x \in Range(found) : ~\E y \in Range(found) : BetterCandidate(y, x)}

-----------------------------------------------------------------------------
(* v5_walk_forward.py                                                      *)

Window(train, valid, test) == [train |-> train, validation |-> valid, test |-> test]

BuildWindows ==
  <<Window(1..9, 10..15, 16..21), Window(1..15, 16..21, 22..27),
    Window(1..21, 22..27, 28..33), Window(1..24, 25..27, 28..33)>>

Current == BuildWindows[window]

FilterPeriod(period) == period \cap (1..dataEnd)

\* A month has more candles than the smallest sample asked for.
HasRows(w) ==
  \A p \in {w.train, w.validation, w.test} : FilterPeriod(p) # {}

Tested == SubSeq(Configs, 1, Min({MaxCandidates, Len(Configs)}))

ToNextWindow == window' = window + 1 /\ phase' = "window"

\* Mutant of WindowFails: the exception ends the walk.
WindowRaises ==
  /\ phase' = "stopped"
  /\ UNCHANGED <<window, windowVars, rows, failed>>

\* An exception anywhere in a window: it is noted, and the loop goes on.
WindowFails ==
  /\ failed' = Append(failed, window)
  /\ training' = <<>> /\ validation' = <<>>
  /\ ToNextWindow
  /\ UNCHANGED rows

SkipWindow ==
  /\ phase = "window" /\ window <= Len(BuildWindows) /\ window \notin chosen
  /\ ToNextWindow
  /\ UNCHANGED <<inputs, windowVars, rows, journals, failed>>

BeginWindow ==
  /\ phase = "window" /\ window <= Len(BuildWindows) /\ window \in chosen
  /\ IF HasRows(Current)
     THEN phase' = "train" /\ UNCHANGED <<window, windowVars, rows, failed>>
     ELSE WindowFails
  /\ UNCHANGED <<inputs, journals>>

Record(c, result) == [config |-> c, score |-> RobustScore(result), result |-> result]

\* evaluate_training_candidates keeps what has a score, best first.
TrainingRecords(results) ==
  LET scored == [i \in DOMAIN Tested |-> Record(Tested[i], results[i])]
      kept == FoldLeft(LAMBDA so, x : IF x.score > TooFewTrades + 100 THEN Append(so, x) ELSE so,
                       <<>>, scored)
  IN  Ranked(kept, LAMBDA x, y : x.score > y.score)

\* The window fails where a backtest raises, and where none has a score.
Train ==
  /\ phase = "train"
  /\ \/ WindowFails
     \/ \E results \in [DOMAIN Tested -> TrainResults] :
          /\ TrainingRecords(results) # <<>>
          /\ training' = TrainingRecords(results)
          /\ phase' = "validate"
          /\ UNCHANGED <<window, validation, rows, failed>>
  /\ UNCHANGED <<inputs, journals>>

Finalists == SubSeq(training, 1, Min({TopN, Len(training)}))

\* Score, then profit factor, then return, then the smaller drawdown.
BetterValidated(x, y) ==
  LET key(r) == <<r.score, r.result.pf, r.result.ret, -r.result.drawdown>>
  IN  \E i \in 1..4 : key(x)[i] > key(y)[i] /\ \A j \in 1..(i - 1) : key(x)[j] = key(y)[j]

\* No score is too low here.
ValidationRecords(results) ==
  Ranked([i \in DOMAIN Finalists |-> Record(Finalists[i].config, results[i])],
         BetterValidated)

\* The window fails where a backtest raises, and where there is no finalist.
Validate ==
  /\ phase = "validate"
  /\ \/ WindowFails
     \/ \E results \in [DOMAIN Finalists -> ValidationResults] :
          /\ ValidationRecords(results) # <<>>
          /\ validation' = ValidationRecords(results)
          /\ phase' = "test"
          /\ UNCHANGED <<window, training, rows, failed>>
  /\ UNCHANGED <<inputs, journals>>

\* The configuration of the first record is locked.
Locked == validation[1].config

\* The same backtest has the same result.
Measurable(r) ==
  \A i \in DOMAIN rows :
    rows[i].config = Locked /\ BuildWindows[rows[i].window].test = Current.test
      => rows[i].test = r

\* The backtest of what was locked, and the files of the window.
Test ==
  /\ phase = "test"
  /\ \E r \in {r \in TestResults : Measurable(r)} :
       rows' = Append(rows, [window |-> window, config |-> Locked, test |-> r])
  /\ training' = <<>> /\ validation' = <<>>
  /\ ToNextWindow
  /\ UNCHANGED <<inputs, journals, failed>>

\* The backtest raises, or a file cannot be written; by then the journal of the
\* test may lie there, the whole of it or a part.
TestFails ==
  /\ phase = "test"
  /\ \E left \in {{}} \cup {{r} : r \in TestResults} : journals' = journals \cup left
  /\ WindowFails
  /\ UNCHANGED inputs

\* The CSV is written if there is a row to write; failed windows are a warning.
Report ==
  /\ phase = "window" /\ window > Len(BuildWindows)
  /\ phase' = "report"
  /\ UNCHANGED <<inputs, window, windowVars, rows, journals, failed>>

WalkForwardNext ==
  SkipWindow \/ BeginWindow \/ Train \/ Validate \/ Test \/ TestFails \/ Report

=============================================================================
