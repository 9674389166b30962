------------------------------ MODULE Research ------------------------------
(***************************************************************************)
(* A study of the research scripts: V3 or V4 over three periods, or the    *)
(* jobs of the V5 workflow (.github/workflows/v5-research.yml), where the  *)
(* optimizer, the walk-forward, the robustness analyzer and the validator  *)
(* run one after the other, each from the files of those before.           *)
(***************************************************************************)
EXTENDS WalkForward, ResearchVerdicts

CONSTANTS
  Studies,                 \* of v3, v4, v5
  Results,                 \* what V3's and V4's backtests may return
  Defects                  \* the sets of package checks that may fail

VARIABLES
  study,
  submitted, running, candidates, best,      \* of v3 and v4
  optimized,               \* what the optimizer selected
  judged                   \* the verdicts of the analyzer and the validator

searchVars == <<submitted, running, candidates, best>>
walkVars == <<inputs, window, windowVars, rows, journals, failed>>
jobVars == <<optimized, judged>>
vars == <<study, phase, searchVars, walkVars, jobVars>>

V3 == INSTANCE PeriodSearch WITH
        Workers <- 1, MinTrainTrades <- 10, MinSelectionTrades <- 8, SignalsRaise <- FALSE
V4 == INSTANCE PeriodSearch WITH
        Workers <- 2, MinTrainTrades <- 8, MinSelectionTrades <- 6, SignalsRaise <- TRUE

ASSUME ResearchAssumption ==
  /\ Studies \subseteq {"v3", "v4", "v5"}
  /\ Configs \in Seq(ToSet(Configs)) /\ Configs # <<>> /\ IsInjective(Configs)
  /\ MaxCandidates \in Nat \ {0} /\ TopN \in Nat
  /\ \A r \in Results : IsWeeklyResult(r)
  /\ \A r \in TrainResults \cup ValidationResults \cup TestResults : IsV5Result(r)
  /\ \A r \in TrainResults \cup ValidationResults : RobustScore(r) \in Int
  /\ Defects \subseteq SUBSET (ErrorChecks \cup WarningChecks)

Unjudged == [analysis |-> <<>>, final |-> "NONE"]

Init ==
  /\ study \in Studies
  /\ phase = IF study = "v5" THEN "optimize" ELSE "split"
  /\ submitted = 0 /\ running = {} /\ candidates = <<>> /\ best = <<>>
  /\ chosen \in IF study = "v5" THEN WindowChoices ELSE {{}}
  /\ dataEnd \in IF study = "v5" THEN DataEnds ELSE {0}
  /\ window = 1
  /\ training = <<>> /\ validation = <<>> /\ rows = <<>> /\ journals = {} /\ failed = <<>>
  /\ optimized = <<>>
  /\ judged = Unjudged

\* The optimizer's job: a candidate whose backtest raises is set aside; without
\* any other the job fails, and with it those that need it.
Optimize ==
  /\ phase = "optimize"
  /\ \E raised \in SUBSET (1..Len(Tested)), r \in Results :
       LET found == SelectSeq([i \in DOMAIN Tested |->
                       [number |-> i, config |-> Tested[i], metrics |-> Extracted(r)]],
                       LAMBDA x : x.number \notin raised)
       IN  IF found = <<>> THEN phase' = "stopped" /\ UNCHANGED optimized
           ELSE /\ \E x \in SelectBest(found) : optimized' = <<x.config>>
                /\ phase' = "window"
  /\ UNCHANGED <<searchVars, walkVars, judged>>

\* The analyzer's job: without the CSV it fails.
Analyze ==
  /\ phase = "report"
  /\ IF rows = <<>> THEN phase' = "stopped" /\ UNCHANGED judged
     ELSE /\ judged' = [judged EXCEPT !.analysis = <<BuildVerdict(rows)>>]
          /\ phase' = "analyzed"
  /\ UNCHANGED <<searchVars, walkVars, optimized>>

\* The journals in the package: those of the rows, and what failures left.
Journals == {rows[i].test : i \in DOMAIN rows} \cup journals

\* The validator's job, on the package of the files.
Judge ==
  /\ phase = "analyzed"
  /\ \E verdict \in {DetermineVerdict(rows, journal, Failures(rows, journal, defects),
                                        judged.analysis[1].verdict) :
                       defects \in Defects, journal \in Journals} :
       judged' = [judged EXCEPT !.final = verdict]
  /\ phase' = "done"
  /\ UNCHANGED <<searchVars, walkVars, optimized>>

Next ==
  /\ \/ study = "v3" /\ V3!SearchNext /\ UNCHANGED <<walkVars, jobVars>>
     \/ study = "v4" /\ V4!SearchNext /\ UNCHANGED <<walkVars, jobVars>>
     \/ study = "v5" /\ WalkForwardNext /\ UNCHANGED <<searchVars, jobVars>>
     \/ study = "v5" /\ Optimize
     \/ study = "v5" /\ Analyze
     \/ study = "v5" /\ Judge
  /\ UNCHANGED study

Spec == Init /\ [][Next]_vars

\* The scripts are run to their end.
FairSpec == Spec /\ WF_vars(Next)

-----------------------------------------------------------------------------
(* What a study must guarantee                                             *)

InGrid(c) == CHOOSE i \in DOMAIN Configs : Configs[i] = c

\* What is selected is the best of what was compared: V3 takes the best of its
\* candidates, and of equals the first in the grid; a window locks the best of
\* those it validated, and one that was traded often enough in its training to
\* be scored (V3 main; v5_walk_forward.py:1306).  V4 selects nothing: its search
\* ends with the first signal (run_weekly_growth_v4_research.py:1580, 2653).
SelectedIsBest ==
  /\ phase \in {"holdout", "done"} /\ study # "v5" =>
       \E i \in DOMAIN candidates :
         /\ candidates[i].config = best[1]
         /\ \A j \in DOMAIN candidates :
              /\ candidates[j].score <= candidates[i].score
              /\ study = "v3" /\ candidates[j].score = candidates[i].score
                   => InGrid(candidates[j].config) >= InGrid(best[1])
  /\ phase = "test" =>
       /\ \A j \in DOMAIN validation : validation[j].score <= validation[1].score
       /\ \E i \in DOMAIN training :
            training[i].config = Locked /\ training[i].score > TooFewTrades

\* Two programs judge the same windows by rules of their own: of two windows or
\* more, the validator never finds promising what the analyzer found unstable
\* or not robust (v5_robustness_analyzer.py:539-613,
\* v5_results_validator.py:1343-1376).
VerdictIsConservative ==
  judged.final \in {"PROMISING", "VALIDATED"} /\ Len(rows) >= 2 =>
    judged.analysis[1].verdict.classification \in {"ROBUST", "PROMISING"}

Accounted == {rows[i].window : i \in DOMAIN rows} \cup Range(failed)

\* A window that fails takes no other with it: once the optimizer has let the
\* walk-forward begin, every window that was asked for is in the end either a
\* row or a failure, and is not both (v5_walk_forward.py:2134-2169).
EveryWindowIsReported ==
  (phase = "window" /\ window = 1) ~>
    (/\ phase \in {"done", "stopped"}
     /\ Accounted = chosen /\ Len(rows) + Len(failed) = Cardinality(chosen))

=============================================================================
