---------------------------- MODULE PeriodSearch ----------------------------
(***************************************************************************)
(* scripts/run_weekly_growth_v3_research.py and _v4_research.py: main.     *)
(* Every combination of the grid is tried on the development year; those   *)
(* that pass are tried on the selection year; the best of those that pass  *)
(* again is tried once on the holdout.  V3 tries them one after the other, *)
(* V4 gives them to a pool of processes and takes the results as they      *)
(* complete.  V4's backtest raises at the first signal it would enter on:  *)
(* simulate keeps a signal as a tuple and reads it as a dictionary.        *)
(***************************************************************************)
EXTENDS ResearchMetrics

CONSTANTS
  Configs,             \* the grid, in its order
  Workers,             \* of the pool; one for V3
  MinTrainTrades, MinSelectionTrades,
  SignalsRaise,        \* whether a backtest fails at its first signal
  Results              \* what a backtest may return

VARIABLES
  phase,
  submitted,           \* how many of the grid have been started
  running,             \* those that have not completed
  candidates,          \* the valid ones, as they completed
  best                 \* what was selected: a sequence of one, or none

\* The periods are parts of one file; each of them needs its candles.
Split(enough) ==
  /\ phase = "split"
  /\ phase' = IF enough THEN "search" ELSE "stopped"
  /\ UNCHANGED <<submitted, running, candidates, best>>

Start ==
  /\ phase = "search"
  /\ submitted < Len(Configs) /\ Cardinality(running) < Workers
  /\ submitted' = submitted + 1
  /\ running' = running \cup {Configs[submitted + 1]}
  /\ UNCHANGED <<phase, candidates, best>>

Candidate(c, selection) == [config |-> c, score |-> SelectionScore(selection)]

\* Where signals raise, a backtest that returns has entered nothing.
Returned == IF SignalsRaise THEN {r \in Results : r.trades = 0} ELSE Results

\* One combination: the selection year is not looked at unless the
\* development year is passed.
Complete(c) ==
  /\ phase = "search" /\ c \in running
  /\ running' = running \ {c}
  /\ \E train \in Returned, selection \in Returned :
       candidates' = IF PassesGate(train, MinTrainTrades)
                          /\ PassesGate(selection, MinSelectionTrades)
                     THEN Append(candidates, Candidate(c, selection))
                     ELSE candidates
  /\ UNCHANGED <<phase, submitted, best>>

\* An exception in one process of the pool is raised again where its result is
\* asked for, and ends the script with everything the others found.
CompleteRaises(c) ==
  /\ SignalsRaise
  /\ phase = "search" /\ c \in running
  /\ running' = running \ {c}
  /\ phase' = "stopped"
  /\ UNCHANGED <<submitted, candidates, best>>

SearchDone == submitted = Len(Configs) /\ running = {}

\* Mutant of Ranking: the results are taken as they came.
UnrankedRanking == candidates

Ranking == Ranked(candidates, LAMBDA x, y : x.score > y.score)

Select ==
  /\ phase = "search" /\ SearchDone
  /\ IF candidates = <<>> THEN phase' = "stopped" /\ UNCHANGED best
     ELSE phase' = "holdout" /\ best' = <<Ranking[1].config>>
  /\ UNCHANGED <<submitted, running, candidates>>

Holdout ==
  /\ phase = "holdout"
  /\ phase' = "done"
  /\ UNCHANGED <<submitted, running, candidates, best>>

SearchNext ==
  \/ \E enough \in BOOLEAN : Split(enough)
  \/ Start
  \/ \E c \in ToSet(Configs) : Complete(c) \/ CompleteRaises(c)
  \/ Select
  \/ Holdout

=============================================================================
