----------------------- MODULE PaperPositions_proofs -----------------------
(***************************************************************************)
(* Proofs about the persistent paper positions, for every set of           *)
(* positions, prices, proposals and every configuration the assumptions of *)
(* the modules allow, and whoever runs: the workers of the process and the *)
(* endpoint's thread.  Any of them may commit what it made of a row it     *)
(* read long ago; what a commit can still do to the table (SharedEffect)   *)
(* follows from what the reader knew was true of the row when it was read. *)
(***************************************************************************)
EXTENDS PaperRequirements, TLAPS, WellFoundedInduction

Snapshots == [direction : Directions, entry : Int, price : Int, quantity : Int,
              stop : Int, target : Int, breakEven : BOOLEAN, reduced : BOOLEAN]

AutoInputs == [direction : Directions, entry : Int, price : Int, stop : Int,
               target : Int, initialStop : Int, strength : Strengths]

-----------------------------------------------------------------------------
(* Facts about the operators                                               *)

\* Positions are numbered, so a set of them to walk over has an oldest one.
LEMMA OldestMember ==
  ASSUME NEW S \in SUBSET Positions, S # {}
  PROVE  /\ Oldest(S) \in S
         /\ \A q \in S : Oldest(S) <= q
<1>1. S \subseteq Nat
  BY TradeAssumption
<1>2. PICK p \in S : \A q \in S : ~(<<q, p>> \in OpToRel(<, Nat))
  BY <1>1, WFMin, NatLessThanWellFounded, Zenon
<1>3. \A q \in S : ~(q < p)
  BY <1>1, <1>2 DEF OpToRel
<1>4. \A q \in S : p <= q
  BY <1>1, <1>3
<1>5. QED
  BY <1>4 DEF Oldest

\* The advanced manager always answers with one of its decisions, and a
\* partial close it asks for has a positive quantity.
LEMMA AdvancedDecision ==
  ASSUME NEW s \in Snapshots
  PROVE  /\ AdvancedEvaluate(s) \in Decisions
         /\ AdvancedEvaluate(s).act = "partial_close" =>
              AdvancedEvaluate(s).quantity > 0
<1>1. /\ TrailingStop(s) \in Int
      /\ BreakEvenStop(s) \in Int
      /\ PartialCloseQuantity(s) \in Int
  BY ConfigAssumption
  DEF Snapshots, Directions, TrailingStop, BreakEvenStop, Shift, PartialCloseQuantity
<1>2. PartialCloseDue(s) => PartialCloseQuantity(s) > 0
  BY DEF PartialCloseDue
<1>3. QED
  BY <1>1, <1>2 DEF AdvancedEvaluate, Decisions, Decision, Hold

\* The automatic manager's decision carries integer levels.
LEMMA AutomaticDecision ==
  ASSUME NEW a \in AutoInputs
  PROVE  AutomaticEvaluate(a).stop \in Int /\ AutomaticEvaluate(a).target \in Int
<1>1. LockedStop(a) \in Int /\ AutoTrailingStop(a) \in Int
  BY ConfigAssumption
  DEF AutoInputs, Directions, LockedStop, AutoTrailingStop, Shift, Distance
<1>2. CandidateStop(a) \in Int
  BY <1>1 DEF CandidateStop, Tighter
<1>3. CandidateTarget(a) \in Int
  BY ConfigAssumption
  DEF AutoInputs, Directions, CandidateTarget, Tighter, Shift
<1>4. QED
  BY <1>2, <1>3 DEF AutomaticEvaluate, AutoDecision, AutoInputs

\* Profits are integers.
LEMMA PnlType ==
  ASSUME NEW t \in Terms, NEW x \in Int, NEW q \in Int
  PROVE  Pnl(t, x, q) \in Int
BY TradeAssumption DEF Terms, Directions, Pnl, Move

\* A commit of a session leaves a row of the table.
LEMMA MergeType ==
  ASSUME NEW current \in Rows, NEW old \in Rows, NEW new \in Rows
  PROVE  Merge(current, old, new) \in Rows
BY DEF Merge, Rows

\* A session whose copy is current writes exactly what it holds.
LEMMA MergeFresh ==
  ASSUME NEW old \in Rows, NEW new \in Rows
  PROVE  Merge(old, old, new) = new
BY DEF Merge, Rows

\* Setting one column of a row gives a row.
LEMMA SetColumn ==
  ASSUME NEW r \in Rows
  PROVE  /\ [r EXCEPT !.status = "closed"] \in Rows
         /\ \A n \in Int : /\ [r EXCEPT !.left = n] \in Rows
                           /\ [r EXCEPT !.stop = n] \in Rows
                           /\ [r EXCEPT !.target = n] \in Rows
                           /\ [r EXCEPT !.price = n] \in Rows
                           /\ [r EXCEPT !.pnl = n] \in Rows
         /\ [r EXCEPT !.breakEven = TRUE] \in Rows
         /\ \A v \in Reductions : [r EXCEPT !.reduced = v] \in Rows
BY DEF Rows

\* What the handlers make of a row is again a row.
LEMMA RowTypes ==
  ASSUME NEW t \in Terms, NEW r \in Rows, NEW x \in Int
  PROVE  /\ Marked(t, r, x) \in Rows
         /\ Closed(t, r, x) \in Rows
         /\ \A d \in Decisions : Managed(t, r, d, x) \in Rows
<1>1. /\ Pnl(t, x, r.left) \in Int
      /\ \A d \in Decisions : Pnl(t, x, d.quantity) \in Int
  BY PnlType DEF Rows, Decisions
<1>2. Marked(t, r, x) \in Rows
  BY <1>1, SetColumn, Zenon DEF Marked
<1>3. Closed(t, r, x) \in Rows
  <2>1. [r EXCEPT !.status = "closed"] \in Rows
    BY SetColumn, Zenon
  <2>2. [r EXCEPT !.status = "closed", !.left = 0] \in Rows
    <3>1. 0 \in Int
      OBVIOUS
    <3>2. QED
      BY <2>1, <3>1, SetColumn, Zenon
  <2>3. [r EXCEPT !.status = "closed", !.left = 0, !.price = x] \in Rows
    BY <2>2, SetColumn, Zenon
  <2>4. QED
    BY <1>1, <2>3, SetColumn, Zenon DEF Closed
<1>4. ASSUME NEW d \in Decisions
      PROVE  Managed(t, r, d, x) \in Rows
  <2>1. Reduced(t, r, d.quantity, x) \in Rows
    <3>1. [r EXCEPT !.left = @ - d.quantity] \in Rows
      BY SetColumn DEF Rows, Decisions
    <3>2. [quantity |-> d.quantity, price |-> x,
           pnl |-> r.reduced.pnl + Pnl(t, x, d.quantity)] \in Reductions
      BY <1>1 DEF Rows, Reductions, Decisions
    <3>3. QED
      BY <3>1, <3>2, SetColumn, Zenon DEF Reduced
  <2>2. [r EXCEPT !.stop = d.stop] \in Rows
    BY SetColumn DEF Decisions
  <2>3. [r EXCEPT !.stop = d.stop, !.breakEven = TRUE] \in Rows
    BY <2>2, SetColumn, Zenon
  <2>4. QED
    BY <2>1, <2>2, <2>3, Zenon DEF Managed
<1>5. QED
  BY <1>2, <1>3, <1>4

LEMMA ProposalType == Proposals \subseteq Terms
BY TradeAssumption DEF IsProposal, Terms

LEMMA SessionType ==
  ASSUME NEW ph \in {"idle", "lifecycle", "manage", "act"}, NEW x \in Int,
         NEW S \in SUBSET Positions, NEW sn \in [Positions -> Rows],
         NEW e \in BOOLEAN, NEW d \in Decisions
  PROVE  Session(ph, x, S, sn, e, d) \in Sessions
BY DEF Session, Sessions

LEMMA AutoCycleType ==
  ASSUME NEW ph \in {"idle", "await", "apply"}, NEW x \in Int,
         NEW st \in Strengths, NEW S \in SUBSET Positions,
         NEW sn \in [Positions -> Rows], NEW e \in BOOLEAN
  PROVE  AutoCycle(ph, x, st, S, sn, e) \in AutoCycles
BY DEF AutoCycle, AutoCycles

\* What the variables start from.
LEMMA EmptyTypes ==
  /\ NoTerms \in Terms /\ NoRow \in Rows /\ NoSnapshot \in [Positions -> Rows]
  /\ Hold \in Decisions /\ IdleSession \in Sessions /\ IdleAuto \in AutoCycles
  /\ \A t \in Terms : NewRow(t) \in Rows
<1>1. NoTerms \in Terms /\ Hold \in Decisions
  BY DEF NoTerms, Terms, Directions, Hold, Decision, Decisions
<1>2. NoRow \in Rows /\ \A t \in Terms : NewRow(t) \in Rows
  BY DEF Terms, NoRow, Rows, Reductions, NotReduced, NewRow
<1>3. NoSnapshot \in [Positions -> Rows]
  BY <1>2 DEF NoSnapshot
<1>4. IdleSession \in Sessions /\ IdleAuto \in AutoCycles
  BY <1>1, <1>3
  DEF IdleSession, Session, Sessions, IdleAuto, AutoCycle, AutoCycles, Strengths
<1>5. QED
  BY <1>1, <1>2, <1>3, <1>4

\* The snapshot the manager decides on, and the automatic manager's input.
LEMMA SnapshotType ==
  ASSUME NEW t \in Terms, NEW r \in Rows, NEW x \in Int
  PROVE  SnapshotOf(t, r, x) \in Snapshots
BY DEF SnapshotOf, Snapshots, Terms, Rows, Reductions

-----------------------------------------------------------------------------
(* Type correctness                                                        *)

LEMMA LoadedType ==
  ASSUME TypeOK
  PROVE  Loaded \in [Positions -> Rows] /\ OpenPositions \in SUBSET Positions
BY EmptyTypes DEF TypeOK, Loaded, OpenPositions

LEMMA SeenType ==
  ASSUME TypeOK, NEW a \in Actors, NEW p \in Positions
  PROVE  Seen(a, p) \in Rows
BY DEF TypeOK, Seen, Sessions

\* A session a that has something to do: its oldest position, and what it
\* knows of it.
LEMMA OldestType ==
  ASSUME TypeOK, NEW a \in Actors, sess[a].todo # {}
  PROVE  /\ Oldest(sess[a].todo) \in Positions
         /\ sess[a].price \in Int
         /\ sess[a].decision \in Decisions
         /\ sess[a].snap \in [Positions -> Rows]
         /\ sess[a].expired \in BOOLEAN
         /\ sess[a].todo \in SUBSET Positions
BY OldestMember DEF TypeOK, Sessions

LEMMA AdvanceType ==
  ASSUME TypeOK, NEW a \in Actors, NEW w \in BOOLEAN, Advance(a, w)
  PROVE  sess' \in [Actors -> Sessions]
<1>1. /\ sess[a].phase \in {"idle", "lifecycle", "manage", "act"}
      /\ sess[a].price \in Int
      /\ sess[a].todo \ {Oldest(sess[a].todo)} \in SUBSET Positions
      /\ (IF w THEN NoSnapshot ELSE sess[a].snap) \in [Positions -> Rows]
      /\ (sess[a].expired \/ w) \in BOOLEAN
      /\ Hold \in Decisions
  BY EmptyTypes DEF TypeOK, Sessions
<1>2. Session(sess[a].phase, sess[a].price, sess[a].todo \ {Oldest(sess[a].todo)},
              IF w THEN NoSnapshot ELSE sess[a].snap, sess[a].expired \/ w, Hold)
        \in Sessions
  BY <1>1, SessionType
<1>3. QED
  BY <1>2 DEF Advance, TypeOK

LEMMA CommitType ==
  ASSUME TypeOK, NEW p \in Positions, NEW old \in Rows, NEW new \in Rows,
         Commit(p, old, new)
  PROVE  row' \in [Positions -> Rows]
BY MergeType DEF Commit, TypeOK

\* A session about to act on a decision has a position to act on.
ActHasPosition == \A a \in Actors : sess[a].phase = "act" => sess[a].todo # {}

LEMMA TypeInit == Init => TypeOK /\ ActHasPosition
<1>1. Init => TypeOK
  BY EmptyTypes, CountAssumption DEF Init, TypeOK
<1>2. Init => ActHasPosition
  BY DEF Init, IdleSession, Session, ActHasPosition
<1>3. QED
  BY <1>1, <1>2

\* One step per action; the frame conditions take care of the rest.
LEMMA TypeStep == TypeOK /\ ActHasPosition /\ [Next]_vars => TypeOK'
<1> SUFFICES ASSUME TypeOK, ActHasPosition, [Next]_vars
             PROVE  TypeOK'
  OBVIOUS
<1> USE DEF TypeOK
<1>1. ASSUME NEW t \in Proposals, Execute(t)
      PROVE  TypeOK'
  BY <1>1, ProposalType DEF Execute
<1>2. CASE CreatePosition
  <2>1. NewRow(terms[entry]) \in Rows
    BY <1>2, EmptyTypes DEF CreatePosition
  <2>2. QED
    BY <1>2, <2>1 DEF CreatePosition
<1>3. CASE CreateFails
  BY <1>3 DEF CreateFails, data
<1>4. ASSUME NEW x \in Prices, MarketQuote(x)
      PROVE  TypeOK'
  <2>1. Session("lifecycle", x, OpenPositions, Loaded, FALSE, Hold) \in Sessions
    <3>1. x \in Int
      BY TradeAssumption
    <3>2. QED
      BY <3>1, SessionType, LoadedType, EmptyTypes
  <2>2. QED
    BY <1>4, <2>1 DEF MarketQuote, data
<1>5. CASE LifecycleStep
  <2> DEFINE p == Oldest(sess["market"].todo)
             r == Seen("market", p)
             x == sess["market"].price
             new == IF Exits(terms[p], r, x) THEN Closed(terms[p], r, x)
                                             ELSE Marked(terms[p], r, x)
  <2>1. p \in Positions /\ x \in Int
    BY <1>5, OldestType DEF LifecycleStep, Actors
  <2>2. r \in Rows /\ terms[p] \in Terms
    BY <2>1, SeenType DEF Actors
  <2>3. new \in Rows
    BY <2>1, <2>2, RowTypes
  <2>4. row' \in [Positions -> Rows]
    BY <1>5, <2>1, <2>2, <2>3, CommitType DEF LifecycleStep
  <2>5. sess' \in [Actors -> Sessions]
    BY <1>5, AdvanceType DEF LifecycleStep, Actors
  <2>6. QED
    BY <1>5, <2>4, <2>5 DEF LifecycleStep
<1>6. CASE LifecycleDone
  <2>1. Session("manage", sess["market"].price, OpenPositions, Loaded, FALSE, Hold)
          \in Sessions
    BY SessionType, LoadedType, EmptyTypes DEF Sessions, Actors
  <2>2. QED
    BY <1>6, <2>1 DEF LifecycleDone, data
<1>7. ASSUME NEW x \in Prices, ApiRequest(x)
      PROVE  TypeOK'
  <2>1. Session("manage", x, OpenPositions, Loaded, FALSE, Hold) \in Sessions
    <3>1. x \in Int
      BY TradeAssumption
    <3>2. QED
      BY <3>1, SessionType, LoadedType, EmptyTypes
  <2>2. QED
    BY <1>7, <2>1 DEF ApiRequest, data
<1>8. ASSUME NEW a \in Actors, ManagePrice(a)
      PROVE  TypeOK'
  <2> DEFINE p == Oldest(sess[a].todo)
             r == Seen(a, p)
             x == sess[a].price
             d == AdvancedEvaluate(SnapshotOf(terms[p], r, x))
  <2>1. p \in Positions /\ x \in Int /\ sess[a].todo \in SUBSET Positions
    BY <1>8, OldestType DEF ManagePrice
  <2>2. r \in Rows /\ terms[p] \in Terms
    BY <2>1, SeenType
  <2>3. d \in Decisions /\ Marked(terms[p], r, x) \in Rows
    BY <2>1, <2>2, SnapshotType, AdvancedDecision, RowTypes
  <2>4. row' \in [Positions -> Rows]
    BY <1>8, <2>1, <2>2, <2>3, CommitType DEF ManagePrice
  <2>5. sess' \in [Actors -> Sessions]
    <3>1. ASSUME NEW w \in BOOLEAN, Advance(a, w)
          PROVE  sess' \in [Actors -> Sessions]
      BY <3>1, AdvanceType
    <3>2. IdleSession \in Sessions
      BY EmptyTypes
    <3>3. Session("act", x, sess[a].todo, [NoSnapshot EXCEPT ![p] = row'[p]], TRUE, d)
            \in Sessions
      <4>1. [NoSnapshot EXCEPT ![p] = row'[p]] \in [Positions -> Rows]
        BY <2>1, <2>4, EmptyTypes
      <4>2. QED
        BY <2>1, <2>3, <4>1, SessionType
    <3>4. QED
      BY <1>8, <3>1, <3>2, <3>3 DEF ManagePrice
  <2>6. QED
    BY <1>8, <2>4, <2>5 DEF ManagePrice
<1>9. ASSUME NEW a \in Actors, ManageAct(a)
      PROVE  TypeOK'
  <2> DEFINE p == Oldest(sess[a].todo)
             r == sess[a].snap[p]
             d == sess[a].decision
             new == Managed(terms[p], r, d, sess[a].price)
  <2>1. sess[a].todo # {}
    BY <1>9 DEF ManageAct, ActHasPosition
  <2>2. /\ p \in Positions /\ sess[a].price \in Int /\ d \in Decisions
        /\ sess[a].snap \in [Positions -> Rows] /\ sess[a].todo \in SUBSET Positions
    BY <2>1, OldestType
  <2>3. r \in Rows /\ new \in Rows
    BY <2>2, RowTypes
  <2>4. row' \in [Positions -> Rows]
    BY <1>9, <2>2, <2>3, CommitType DEF ManageAct
  <2>5. Session("manage", sess[a].price, sess[a].todo \ {p}, NoSnapshot, TRUE, Hold)
          \in Sessions
    <3>1. sess[a].todo \ {p} \in SUBSET Positions
      BY <2>2
    <3>2. QED
      BY <2>2, <3>1, SessionType, EmptyTypes
  <2>6. sess' \in [Actors -> Sessions]
    BY <1>9, <2>5, EmptyTypes DEF ManageAct
  <2>7. QED
    BY <1>9, <2>4, <2>6 DEF ManageAct
<1>10. ASSUME NEW a \in Actors, ManageDone(a)
       PROVE  TypeOK'
  BY <1>10, EmptyTypes DEF ManageDone, data
<1>11. CASE AutoRead
  <2>1. AutoCycle("await", 0, "neutral", OpenPositions, Loaded, FALSE) \in AutoCycles
    BY LoadedType DEF AutoCycle, AutoCycles, Strengths
  <2>2. QED
    BY <1>11, <2>1 DEF AutoRead, data
<1>12. ASSUME NEW x \in Prices, NEW st \in Strengths, AutoAnalysis(x, st)
       PROVE  TypeOK'
  <2>1. AutoCycle("apply", x, st, auto.todo, auto.snap, FALSE) \in AutoCycles
    <3>1. x \in Int
      BY TradeAssumption
    <3>2. auto.todo \in SUBSET Positions /\ auto.snap \in [Positions -> Rows]
      BY DEF AutoCycles
    <3>3. QED
      BY <3>1, <3>2, AutoCycleType
  <2>2. QED
    BY <1>12, <2>1 DEF AutoAnalysis, data
<1>13. CASE AutoAnalysisFails
  BY <1>13, EmptyTypes DEF AutoAnalysisFails, data
<1>14. ASSUME NEW p \in Positions, AutoStep(p)
       PROVE  TypeOK'
  <2> DEFINE r == IF auto.expired THEN row[p] ELSE auto.snap[p]
             d == AutomaticEvaluate(AutoInput(terms[p], r))
             new == [r EXCEPT !.stop = d.stop, !.target = d.target]
             modifies == d.act \in {"modify_sl", "modify_tp", "modify_sl_tp"}
             writes == modifies /\ r.status = "open"
             expires == writes \/ d.act = "error"
  <2>1. /\ auto.price \in Int /\ auto.strength \in Strengths
        /\ auto.todo \in SUBSET Positions /\ auto.snap \in [Positions -> Rows]
        /\ auto.expired \in BOOLEAN
    BY DEF AutoCycles
  <2>2. r \in Rows /\ terms[p] \in Terms
    BY <2>1
  <2>3. AutoInput(terms[p], r) \in AutoInputs
    BY <2>1, <2>2 DEF AutoInput, AutoInputs, Terms, Rows
  <2>4. d.stop \in Int /\ d.target \in Int
    BY <2>3, AutomaticDecision
  <2>5. new \in Rows
    <3>1. [r EXCEPT !.stop = d.stop] \in Rows
      BY <2>2, <2>4, SetColumn
    <3>2. QED
      BY <2>4, <3>1, SetColumn, Zenon
  <2>6. row' \in [Positions -> Rows]
    <3>1. CASE writes
      BY <1>14, <2>2, <2>5, <3>1, CommitType DEF AutoStep
    <3>2. CASE ~writes
      BY <1>14, <3>2 DEF AutoStep
    <3>3. QED
      BY <3>1, <3>2
  <2>7. AutoCycle("apply", auto.price, auto.strength, auto.todo \ {p},
                  IF expires THEN NoSnapshot ELSE auto.snap,
                  auto.expired \/ expires) \in AutoCycles
    <3>1. /\ auto.todo \ {p} \in SUBSET Positions
          /\ (IF expires THEN NoSnapshot ELSE auto.snap) \in [Positions -> Rows]
          /\ (auto.expired \/ expires) \in BOOLEAN
      BY <2>1, EmptyTypes
    <3>2. QED
      BY <2>1, <3>1, AutoCycleType
  <2>8. QED
    BY <1>14, <2>6, <2>7 DEF AutoStep
<1>15. CASE AutoDone
  BY <1>15, EmptyTypes DEF AutoDone, data
<1>16. CASE Crash
  BY <1>16, EmptyTypes, CountAssumption DEF Crash, data
<1>17. CASE UNCHANGED vars
  BY <1>17 DEF vars
<1>18. QED
  <2>1. "market" \in Actors /\ "api" \in Actors
    BY DEF Actors
  <2>2. QED
    BY <1>1, <1>2, <1>3, <1>4, <1>5, <1>6, <1>7, <1>8, <1>9, <1>10, <1>11, <1>12,
       <1>13, <1>14, <1>15, <1>16, <1>17, <2>1
    DEF Next, WorkersNext, Entry, WorkerTrade, EndpointTrade, MarketStep,
        AutoWorker, ApiThread

LEMMA ActHasPositionStep ==
  TypeOK /\ ActHasPosition /\ [Next]_vars => ActHasPosition'
<1> SUFFICES ASSUME TypeOK, ActHasPosition, [Next]_vars
             PROVE  ActHasPosition'
  OBVIOUS
<1>1. ASSUME NEW a \in Actors, NEW s, sess' = [sess EXCEPT ![a] = s],
             s.phase = "act" => s.todo # {}
      PROVE  ActHasPosition'
  BY <1>1 DEF ActHasPosition, TypeOK
<1>2. ASSUME NEW a \in Actors, sess' = [sess EXCEPT ![a] = IdleSession]
      PROVE  ActHasPosition'
  BY <1>2 DEF ActHasPosition, TypeOK, IdleSession, Session
<1>3. ASSUME NEW a \in Actors, NEW w, Advance(a, w), sess[a].phase # "act"
      PROVE  ActHasPosition'
  BY <1>3 DEF ActHasPosition, TypeOK, Advance, Session
<1>4. CASE UNCHANGED sess
  BY <1>4 DEF ActHasPosition
<1>5. ASSUME NEW x \in Prices, MarketQuote(x)
      PROVE  ActHasPosition'
  BY <1>5 DEF MarketQuote, ActHasPosition, TypeOK, Session
<1>6. CASE LifecycleStep
  BY <1>3, <1>6 DEF LifecycleStep, Actors
<1>7. CASE LifecycleDone
  BY <1>7 DEF LifecycleDone, ActHasPosition, TypeOK, Session
<1>8. ASSUME NEW x \in Prices, ApiRequest(x)
      PROVE  ActHasPosition'
  BY <1>8 DEF ApiRequest, ActHasPosition, TypeOK, Session
<1>9. ASSUME NEW a \in Actors, ManagePrice(a)
      PROVE  ActHasPosition'
  <2> DEFINE p == Oldest(sess[a].todo)
             d == AdvancedEvaluate(SnapshotOf(terms[p], Seen(a, p), sess[a].price))
             s == Session("act", sess[a].price, sess[a].todo,
                          [NoSnapshot EXCEPT ![p] = row'[p]], TRUE, d)
  <2>1. sess[a].phase # "act" /\ sess[a].todo # {}
    BY <1>9 DEF ManagePrice
  <2>2. s.phase = "act" => s.todo # {}
    BY <2>1 DEF Session
  <2>3. CASE sess' = [sess EXCEPT ![a] = s]
    BY <1>1, <2>2, <2>3
  <2>4. QED
    BY <1>2, <1>3, <1>9, <2>1, <2>3 DEF ManagePrice
<1>10. ASSUME NEW a \in Actors, ManageAct(a)
       PROVE  ActHasPosition'
  <2> DEFINE s == Session("manage", sess[a].price,
                          sess[a].todo \ {Oldest(sess[a].todo)}, NoSnapshot, TRUE, Hold)
  <2>1. s.phase # "act"
    BY DEF Session
  <2>2. CASE sess' = [sess EXCEPT ![a] = s]
    BY <1>1, <2>1, <2>2
  <2>3. QED
    BY <1>2, <1>10, <2>2 DEF ManageAct
<1>11. ASSUME NEW a \in Actors, ManageDone(a)
       PROVE  ActHasPosition'
  BY <1>2, <1>11 DEF ManageDone
<1>12. CASE Crash
  BY <1>12 DEF Crash, ActHasPosition, IdleSession, Session
<1>13. QED
  <2>1. "market" \in Actors /\ "api" \in Actors
    BY DEF Actors
  <2>2. (Entry \/ AutoWorker \/ UNCHANGED vars) => UNCHANGED sess
    BY DEF Entry, WorkerTrade, EndpointTrade, Execute, CreatePosition, CreateFails,
           AutoWorker, AutoRead, AutoAnalysis, AutoAnalysisFails, AutoStep, AutoDone,
           vars
  <2>3. QED
    BY <1>4, <1>5, <1>6, <1>7, <1>8, <1>9, <1>10, <1>11, <1>12, <2>1, <2>2
    DEF Next, WorkersNext, MarketStep, ApiThread

\* The tables, the sessions and the worker cycles keep their types, under
\* the full specification with the endpoint's thread.
THEOREM TypeCorrect == Spec => []TypeOK
<1>1. TypeOK /\ ActHasPosition /\ [Next]_vars => (TypeOK /\ ActHasPosition)'
  BY TypeStep, ActHasPositionStep
<1>2. Spec => [](TypeOK /\ ActHasPosition)
  BY <1>1, TypeInit, PTL DEF Spec
<1>3. QED
  BY <1>2, PTL

-----------------------------------------------------------------------------
(* What the handlers and the workers make of a row                         *)

LEMMA PnlOfNothing ==
  ASSUME NEW t \in Terms, NEW x \in Int
  PROVE  Pnl(t, x, 0) = 0
<1>1. Move(t.direction, t.entry, x) \in Int
  BY DEF Move, Terms, Directions
<1>2. QED
  BY <1>1, TradeAssumption DEF Pnl

\* The columns that the books are kept in, as each handler leaves them.
LEMMA MarkedColumns ==
  ASSUME NEW t \in Terms, NEW r \in Rows, NEW x \in Int
  PROVE  /\ Marked(t, r, x).status = r.status
         /\ Marked(t, r, x).left = r.left
         /\ Marked(t, r, x).reduced = r.reduced
BY DEF Marked, Rows

LEMMA ClosedColumns ==
  ASSUME NEW t \in Terms, NEW r \in Rows, NEW x \in Int
  PROVE  /\ Closed(t, r, x).status = "closed"
         /\ Closed(t, r, x).left = 0
         /\ Closed(t, r, x).price = x
         /\ Closed(t, r, x).pnl = Pnl(t, x, r.left)
         /\ Closed(t, r, x).reduced = r.reduced
BY DEF Closed, Rows

LEMMA ReducedColumns ==
  ASSUME NEW t \in Terms, NEW r \in Rows, NEW q \in Int, NEW x \in Int
  PROVE  /\ Reduced(t, r, q, x).status = r.status
         /\ Reduced(t, r, q, x).left = r.left - q
         /\ Reduced(t, r, q, x).reduced =
              [quantity |-> q, price |-> x, pnl |-> r.reduced.pnl + Pnl(t, x, q)]
BY DEF Reduced, Rows

\* Break-even and trailing leave the books alone; a partial close is made
\* once.
LEMMA ManagedColumns ==
  ASSUME NEW t \in Terms, NEW r \in Rows, NEW d \in Decisions, NEW x \in Int,
         r.status = "open" => r.reduced.quantity >= 0
  PROVE  \/ /\ Managed(t, r, d, x).status = r.status
            /\ Managed(t, r, d, x).left = r.left
            /\ Managed(t, r, d, x).reduced = r.reduced
            /\ Managed(t, r, d, x).price = r.price
            /\ Managed(t, r, d, x).pnl = r.pnl
         \/ /\ r.status = "open"
            /\ d.act \notin {"move_to_break_even", "trail_stop"}
            /\ r.reduced.quantity = 0
            /\ Managed(t, r, d, x) = Reduced(t, r, d.quantity, x)
<1>1. /\ [r EXCEPT !.stop = d.stop].status = r.status
      /\ [r EXCEPT !.stop = d.stop].left = r.left
      /\ [r EXCEPT !.stop = d.stop].reduced = r.reduced
      /\ [r EXCEPT !.stop = d.stop].price = r.price
      /\ [r EXCEPT !.stop = d.stop].pnl = r.pnl
  BY DEF Rows
<1>2. /\ [r EXCEPT !.stop = d.stop, !.breakEven = TRUE].status = r.status
      /\ [r EXCEPT !.stop = d.stop, !.breakEven = TRUE].left = r.left
      /\ [r EXCEPT !.stop = d.stop, !.breakEven = TRUE].reduced = r.reduced
      /\ [r EXCEPT !.stop = d.stop, !.breakEven = TRUE].price = r.price
      /\ [r EXCEPT !.stop = d.stop, !.breakEven = TRUE].pnl = r.pnl
  BY DEF Rows
<1>3. CASE r.status # "open"
  BY <1>3 DEF Managed
<1>4. CASE r.status = "open" /\ d.act = "move_to_break_even"
  BY <1>2, <1>4 DEF Managed
<1>5. CASE r.status = "open" /\ d.act = "trail_stop"
  BY <1>1, <1>5 DEF Managed
<1>6. CASE r.status = "open" /\ d.act \notin {"move_to_break_even", "trail_stop"}
  <2>1. r.reduced.quantity \in Int
    BY DEF Rows, Reductions
  <2>2. CASE r.reduced.quantity > 0
    BY <1>6, <2>2 DEF Managed
  <2>3. CASE r.reduced.quantity = 0
    BY <1>6, <2>3 DEF Managed
  <2>4. QED
    BY <1>6, <2>1, <2>2, <2>3
<1>7. QED
  BY <1>3, <1>4, <1>5, <1>6

LEMMA ManagedLevels ==
  ASSUME NEW t \in Terms, NEW r \in Rows, NEW d \in Decisions, NEW x \in Int
  PROVE  /\ Managed(t, r, d, x).target = r.target
         /\ \/ Managed(t, r, d, x).stop = r.stop
            \/ /\ r.status = "open"
               /\ d.act \in {"move_to_break_even", "trail_stop"}
               /\ Managed(t, r, d, x).stop = d.stop
<1>1. [r EXCEPT !.stop = d.stop].target = r.target
      /\ [r EXCEPT !.stop = d.stop].stop = d.stop
  BY DEF Rows
<1>2. [r EXCEPT !.stop = d.stop, !.breakEven = TRUE].target = r.target
      /\ [r EXCEPT !.stop = d.stop, !.breakEven = TRUE].stop = d.stop
  BY DEF Rows
<1>3. /\ Reduced(t, r, d.quantity, x).target = r.target
      /\ Reduced(t, r, d.quantity, x).stop = r.stop
  BY DEF Reduced, Rows
<1>4. QED
  BY <1>1, <1>2, <1>3 DEF Managed

Modifications == {"modify_sl", "modify_tp", "modify_sl_tp"}

\* The levels the automatic manager asks for are those it was given or valid
\* ones, and the target is further away than it was.
LEMMA AutomaticLevels ==
  ASSUME NEW a \in AutoInputs, AutomaticEvaluate(a).act \in Modifications
  PROVE  /\ \/ AutomaticEvaluate(a).stop = a.stop
            \/ AutomaticEvaluate(a).stop > 0
         /\ \/ AutomaticEvaluate(a).target = a.target
            \/ /\ AutomaticEvaluate(a).target > 0
               /\ Ahead(a.direction, AutomaticEvaluate(a).target, a.entry)
               /\ Ahead(a.direction, AutomaticEvaluate(a).target, a.target)
<1> DEFINE e == AutomaticEvaluate(a)
<1>1. CandidateStop(a) \in Int /\ CandidateTarget(a) \in Int
  <2>1. LockedStop(a) \in Int /\ AutoTrailingStop(a) \in Int
    BY ConfigAssumption
    DEF AutoInputs, Directions, LockedStop, AutoTrailingStop, Shift, Distance
  <2>2. QED
    BY <2>1, ConfigAssumption
    DEF AutoInputs, Directions, CandidateStop, CandidateTarget, Tighter, Shift
<1>2. \/ e.stop = a.stop
      \/ e.stop = CandidateStop(a) /\ CandidateStop(a) > 0
  BY <1>1 DEF AutomaticEvaluate, AutoDecision, Modifications
<1>3. \/ e.target = a.target
      \/ /\ e.target = CandidateTarget(a) /\ CandidateTarget(a) > 0
         /\ TargetCandidateAccepted(a)
  BY <1>1 DEF AutomaticEvaluate, AutoDecision, Modifications
<1>4. QED
  BY <1>2, <1>3 DEF TargetCandidateAccepted

\* The Stage 17.5 worker moves the levels of a position within those bounds,
\* from what it read long ago too.
LEMMA AutoLevels ==
  ASSUME TypeOK, NEW p \in Positions, AutoStep(p),
         NEW r, r = IF auto.expired THEN row[p] ELSE auto.snap[p],
         NEW d, d = AutomaticEvaluate(AutoInput(terms[p], r))
  PROVE  \/ UNCHANGED row
         \/ /\ \A q \in Positions \ {p} : row'[q] = row[q]
            /\ row'[p].status = row[p].status
            /\ row'[p].stop = IF d.stop = r.stop THEN row[p].stop ELSE d.stop
            /\ row'[p].target =
                 IF d.target = r.target THEN row[p].target ELSE d.target
            /\ d.stop = r.stop \/ d.stop > 0
            /\ \/ d.target = r.target
               \/ /\ d.target > 0
                  /\ Ahead(terms[p].direction, d.target, terms[p].entry)
                  /\ Ahead(terms[p].direction, d.target, r.target)
<1> DEFINE a == AutoInput(terms[p], r)
           new == [r EXCEPT !.stop = d.stop, !.target = d.target]
<1>1. r \in Rows /\ terms[p] \in Terms
  BY DEF TypeOK, AutoCycles
<1>2. a \in AutoInputs
  BY <1>1 DEF AutoInput, AutoInputs, TypeOK, AutoCycles, Terms, Rows
<1>3. /\ a.stop = r.stop /\ a.target = r.target
      /\ a.direction = terms[p].direction /\ a.entry = terms[p].entry
  BY DEF AutoInput
<1>4. \/ UNCHANGED row
      \/ Commit(p, r, new) /\ d.act \in Modifications
  BY DEF AutoStep, Modifications
<1>5. ASSUME Commit(p, r, new), d.act \in Modifications
      PROVE  /\ \A q \in Positions \ {p} : row'[q] = row[q]
             /\ row'[p].status = row[p].status
             /\ row'[p].stop = IF d.stop = r.stop THEN row[p].stop ELSE d.stop
             /\ row'[p].target =
                  IF d.target = r.target THEN row[p].target ELSE d.target
             /\ d.stop = r.stop \/ d.stop > 0
             /\ \/ d.target = r.target
                \/ /\ d.target > 0
                   /\ Ahead(terms[p].direction, d.target, terms[p].entry)
                   /\ Ahead(terms[p].direction, d.target, r.target)
  <2>1. row' = [row EXCEPT ![p] = Merge(row[p], r, new)]
    BY <1>5 DEF Commit, TypeOK
  <2>2. /\ row'[p] = Merge(row[p], r, new)
        /\ \A q \in Positions \ {p} : row'[q] = row[q]
    BY <2>1 DEF TypeOK
  <2>3. new.stop = d.stop /\ new.target = d.target /\ new.status = r.status
    BY <1>1 DEF Rows
  <2>4. /\ Merge(row[p], r, new).stop =
             IF d.stop = r.stop THEN row[p].stop ELSE d.stop
        /\ Merge(row[p], r, new).target =
             IF d.target = r.target THEN row[p].target ELSE d.target
        /\ Merge(row[p], r, new).status = row[p].status
    BY <2>3 DEF Merge
  <2>5. /\ d.stop = a.stop \/ d.stop > 0
        /\ \/ d.target = a.target
           \/ /\ d.target > 0
              /\ Ahead(a.direction, d.target, a.entry)
              /\ Ahead(a.direction, d.target, a.target)
    BY <1>2, <1>5, AutomaticLevels
  <2>. HIDE DEF a, new
  <2>6. QED
    BY <1>3, <2>2, <2>4, <2>5
<1>6. QED
  BY <1>4, <1>5

-----------------------------------------------------------------------------
(* The books of open positions, whoever manages them                       *)

\* A row of a trade with terms t whose reduction is booked, and whose open
\* quantity is what the reduction left.
Consistent(t, r) ==
  /\ r.reduced.pnl = Pnl(t, r.reduced.price, r.reduced.quantity)
  /\ r.status = "none" => r.reduced = NotReduced
  /\ r.status = "open" =>
       /\ r.left > 0 /\ r.reduced.quantity >= 0
       /\ r.left + r.reduced.quantity = t.quantity

\* The row a manager is about to act on was consistent when it was read,
\* however old it has become.
Acting ==
  \A a \in Actors : sess[a].phase = "act" =>
    LET p == Oldest(sess[a].todo)
        d == sess[a].decision
    IN  /\ sess[a].snap[p].status # "none"
        /\ Consistent(terms[p], sess[a].snap[p])
        /\ d.act \in {"partial_close", "move_to_break_even", "trail_stop"}
        /\ d.act = "partial_close" => d.quantity > 0

\* No session knows of a row that does not exist.
Known ==
  \A p \in Positions : row[p].status = "none" =>
    /\ \A a \in Actors : sess[a].snap[p].status = "none"
    /\ p \notin auto.todo

\* The targets the Stage 17.5 worker has read are still those of the table.
TargetsCurrent ==
  /\ auto.phase # "apply" => ~auto.expired
  /\ ~auto.expired => \A p \in auto.todo : auto.snap[p].target = row[p].target

\* Ids not yet issued, and the one being persisted, have no row.
Unpersisted ==
  /\ \A p \in Positions : p > issued => row[p].status = "none"
  /\ entry # 0 => /\ entry <= issued
                  /\ row[entry].status = "none"
                  /\ terms[entry] \in Proposals

SharedInv ==
  /\ TypeOK /\ ActHasPosition
  /\ Acting /\ Known /\ TargetsCurrent /\ Unpersisted
  /\ \A p \in Positions : Consistent(terms[p], row[p])

-----------------------------------------------------------------------------
(* What a commit from an old snapshot does to the row                      *)

LEMMA CommitRow ==
  ASSUME TypeOK, NEW p \in Positions, NEW old, NEW new, Commit(p, old, new)
  PROVE  /\ row'[p] = Merge(row[p], old, new)
         /\ \A q \in Positions \ {p} : row'[q] = row[q]
BY DEF Commit, TypeOK

LEMMA MarkedCommit ==
  ASSUME TypeOK, NEW p \in Positions, NEW old \in Rows, NEW x \in Int,
         Commit(p, old, Marked(terms[p], old, x))
  PROVE  /\ row'[p].status = row[p].status /\ row'[p].left = row[p].left
         /\ row'[p].reduced = row[p].reduced /\ row'[p].target = row[p].target
<1> DEFINE new == Marked(terms[p], old, x)
<1>1. /\ new.status = old.status /\ new.left = old.left
      /\ new.reduced = old.reduced /\ new.target = old.target
  BY DEF Marked, Rows
<1>2. row'[p] = Merge(row[p], old, new)
  BY CommitRow
<1>. HIDE DEF new
<1>3. QED
  BY <1>1, <1>2 DEF Merge

LEMMA ClosedCommit ==
  ASSUME TypeOK, NEW p \in Positions, NEW old \in Rows, NEW x \in Int,
         old.status = "open", Commit(p, old, Closed(terms[p], old, x))
  PROVE  /\ row'[p].status = "closed"
         /\ row'[p].reduced = row[p].reduced /\ row'[p].target = row[p].target
<1> DEFINE new == Closed(terms[p], old, x)
<1>1. /\ new.status = "closed"
      /\ new.reduced = old.reduced /\ new.target = old.target
  BY DEF Closed, Rows
<1>2. row'[p] = Merge(row[p], old, new)
  BY CommitRow
<1>. HIDE DEF new
<1>3. QED
  BY <1>1, <1>2 DEF Merge

\* A partial close decided on old takes q out of what old had left.
Cut(p, old) ==
  /\ old.status = "open" /\ old.reduced.quantity = 0
  /\ row'[p].status = row[p].status
  /\ \E q, x \in Int :
       /\ q > 0 /\ q < old.left
       /\ row'[p].left = old.left - q
       /\ row'[p].reduced = [quantity |-> q, price |-> x,
                             pnl |-> old.reduced.pnl + Pnl(terms[p], x, q)]

LEMMA ManagedCommit ==
  ASSUME TypeOK, NEW p \in Positions, NEW old \in Rows, NEW x \in Int,
         NEW d \in Decisions, Consistent(terms[p], old), ~ActRefused(old, d),
         d.act \in {"partial_close", "move_to_break_even", "trail_stop"},
         d.act = "partial_close" => d.quantity > 0,
         Commit(p, old, Managed(terms[p], old, d, x))
  PROVE  /\ row'[p].target = row[p].target
         /\ \/ /\ row'[p].status = row[p].status /\ row'[p].left = row[p].left
               /\ row'[p].reduced = row[p].reduced
            \/ Cut(p, old)
<1> DEFINE new == Managed(terms[p], old, d, x)
<1>1. row'[p] = Merge(row[p], old, new) /\ terms[p] \in Terms
  BY CommitRow DEF TypeOK
<1>2. old.status = "open" => old.reduced.quantity >= 0
  BY DEF Consistent
<1>3. new.target = old.target
  BY <1>1, ManagedLevels
<1>4. CASE /\ new.status = old.status /\ new.left = old.left
           /\ new.reduced = old.reduced
  <2>. HIDE DEF new
  <2>1. QED
    BY <1>1, <1>3, <1>4 DEF Merge
<1>5. CASE /\ old.status = "open"
           /\ d.act \notin {"move_to_break_even", "trail_stop"}
           /\ old.reduced.quantity = 0
           /\ new = Reduced(terms[p], old, d.quantity, x)
  <2>1. /\ d.act = "partial_close" /\ d.quantity > 0
        /\ d.quantity \in Int /\ old.left \in Int
        /\ old.reduced \in Reductions
    BY <1>5 DEF Decisions, Rows
  <2>2. d.quantity < old.left
    BY <1>5, <2>1 DEF ActRefused
  <2>3. /\ new.status = old.status
        /\ new.left = old.left - d.quantity
        /\ new.reduced = [quantity |-> d.quantity, price |-> x,
                          pnl |-> old.reduced.pnl + Pnl(terms[p], x, d.quantity)]
    <3>. HIDE DEF new
    <3>1. QED
      BY <1>1, <1>5, <2>1, ReducedColumns
  <2>4. new.left # old.left
    BY <2>1, <2>3
  <2>5. new.reduced # old.reduced
    BY <1>5, <2>1, <2>3
  <2>. HIDE DEF new
  <2>6. /\ row'[p].status = row[p].status /\ row'[p].target = row[p].target
        /\ row'[p].left = new.left /\ row'[p].reduced = new.reduced
    BY <1>1, <1>3, <2>3, <2>4, <2>5 DEF Merge
  <2>7. QED
    BY <1>5, <2>1, <2>2, <2>3, <2>6 DEF Cut
<1>6. QED
  BY <1>1, <1>2, <1>4, <1>5, ManagedColumns

-----------------------------------------------------------------------------
(* What a step of anybody does to one position                             *)

Alike(p) ==
  /\ row'[p].status = row[p].status
  /\ row'[p].left = row[p].left
  /\ row'[p].reduced = row[p].reduced

Shut(p) ==
  /\ row[p].status # "none" /\ row'[p].status = "closed"
  /\ row'[p].reduced = row[p].reduced

CutFromOld(p) ==
  /\ row[p].status # "none"
  /\ \E old \in Rows : Consistent(terms[p], old) /\ Cut(p, old)

Persisted(p) ==
  /\ p = entry /\ entry # 0 /\ entry' = 0
  /\ row[p].status = "none" /\ terms[p] \in Proposals
  /\ row'[p] = NewRow(terms[p])

\* Only a step of the Stage 17.5 worker moves a target, and moves it away.
SharedEffect(p) ==
  /\ Alike(p) \/ Shut(p) \/ CutFromOld(p) \/ (Persisted(p) /\ terms'[p] = terms[p])
  /\ row[p].status # "none" =>
       /\ terms'[p] = terms[p]
       /\ \/ row'[p].target = row[p].target
          \/ /\ auto' # auto
             /\ Ahead(terms[p].direction, row'[p].target, row[p].target)

LEMMA UntouchedEffect ==
  ASSUME NEW q \in Positions, row'[q] = row[q],
         row[q].status # "none" => terms'[q] = terms[q]
  PROVE  SharedEffect(q)
BY DEF SharedEffect, Alike

\* What a session sees as open has a row.
LEMMA SeenIsReal ==
  ASSUME SharedInv, NEW a \in Actors, NEW p \in Positions,
         Seen(a, p).status = "open"
  PROVE  row[p].status # "none"
BY DEF SharedInv, Known, Seen

LEMMA LifecycleShared ==
  ASSUME SharedInv, LifecycleStep, NEW q \in Positions
  PROVE  SharedEffect(q)
<1> DEFINE p == Oldest(sess["market"].todo)
           r == Seen("market", p)
           x == sess["market"].price
<1>1. TypeOK /\ "market" \in Actors /\ UNCHANGED terms
  BY DEF SharedInv, Actors, LifecycleStep
<1>2. p \in Positions /\ x \in Int
  BY <1>1, OldestType DEF LifecycleStep
<1>3. r \in Rows
  BY <1>1, <1>2, SeenType
<1>4. \/ UNCHANGED row
      \/ r.status = "open" /\ Commit(p, r, Closed(terms[p], r, x))
      \/ r.status = "open" /\ Commit(p, r, Marked(terms[p], r, x))
  BY DEF LifecycleStep
<1>5. r.status = "open" => row[p].status # "none"
  BY <1>1, <1>2, SeenIsReal
<1>. HIDE DEF p, r, x
<1>6. CASE r.status = "open" /\ Commit(p, r, Closed(terms[p], r, x))
  <2>1. CASE q = p
    BY <1>1, <1>2, <1>3, <1>5, <1>6, <2>1, ClosedCommit DEF SharedEffect, Shut
  <2>2. CASE q # p
    BY <1>1, <1>2, <1>6, <2>2, CommitRow, UntouchedEffect
  <2>3. QED
    BY <2>1, <2>2
<1>7. CASE r.status = "open" /\ Commit(p, r, Marked(terms[p], r, x))
  <2>1. CASE q = p
    BY <1>1, <1>2, <1>3, <1>7, <2>1, MarkedCommit DEF SharedEffect, Alike
  <2>2. CASE q # p
    BY <1>1, <1>2, <1>7, <2>2, CommitRow, UntouchedEffect
  <2>3. QED
    BY <2>1, <2>2
<1>8. QED
  BY <1>1, <1>4, <1>6, <1>7, UntouchedEffect

LEMMA ManagePriceShared ==
  ASSUME SharedInv, NEW a \in Actors, ManagePrice(a), NEW q \in Positions
  PROVE  SharedEffect(q)
<1> DEFINE p == Oldest(sess[a].todo)
           r == Seen(a, p)
           x == sess[a].price
<1>1. TypeOK /\ UNCHANGED terms
  BY DEF SharedInv, ManagePrice
<1>2. p \in Positions /\ x \in Int
  BY <1>1, OldestType DEF ManagePrice
<1>3. r \in Rows
  BY <1>1, <1>2, SeenType
<1>4. UNCHANGED row \/ Commit(p, r, Marked(terms[p], r, x))
  BY DEF ManagePrice
<1>. HIDE DEF p, r, x
<1>5. CASE Commit(p, r, Marked(terms[p], r, x))
  <2>1. CASE q = p
    BY <1>1, <1>2, <1>3, <1>5, <2>1, MarkedCommit DEF SharedEffect, Alike
  <2>2. CASE q # p
    BY <1>1, <1>2, <1>5, <2>2, CommitRow, UntouchedEffect
  <2>3. QED
    BY <2>1, <2>2
<1>6. QED
  BY <1>1, <1>4, <1>5, UntouchedEffect

LEMMA ManageActShared ==
  ASSUME SharedInv, NEW a \in Actors, ManageAct(a), NEW q \in Positions
  PROVE  SharedEffect(q)
<1> DEFINE p == Oldest(sess[a].todo)
           r == sess[a].snap[p]
           d == sess[a].decision
           x == sess[a].price
<1>1. TypeOK /\ UNCHANGED terms /\ sess[a].phase = "act" /\ sess[a].todo # {}
  BY DEF SharedInv, ManageAct, ActHasPosition
<1>2. p \in Positions /\ x \in Int /\ d \in Decisions /\ r \in Rows
  BY <1>1, OldestType
<1>3. /\ r.status # "none" /\ Consistent(terms[p], r)
      /\ d.act \in {"partial_close", "move_to_break_even", "trail_stop"}
      /\ d.act = "partial_close" => d.quantity > 0
  BY <1>1 DEF SharedInv, Acting
<1>4. row[p].status # "none"
  BY <1>2, <1>3 DEF SharedInv, Known
<1>5. \/ UNCHANGED row
      \/ ~ActRefused(r, d) /\ Commit(p, r, Managed(terms[p], r, d, x))
  BY DEF ManageAct
<1>. HIDE DEF p, r, d, x
<1>6. CASE ~ActRefused(r, d) /\ Commit(p, r, Managed(terms[p], r, d, x))
  <2>1. CASE q = p
    <3>1. /\ row'[p].target = row[p].target
          /\ Alike(p) \/ Cut(p, r)
      BY <1>1, <1>2, <1>3, <1>6, ManagedCommit DEF Alike
    <3>2. QED
      BY <1>1, <1>2, <1>3, <1>4, <2>1, <3>1 DEF SharedEffect, CutFromOld
  <2>2. CASE q # p
    BY <1>1, <1>2, <1>6, <2>2, CommitRow, UntouchedEffect
  <2>3. QED
    BY <2>1, <2>2
<1>7. QED
  BY <1>1, <1>5, <1>6, UntouchedEffect

LEMMA AutoShared ==
  ASSUME SharedInv, NEW p \in Positions, AutoStep(p), NEW q \in Positions
  PROVE  SharedEffect(q)
<1> DEFINE r == IF auto.expired THEN row[p] ELSE auto.snap[p]
           d == AutomaticEvaluate(AutoInput(terms[p], r))
           new == [r EXCEPT !.stop = d.stop, !.target = d.target]
<1>1. TypeOK /\ UNCHANGED terms /\ p \in auto.todo
  BY DEF SharedInv, AutoStep
<1>2. r \in Rows /\ r.target = row[p].target
  BY <1>1 DEF TypeOK, AutoCycles, SharedInv, TargetsCurrent
<1>3. CASE UNCHANGED row
  BY <1>1, <1>3, UntouchedEffect
<1>4. CASE ~UNCHANGED row
  <2>1. Commit(p, r, new)
    BY <1>4 DEF AutoStep
  <2>2. row'[p] = Merge(row[p], r, new)
    BY <1>1, <2>1, CommitRow
  <2>3. /\ new.status = r.status /\ new.left = r.left /\ new.reduced = r.reduced
    BY <1>2 DEF Rows
  <2>4. Alike(p)
    BY <2>2, <2>3 DEF Merge, Alike
  <2>5. /\ \A s \in Positions \ {p} : row'[s] = row[s]
        /\ \/ row'[p].target = row[p].target
           \/ Ahead(terms[p].direction, row'[p].target, row[p].target)
    BY <1>1, <1>2, <1>4, AutoLevels
  <2>todo. auto'.todo = auto.todo \ {p}
    BY DEF AutoStep, AutoCycle
  <2>6. CASE q = p
    BY <1>1, <2>4, <2>5, <2>6, <2>todo DEF SharedEffect
  <2>7. CASE q # p
    BY <1>1, <2>5, <2>7, UntouchedEffect
  <2>8. QED
    BY <2>6, <2>7
<1>5. QED
  BY <1>3, <1>4

LEMMA NextShared ==
  ASSUME SharedInv, [Next]_vars, NEW q \in Positions
  PROVE  SharedEffect(q)
<1>1. TypeOK /\ Unpersisted /\ "market" \in Actors /\ "api" \in Actors
  BY DEF SharedInv, Actors
<1>2. ASSUME NEW t \in Proposals, Execute(t)
      PROVE  SharedEffect(q)
  <2>1. UNCHANGED row /\ terms' = [terms EXCEPT ![issued + 1] = t]
    BY <1>2 DEF Execute
  <2>2. q = issued + 1 => row[q].status = "none"
    BY <1>1 DEF TypeOK, Unpersisted
  <2>3. row[q].status # "none" => terms'[q] = terms[q]
    BY <1>1, <2>1, <2>2 DEF TypeOK
  <2>4. QED
    BY <2>1, <2>3, UntouchedEffect
<1>3. CASE CreatePosition
  <2>1. /\ entry \in Positions /\ entry # 0 /\ entry' = 0 /\ UNCHANGED terms
        /\ row' = [row EXCEPT ![entry] = NewRow(terms[entry])]
        /\ row[entry].status = "none" /\ terms[entry] \in Proposals
    BY <1>1, <1>3 DEF CreatePosition, TypeOK, Unpersisted
  <2>2. CASE q = entry
    BY <1>1, <2>1, <2>2 DEF SharedEffect, Persisted, TypeOK
  <2>3. CASE q # entry
    BY <1>1, <2>1, <2>3, UntouchedEffect DEF TypeOK
  <2>4. QED
    BY <2>2, <2>3
<1>4. CASE UNCHANGED <<row, terms>>
  BY <1>4, UntouchedEffect
<1>5. CASE MarketStep \/ ApiThread
  <2>1. ASSUME NEW a \in Actors, ManageDone(a)
        PROVE  UNCHANGED <<row, terms>>
    BY <2>1 DEF ManageDone, data
  <2>2. QED
    BY <1>1, <1>4, <1>5, <2>1, LifecycleShared, ManagePriceShared, ManageActShared
    DEF MarketStep, ApiThread, LifecycleDone, ApiRequest, data
<1>6. CASE AutoWorker
  BY <1>4, <1>6, AutoShared
  DEF AutoWorker, AutoRead, AutoAnalysis, AutoAnalysisFails, AutoDone, data
<1>7. QED
  BY <1>2, <1>3, <1>4, <1>5, <1>6
  DEF Next, WorkersNext, Entry, WorkerTrade, EndpointTrade, CreateFails,
      MarketQuote, Crash, data, vars

-----------------------------------------------------------------------------
(* The invariant is kept                                                   *)

LEMMA StatusStays ==
  ASSUME NEW p \in Positions, SharedEffect(p)
  PROVE  /\ row[p].status # "none" => row'[p].status # "none"
         /\ row'[p].status = "none" => row[p].status = "none"
         /\ row[p].status = "none" /\ row'[p].status # "none" =>
              p = entry /\ entry # 0 /\ entry' = 0
BY DEF SharedEffect, Alike, Shut, CutFromOld, Cut, Persisted, NewRow

LEMMA ConsistentStep ==
  ASSUME SharedInv, TypeOK', NEW p \in Positions, SharedEffect(p)
  PROVE  Consistent(terms'[p], row'[p])
<1>1. /\ row[p] \in Rows /\ row'[p] \in Rows
      /\ terms[p] \in Terms /\ terms'[p] \in Terms
      /\ Consistent(terms[p], row[p])
  BY DEF SharedInv, TypeOK
<1>2. Pnl(terms'[p], 0, 0) = 0
  BY <1>1, PnlOfNothing
<1>3. CASE Alike(p) /\ row[p].status = "none"
  BY <1>1, <1>2, <1>3 DEF Alike, Consistent, NotReduced
<1>4. CASE Alike(p) /\ row[p].status # "none"
  BY <1>1, <1>4 DEF Alike, Consistent, SharedEffect
<1>5. CASE Shut(p)
  BY <1>1, <1>5 DEF Shut, Consistent, SharedEffect
<1>6. CASE CutFromOld(p)
  <2>1. terms'[p] = terms[p] /\ row'[p].status # "none"
    BY <1>6 DEF SharedEffect, CutFromOld, Cut
  <2>2. PICK old \in Rows : Consistent(terms[p], old) /\ Cut(p, old)
    BY <1>6 DEF CutFromOld
  <2>3. PICK q \in Int, x \in Int :
          /\ q > 0 /\ q < old.left
          /\ row'[p].left = old.left - q
          /\ row'[p].reduced = [quantity |-> q, price |-> x,
                                pnl |-> old.reduced.pnl + Pnl(terms[p], x, q)]
    BY <2>2 DEF Cut
  <2>4. old.reduced.pnl = 0
    <3>1. old.reduced.pnl = Pnl(terms[p], old.reduced.price, 0)
      BY <2>2 DEF Consistent, Cut
    <3>2. old.reduced.price \in Int
      BY DEF Rows, Reductions
    <3>3. QED
      BY <1>1, <3>1, <3>2, PnlOfNothing
  <2>5. Pnl(terms[p], x, q) \in Int
    BY <1>1, PnlType
  <2>6. /\ row'[p].reduced.quantity = q /\ row'[p].reduced.price = x
        /\ row'[p].reduced.pnl = Pnl(terms[p], x, q)
    BY <2>3, <2>4, <2>5
  <2>7. old.left + 0 = terms[p].quantity /\ old.left \in Int
    BY <2>2 DEF Consistent, Cut, Rows
  <2>8. row'[p].left > 0 /\ row'[p].left + q = terms[p].quantity
    BY <2>3, <2>7
  <2>9. QED
    BY <2>1, <2>3, <2>6, <2>8 DEF Consistent
<1>7. CASE Persisted(p) /\ terms'[p] = terms[p]
  <2>1. /\ row'[p].status = "open" /\ row'[p].left = terms[p].quantity
        /\ row'[p].reduced = NotReduced
    BY <1>7 DEF Persisted, NewRow
  <2>2. terms[p].quantity > 0 /\ terms[p].quantity \in Int
    BY <1>7, TradeAssumption DEF Persisted, IsProposal
  <2>3. QED
    BY <1>2, <1>7, <2>1, <2>2 DEF Consistent, NotReduced
<1>8. QED
  BY <1>3, <1>4, <1>5, <1>6, <1>7 DEF SharedEffect

\* What becomes of a session: it stays, it starts on what it has just read,
\* it goes on without acting, or it has decided on the oldest position.
LEMMA SessionStep ==
  ASSUME SharedInv, [Next]_vars, NEW a \in Actors
  PROVE  \/ sess'[a] = sess[a]
         \/ /\ sess'[a].phase # "act"
            /\ sess'[a].snap \in {sess[a].snap, NoSnapshot, Loaded}
         \/ /\ sess'[a].phase = "act" /\ sess'[a].todo # {}
            /\ LET p == Oldest(sess'[a].todo)
                   d == sess'[a].decision
               IN  /\ p \in Positions /\ row[p].status # "none"
                   /\ sess'[a].snap = [NoSnapshot EXCEPT ![p] = row'[p]]
                   /\ d.act \in {"partial_close", "move_to_break_even", "trail_stop"}
                   /\ d.act = "partial_close" => d.quantity > 0
<1>1. TypeOK /\ sess[a] \in Sessions /\ sess \in [Actors -> Sessions]
      /\ "market" \in Actors /\ "api" \in Actors
  BY DEF SharedInv, TypeOK, Actors
<1>2. ASSUME NEW b \in Actors, NEW s, sess' = [sess EXCEPT ![b] = s],
             s.phase # "act", s.snap \in {sess[b].snap, NoSnapshot, Loaded}
      PROVE  \/ sess'[a] = sess[a]
             \/ /\ sess'[a].phase # "act"
                /\ sess'[a].snap \in {sess[a].snap, NoSnapshot, Loaded}
  BY <1>1, <1>2
<1>3. IdleSession.phase # "act" /\ IdleSession.snap = NoSnapshot
  BY DEF IdleSession, Session
<1>4. ASSUME NEW b \in Actors, NEW w, Advance(b, w), sess[b].phase # "act"
      PROVE  \/ sess'[a] = sess[a]
             \/ /\ sess'[a].phase # "act"
                /\ sess'[a].snap \in {sess[a].snap, NoSnapshot, Loaded}
  <2> DEFINE s == Session(sess[b].phase, sess[b].price,
                          sess[b].todo \ {Oldest(sess[b].todo)},
                          IF w THEN NoSnapshot ELSE sess[b].snap,
                          sess[b].expired \/ w, Hold)
  <2>1. sess' = [sess EXCEPT ![b] = s]
    BY <1>4 DEF Advance
  <2>2. s.phase # "act" /\ s.snap \in {sess[b].snap, NoSnapshot, Loaded}
    BY <1>4 DEF Session
  <2>. HIDE DEF s
  <2>3. QED
    BY <1>2, <2>1, <2>2
<1>5. ASSUME NEW x \in Prices, MarketQuote(x)
      PROVE  sess'[a] = sess[a] \/ (sess'[a].phase # "act" /\ sess'[a].snap = Loaded)
  BY <1>1, <1>5 DEF MarketQuote, Session
<1>6. CASE LifecycleStep
  BY <1>1, <1>4, <1>6 DEF LifecycleStep
<1>7. CASE LifecycleDone
  BY <1>1, <1>7 DEF LifecycleDone, Session
<1>8. ASSUME NEW x \in Prices, ApiRequest(x)
      PROVE  sess'[a] = sess[a] \/ (sess'[a].phase # "act" /\ sess'[a].snap = Loaded)
  BY <1>1, <1>8 DEF ApiRequest, Session
<1>9. ASSUME NEW b \in Actors, ManageAct(b)
      PROVE  \/ sess'[a] = sess[a]
             \/ /\ sess'[a].phase # "act"
                /\ sess'[a].snap \in {sess[a].snap, NoSnapshot, Loaded}
  <2> DEFINE s == Session("manage", sess[b].price,
                          sess[b].todo \ {Oldest(sess[b].todo)}, NoSnapshot, TRUE, Hold)
  <2>1. sess' = [sess EXCEPT ![b] = IdleSession] \/ sess' = [sess EXCEPT ![b] = s]
    BY <1>9 DEF ManageAct
  <2>2. s.phase # "act" /\ s.snap = NoSnapshot
    BY DEF Session
  <2>. HIDE DEF s
  <2>3. QED
    BY <1>2, <1>3, <2>1, <2>2
<1>10. ASSUME NEW b \in Actors, ManageDone(b)
       PROVE  \/ sess'[a] = sess[a]
              \/ /\ sess'[a].phase # "act"
                 /\ sess'[a].snap \in {sess[a].snap, NoSnapshot, Loaded}
  BY <1>2, <1>3, <1>10 DEF ManageDone
<1>11. CASE Crash
  BY <1>3, <1>11 DEF Crash
<1>12. CASE UNCHANGED sess
  BY <1>12
<1>13. ASSUME NEW b \in Actors, ManagePrice(b)
       PROVE  \/ sess'[a] = sess[a]
              \/ /\ sess'[a].phase # "act"
                 /\ sess'[a].snap \in {sess[a].snap, NoSnapshot, Loaded}
              \/ /\ sess'[a].phase = "act" /\ sess'[a].todo # {}
                 /\ LET p == Oldest(sess'[a].todo)
                        d == sess'[a].decision
                    IN  /\ p \in Positions /\ row[p].status # "none"
                        /\ sess'[a].snap = [NoSnapshot EXCEPT ![p] = row'[p]]
                        /\ d.act \in {"partial_close", "move_to_break_even", "trail_stop"}
                        /\ d.act = "partial_close" => d.quantity > 0
  <2> DEFINE p == Oldest(sess[b].todo)
             r == Seen(b, p)
             x == sess[b].price
             d == AdvancedEvaluate(SnapshotOf(terms[p], r, x))
             s == Session("act", x, sess[b].todo,
                          [NoSnapshot EXCEPT ![p] = row'[p]], TRUE, d)
  <2>1. sess[b].phase = "manage" /\ sess[b].todo # {}
    BY <1>13 DEF ManagePrice
  <2>2. p \in Positions /\ x \in Int
    BY <1>1, <2>1, OldestType
  <2>3. r \in Rows /\ terms[p] \in Terms
    BY <1>1, <2>2, SeenType DEF TypeOK
  <2>4. d \in Decisions /\ (d.act = "partial_close" => d.quantity > 0)
    BY <2>2, <2>3, SnapshotType, AdvancedDecision
  <2>5. \/ \E w \in BOOLEAN : Advance(b, w)
        \/ sess' = [sess EXCEPT ![b] = IdleSession]
        \/ /\ r.status = "open" /\ d.act \notin {"error", "hold"}
           /\ sess' = [sess EXCEPT ![b] = s]
    BY <1>13 DEF ManagePrice
  <2>6. CASE \E w \in BOOLEAN : Advance(b, w)
    BY <1>4, <2>1, <2>6
  <2>7. CASE sess' = [sess EXCEPT ![b] = IdleSession]
    BY <1>2, <1>3, <2>7
  <2>8. CASE /\ r.status = "open" /\ d.act \notin {"error", "hold"}
             /\ sess' = [sess EXCEPT ![b] = s]
    <3>1. row[p].status # "none"
      BY <2>2, <2>8, SeenIsReal
    <3>2. /\ s.phase = "act" /\ s.todo = sess[b].todo /\ s.decision = d
          /\ s.snap = [NoSnapshot EXCEPT ![p] = row'[p]]
      BY DEF Session
    <3>3. d.act \in {"partial_close", "move_to_break_even", "trail_stop"}
      BY <2>4, <2>8 DEF Decisions
    <3>4. CASE a # b
      BY <1>1, <2>8, <3>4
    <3>5. CASE a = b
      <4>1. sess'[a] = s
        BY <1>1, <2>8, <3>5
      <4>2. Oldest(sess'[a].todo) = p
        BY <3>2, <4>1
      <4>. HIDE DEF p, d, s
      <4>3. QED
        BY <2>1, <2>2, <2>4, <3>1, <3>2, <3>3, <4>1, <4>2
    <3>6. QED
      BY <3>4, <3>5
  <2>9. QED
    BY <2>5, <2>6, <2>7, <2>8
<1>14. QED
  BY <1>1, <1>5, <1>6, <1>7, <1>8, <1>9, <1>10, <1>11, <1>12, <1>13
  DEF Next, WorkersNext, MarketStep, ApiThread, Entry, WorkerTrade, EndpointTrade,
      Execute, CreatePosition, CreateFails, AutoWorker, AutoRead, AutoAnalysis,
      AutoAnalysisFails, AutoStep, AutoDone, vars

LEMMA ActingStep ==
  ASSUME SharedInv, TypeOK', \A p \in Positions : SharedEffect(p), [Next]_vars
  PROVE  Acting'
<1> SUFFICES ASSUME NEW a \in Actors, sess'[a].phase = "act",
                    NEW p, p = Oldest(sess'[a].todo),
                    NEW d, d = sess'[a].decision
             PROVE  /\ sess'[a].snap[p].status # "none"
                    /\ Consistent(terms'[p], sess'[a].snap[p])
                    /\ d.act \in {"partial_close", "move_to_break_even", "trail_stop"}
                    /\ d.act = "partial_close" => d.quantity > 0
  BY DEF Acting, Consistent
<1>1. CASE sess'[a] = sess[a]
  <2>1. /\ sess[a].snap[p].status # "none" /\ Consistent(terms[p], sess[a].snap[p])
        /\ d.act \in {"partial_close", "move_to_break_even", "trail_stop"}
        /\ d.act = "partial_close" => d.quantity > 0
    BY <1>1 DEF SharedInv, Acting
  <2>2. p \in Positions
    BY <1>1, OldestType DEF SharedInv, ActHasPosition
  <2>3. row[p].status # "none"
    BY <2>1, <2>2 DEF SharedInv, Known
  <2>4. terms'[p] = terms[p]
    BY <2>2, <2>3 DEF SharedEffect
  <2>5. QED
    BY <1>1, <2>1, <2>4
<1>2. CASE /\ p \in Positions /\ row[p].status # "none"
           /\ sess'[a].snap = [NoSnapshot EXCEPT ![p] = row'[p]]
           /\ d.act \in {"partial_close", "move_to_break_even", "trail_stop"}
           /\ d.act = "partial_close" => d.quantity > 0
  <2>1. sess'[a].snap[p] = row'[p]
    BY <1>2 DEF NoSnapshot
  <2>2. row'[p].status # "none"
    BY <1>2, StatusStays
  <2>3. Consistent(terms'[p], row'[p])
    BY <1>2, ConsistentStep
  <2>4. QED
    BY <1>2, <2>1, <2>2, <2>3
<1>3. QED
  BY <1>1, <1>2, SessionStep

LEMMA KnownStep ==
  ASSUME SharedInv, \A p \in Positions : SharedEffect(p), [Next]_vars
  PROVE  Known'
<1> SUFFICES ASSUME NEW p \in Positions, row'[p].status = "none"
             PROVE  /\ \A a \in Actors : sess'[a].snap[p].status = "none"
                    /\ p \notin auto'.todo
  BY DEF Known
<1>1. row[p].status = "none"
  BY StatusStays
<1>2. /\ \A a \in Actors : sess[a].snap[p].status = "none"
      /\ p \notin auto.todo
  BY <1>1 DEF SharedInv, Known
<1>3. /\ NoSnapshot[p].status = "none" /\ Loaded[p].status = "none"
      /\ p \notin OpenPositions
  BY <1>1 DEF NoSnapshot, NoRow, Loaded, OpenPositions
<1>4. ASSUME NEW a \in Actors
      PROVE  sess'[a].snap[p].status = "none"
  <2>1. CASE sess'[a].snap \in {sess[a].snap, NoSnapshot, Loaded}
    BY <1>2, <1>3, <2>1
  <2>2. ASSUME NEW q \in Positions,
               sess'[a].snap = [NoSnapshot EXCEPT ![q] = row'[q]]
        PROVE  sess'[a].snap[p].status = "none"
    <3>1. p \in DOMAIN NoSnapshot
      BY DEF NoSnapshot
    <3>2. QED
      BY <1>3, <2>2, <3>1
  <2>3. QED
    BY <2>1, <2>2, SessionStep
<1>5. auto'.todo \subseteq auto.todo \cup OpenPositions
  <2>1. CASE UNCHANGED auto
    BY <2>1
  <2>2. CASE Crash
    BY <2>2 DEF Crash, IdleAuto, AutoCycle
  <2>3. ASSUME NEW q \in Positions, AutoStep(q)
        PROVE  auto'.todo = auto.todo \ {q}
    BY <2>3 DEF AutoStep, AutoCycle
  <2>4. CASE AutoWorker
    BY <2>3, <2>4 DEF AutoWorker, AutoRead, AutoAnalysis, AutoAnalysisFails,
                      AutoDone, IdleAuto, AutoCycle
  <2>5. QED
    BY <2>1, <2>2, <2>4
    DEF Next, WorkersNext, Entry, WorkerTrade, EndpointTrade, Execute, CreatePosition,
        CreateFails, MarketQuote, MarketStep, LifecycleStep, LifecycleDone,
        ManagePrice, ManageAct, ManageDone, ApiThread, ApiRequest, vars
<1>6. QED
  BY <1>2, <1>3, <1>4, <1>5

LEMMA TargetsCurrentStep ==
  ASSUME SharedInv, \A p \in Positions : SharedEffect(p), [Next]_vars
  PROVE  TargetsCurrent'
<1>1. TypeOK /\ TargetsCurrent /\ \A p \in auto.todo : p \in Positions /\ row[p].status # "none"
  BY DEF SharedInv, TypeOK, AutoCycles, Known
<1>2. CASE UNCHANGED auto
  <2>1. \A p \in auto.todo : row'[p].target = row[p].target
    BY <1>1, <1>2 DEF SharedEffect
  <2>2. QED
    BY <1>1, <1>2, <2>1 DEF TargetsCurrent
<1>3. CASE auto' = IdleAuto
  BY <1>3 DEF TargetsCurrent, IdleAuto, AutoCycle
<1>4. CASE AutoRead
  <2>1. \A p \in OpenPositions : Loaded[p] = row[p]
    BY DEF Loaded, OpenPositions
  <2>2. QED
    BY <1>4, <2>1 DEF AutoRead, TargetsCurrent, AutoCycle, data
<1>5. ASSUME NEW x \in Prices, NEW st \in Strengths, AutoAnalysis(x, st)
      PROVE  TargetsCurrent'
  BY <1>1, <1>5 DEF AutoAnalysis, TargetsCurrent, AutoCycle, data
<1>6. ASSUME NEW p \in Positions, AutoStep(p)
      PROVE  TargetsCurrent'
  <2>1. /\ auto'.phase = "apply" /\ auto'.todo \subseteq auto.todo
    BY <1>6 DEF AutoStep, AutoCycle
  <2>2. ~auto'.expired => /\ ~auto.expired /\ auto'.snap = auto.snap
                          /\ UNCHANGED row
    BY <1>6 DEF AutoStep, AutoCycle
  <2>3. QED
    BY <1>1, <2>1, <2>2 DEF TargetsCurrent
<1>7. CASE AutoWorker
  BY <1>3, <1>4, <1>5, <1>6, <1>7 DEF AutoWorker, AutoAnalysisFails, AutoDone
<1>8. QED
  BY <1>2, <1>3, <1>7
  DEF Next, WorkersNext, Entry, WorkerTrade, EndpointTrade, Execute, CreatePosition,
      CreateFails, MarketQuote, MarketStep, LifecycleStep, LifecycleDone,
      ManagePrice, ManageAct, ManageDone, ApiThread, ApiRequest, Crash, vars

LEMMA UnpersistedStep ==
  ASSUME SharedInv, \A p \in Positions : SharedEffect(p), [Next]_vars
  PROVE  Unpersisted'
<1>1. TypeOK /\ Unpersisted
  BY DEF SharedInv
<1>2. ASSUME NEW t \in Proposals, Execute(t)
      PROVE  Unpersisted'
  BY <1>1, <1>2, TradeAssumption DEF Execute, Unpersisted, TypeOK
<1>3. CASE UNCHANGED <<issued, terms>> /\ entry' \in {entry, 0}
  <2>1. ASSUME NEW p \in Positions, p > issued
        PROVE  row'[p].status = "none"
    <3>1. row[p].status = "none" /\ (entry # 0 => p # entry)
      BY <1>1, <2>1, TradeAssumption DEF Unpersisted, TypeOK
    <3>2. QED
      BY <3>1, StatusStays
  <2>2. CASE entry' # 0
    <3>1. entry \in Positions /\ entry # 0 /\ entry' = entry
      BY <1>1, <1>3, <2>2 DEF TypeOK
    <3>2. row'[entry].status = "none"
      BY <1>1, <3>1, StatusStays DEF Unpersisted
    <3>3. QED
      BY <1>1, <1>3, <2>1, <3>1, <3>2 DEF Unpersisted
  <2>3. QED
    BY <1>3, <2>1, <2>2 DEF Unpersisted
<1>4. CASE CreatePosition \/ CreateFails \/ AutoWorker \/ Crash \/ UNCHANGED vars
  BY <1>3, <1>4
  DEF CreatePosition, CreateFails, AutoWorker, AutoRead, AutoAnalysis,
      AutoAnalysisFails, AutoStep, AutoDone, Crash, data, vars
<1>5. CASE MarketStep \/ ApiThread \/ \E x \in Prices : MarketQuote(x)
  BY <1>3, <1>5
  DEF MarketStep, LifecycleStep, LifecycleDone, ManagePrice, ManageAct, ManageDone,
      ApiThread, ApiRequest, MarketQuote, data
<1>6. QED
  BY <1>2, <1>4, <1>5 DEF Next, WorkersNext, Entry, WorkerTrade, EndpointTrade

LEMMA SharedInit == Init => SharedInv
<1> SUFFICES ASSUME Init
             PROVE  SharedInv
  OBVIOUS
<1>1. TypeOK /\ ActHasPosition
  BY TypeInit
<1>2. Acting
  BY DEF Init, Acting, IdleSession, Session
<1>3. Known /\ TargetsCurrent
  BY DEF Init, Known, TargetsCurrent, IdleSession, Session, NoSnapshot, NoRow,
         IdleAuto, AutoCycle
<1>4. Unpersisted
  BY DEF Init, Unpersisted, NoRow
<1>5. ASSUME NEW p \in Positions
      PROVE  Consistent(terms[p], row[p])
  <2>1. row[p] = NoRow /\ terms[p] = NoTerms
    BY DEF Init
  <2>2. Pnl(NoTerms, 0, 0) = 0
    BY EmptyTypes, PnlOfNothing
  <2>3. QED
    BY <2>1, <2>2 DEF Consistent, NoRow, NotReduced
<1>6. QED
  BY <1>1, <1>2, <1>3, <1>4, <1>5 DEF SharedInv

LEMMA SharedStep == SharedInv /\ [Next]_vars => SharedInv'
<1> SUFFICES ASSUME SharedInv, [Next]_vars
             PROVE  SharedInv'
  OBVIOUS
<1>1. TypeOK' /\ ActHasPosition'
  BY TypeStep, ActHasPositionStep DEF SharedInv
<1>2. \A p \in Positions : SharedEffect(p)
  BY NextShared
<1>3. Acting' /\ Known' /\ TargetsCurrent' /\ Unpersisted'
  BY <1>1, <1>2, ActingStep, KnownStep, TargetsCurrentStep, UnpersistedStep
<1>4. \A p \in Positions : Consistent(terms[p], row[p])'
  BY <1>1, <1>2, ConsistentStep DEF Consistent
<1>5. QED
  BY <1>1, <1>3, <1>4 DEF SharedInv

LEMMA SharedInvariant == Spec => []SharedInv
BY SharedInit, SharedStep, PTL DEF Spec

-----------------------------------------------------------------------------
(* What follows                                                            *)

\* A partial close takes what it books out of the open quantity, also when
\* the endpoint's thread and the market loop reduce the same position from
\* snapshots the other one has overtaken (mark_partial_close).
THEOREM QuantityExact == Spec => []OpenQuantityExact
<1>1. SharedInv => OpenQuantityExact
  BY DEF SharedInv, Consistent, OpenQuantityExact
<1>2. QED
  BY <1>1, SharedInvariant, PTL

\* A partial close books the profit of its own price and quantity, whoever
\* made it and whatever another manager has written since.
THEOREM ReductionsBooked == Spec => []ReductionBooked
<1>1. SharedInv => ReductionBooked
  BY DEF SharedInv, Consistent, ReductionBooked
<1>2. QED
  BY <1>1, SharedInvariant, PTL

\* Nobody brings a target closer: the one worker that writes targets writes
\* from targets that are still those of the table.
THEOREM TargetsOnlyAdvance == Spec => TargetsNeverRecede
<1> DEFINE Advances ==
             \A p \in Positions : row[p].status # "none" =>
               ~Ahead(terms[p].direction, row[p].target, row'[p].target)
<1>1. SharedInv /\ [Next]_vars => [Advances]_vars
  <2> SUFFICES ASSUME SharedInv, [Next]_vars, NEW p \in Positions,
                      row[p].status # "none"
               PROVE  ~Ahead(terms[p].direction, row[p].target, row'[p].target)
    OBVIOUS
  <2>1. TypeOK'
    BY TypeStep DEF SharedInv
  <2>2. row[p].target \in Int /\ row'[p].target \in Int
    BY <2>1 DEF SharedInv, TypeOK, Rows
  <2>3. \/ row'[p].target = row[p].target
        \/ Ahead(terms[p].direction, row'[p].target, row[p].target)
    BY NextShared DEF SharedEffect
  <2>4. QED
    BY <2>2, <2>3 DEF Ahead
<1>2. QED
  BY <1>1, SharedInvariant, PTL DEF Spec, TargetsNeverRecede

-----------------------------------------------------------------------------
(***************************************************************************)
(* The workers of the process, one coroutine at a time (WorkersSpec: the   *)
(* endpoint's thread does not run).                                        *)
(*                                                                         *)
(* They keep the books: every step opens, reduces or closes one position   *)
(* or touches no books at all (StepEffect), from which the accounting      *)
(* invariants, the finality of a close and the refinement of               *)
(* TradeLifecycle follow.                                                  *)
(*                                                                         *)
(* The market loop protects the open positions: in a cycle it closes what  *)
(* the quoted price has hit, only ever tightens the stops of the others,   *)
(* and gives up early for the reasons AbortOnlyAtEntry names               *)
(* (ProtectionInv).                                                        *)
(***************************************************************************)

\* One coroutine at a time is between two awaits, and the endpoint's thread
\* does not run.
Alone ==
  /\ sess["api"].phase = "idle"
  /\ sess["market"].phase # "idle" => auto.phase # "apply" /\ entry = 0

\* What the market session knows of a position it still has to deal with is
\* what the table holds.
Current ==
  LET s == sess["market"]
  IN  /\ s.phase # "idle" => s.price \in Prices
      /\ s.phase \in {"lifecycle", "manage"} =>
           s.expired \/ \A p \in s.todo : s.snap[p] = row[p]
      /\ s.phase = "act" =>
           /\ s.todo # {}
           /\ s.snap[Oldest(s.todo)] = row[Oldest(s.todo)]
           /\ s.decision.act \in {"partial_close", "move_to_break_even", "trail_stop"}
           /\ s.decision.act = "partial_close" => s.decision.quantity > 0

\* The books of one position.
Books(p) ==
  /\ row[p].status = "none" => row[p].left = 0 /\ row[p].reduced = NotReduced
  /\ row[p].status = "open" =>
       /\ row[p].left > 0
       /\ row[p].reduced.quantity >= 0
       /\ row[p].left + row[p].reduced.quantity = terms[p].quantity
  /\ row[p].status = "closed" =>
       /\ row[p].left = 0
       /\ row[p].reduced.quantity \in 0 .. (terms[p].quantity - 1)
       /\ row[p].pnl = Pnl(terms[p], row[p].price,
                           terms[p].quantity - row[p].reduced.quantity)
  /\ row[p].reduced.pnl =
       Pnl(terms[p], row[p].reduced.price, row[p].reduced.quantity)

WorkersInv ==
  /\ TypeOK /\ ActHasPosition
  /\ SharedInv
  /\ Alone /\ Current
  /\ \A p \in Positions : Books(p)

-----------------------------------------------------------------------------
(* What a step does to the books of a position                             *)

Kept(p) ==
  /\ row'[p].status = row[p].status
  /\ row'[p].left = row[p].left
  /\ row'[p].reduced = row[p].reduced
  /\ row[p].status = "closed" =>
       row'[p].price = row[p].price /\ row'[p].pnl = row[p].pnl

OpenedNow(p) ==
  /\ p = entry /\ entry # 0 /\ entry' = 0
  /\ row[p].status = "none"
  /\ terms[p] \in Proposals
  /\ row'[p] = NewRow(terms[p])

ReducedNow(p) ==
  /\ row[p].status = "open" /\ row'[p].status = "open"
  /\ row[p].reduced.quantity = 0
  /\ \E x \in Prices : \E q \in 1 .. row[p].left - 1 :
       /\ row'[p].left = row[p].left - q
       /\ row'[p].reduced = [quantity |-> q, price |-> x,
                             pnl |-> row[p].reduced.pnl + Pnl(terms[p], x, q)]

ClosedNow(p) ==
  /\ row[p].status = "open" /\ row'[p].status = "closed"
  /\ row'[p].left = 0
  /\ row'[p].reduced = row[p].reduced
  /\ \E x \in Prices : /\ row'[p].price = x
                       /\ row'[p].pnl = Pnl(terms[p], x, row[p].left)

Effect(p) == Kept(p) \/ OpenedNow(p) \/ ReducedNow(p) \/ ClosedNow(p)

\* At most one position is affected; the terms of a trade that has a row
\* stay what they are.
StepEffect ==
  /\ \/ \A p \in Positions : Kept(p)
     \/ \E p \in Positions : /\ Effect(p)
                             /\ \A q \in Positions \ {p} : row'[q] = row[q]
                             /\ terms' = terms
  /\ \A p \in Positions : row[p].status # "none" => terms'[p] = terms[p]

LEMMA CommitFresh ==
  ASSUME TypeOK, NEW p \in Positions, NEW new \in Rows, Commit(p, row[p], new)
  PROVE  row' = [row EXCEPT ![p] = new]
BY MergeFresh DEF Commit, TypeOK

-----------------------------------------------------------------------------
(* Every step has one of those effects                                     *)

\* One position gets a new row: what that makes of the others.
LEMMA OneRow ==
  ASSUME TypeOK, NEW p \in Positions, NEW new,
         row' = [row EXCEPT ![p] = new], UNCHANGED terms, Effect(p)
  PROVE  StepEffect
<1>1. \A q \in Positions \ {p} : row'[q] = row[q]
  BY DEF TypeOK
<1>2. QED
  BY <1>1 DEF StepEffect

LEMMA NoRowChanges ==
  ASSUME UNCHANGED <<row, terms>>
  PROVE  StepEffect
BY DEF StepEffect, Kept

LEMMA LifecycleEffect ==
  ASSUME WorkersInv, LifecycleStep
  PROVE  StepEffect
<1> DEFINE p == Oldest(sess["market"].todo)
           r == Seen("market", p)
           x == sess["market"].price
           new == IF Exits(terms[p], r, x) THEN Closed(terms[p], r, x)
                                           ELSE Marked(terms[p], r, x)
<1>1. TypeOK /\ Current /\ "market" \in Actors
  BY DEF WorkersInv, Actors
<1>2. p \in sess["market"].todo /\ p \in Positions /\ x \in Int
  BY <1>1, OldestType, OldestMember DEF LifecycleStep, TypeOK, Sessions
<1>3. x \in Prices
  BY <1>1 DEF LifecycleStep, Current
<1>4. r = row[p]
  BY <1>1, <1>2 DEF LifecycleStep, Current, Seen
<1>5. row[p] \in Rows /\ terms[p] \in Terms
  BY <1>1, <1>2 DEF TypeOK
<1>6. CASE r.status = "open"
  <2>1. new \in Rows
    BY <1>2, <1>4, <1>5, RowTypes
  <2>2. Commit(p, row[p], new) /\ UNCHANGED terms
    BY <1>4, <1>6 DEF LifecycleStep
  <2>3. row' = [row EXCEPT ![p] = new]
    BY <1>1, <1>2, <2>1, <2>2, CommitFresh
  <2>4. row'[p] = new
    BY <1>1, <1>2, <2>3 DEF TypeOK
  <2>5. CASE Exits(terms[p], r, x)
    <3>1. row'[p] = Closed(terms[p], row[p], x)
      BY <1>4, <2>4, <2>5
    <3>2. ClosedNow(p)
      BY <1>2, <1>3, <1>4, <1>5, <1>6, <3>1, ClosedColumns DEF ClosedNow
    <3>3. QED
      BY <1>1, <1>2, <2>2, <2>3, <3>2, OneRow DEF Effect
  <2>6. CASE ~Exits(terms[p], r, x)
    <3>1. row'[p] = Marked(terms[p], row[p], x)
      BY <1>4, <2>4, <2>6
    <3>2. Kept(p)
      BY <1>2, <1>4, <1>5, <1>6, <3>1, MarkedColumns DEF Kept
    <3>3. QED
      BY <1>1, <1>2, <2>2, <2>3, <3>2, OneRow DEF Effect
  <2>7. QED
    BY <2>5, <2>6
<1>7. CASE r.status # "open"
  BY <1>7, NoRowChanges DEF LifecycleStep
<1>8. QED
  BY <1>6, <1>7

LEMMA ManagePriceEffect ==
  ASSUME WorkersInv, ManagePrice("market")
  PROVE  StepEffect
<1> DEFINE p == Oldest(sess["market"].todo)
           r == Seen("market", p)
           x == sess["market"].price
<1>1. TypeOK /\ Current /\ "market" \in Actors
  BY DEF WorkersInv, Actors
<1>2. p \in sess["market"].todo /\ p \in Positions /\ x \in Int
  BY <1>1, OldestType, OldestMember DEF ManagePrice, TypeOK, Sessions
<1>3. r = row[p]
  BY <1>1, <1>2 DEF ManagePrice, Current, Seen
<1>4. row[p] \in Rows /\ terms[p] \in Terms
  BY <1>1, <1>2 DEF TypeOK
<1>5. CASE Commit(p, r, Marked(terms[p], r, x)) /\ r.status = "open"
  <2>1. Marked(terms[p], row[p], x) \in Rows
    BY <1>2, <1>4, RowTypes
  <2>2. row' = [row EXCEPT ![p] = Marked(terms[p], row[p], x)]
    BY <1>1, <1>2, <1>3, <1>5, <2>1, CommitFresh
  <2>3. row'[p] = Marked(terms[p], row[p], x)
    BY <1>1, <1>2, <2>2 DEF TypeOK
  <2>4. Kept(p)
    BY <1>2, <1>3, <1>4, <1>5, <2>3, MarkedColumns DEF Kept
  <2>5. UNCHANGED terms
    BY DEF ManagePrice
  <2>6. QED
    BY <1>1, <1>2, <2>2, <2>4, <2>5, OneRow DEF Effect
<1>6. CASE UNCHANGED row
  BY <1>6, NoRowChanges DEF ManagePrice
<1>7. QED
  BY <1>5, <1>6 DEF ManagePrice

LEMMA ManageActEffect ==
  ASSUME WorkersInv, ManageAct("market")
  PROVE  StepEffect
<1> DEFINE p == Oldest(sess["market"].todo)
           r == sess["market"].snap[p]
           d == sess["market"].decision
           x == sess["market"].price
           new == Managed(terms[p], r, d, x)
<1>1. TypeOK /\ Current /\ ActHasPosition /\ "market" \in Actors
  BY DEF WorkersInv, Actors
<1>2. sess["market"].todo # {}
  BY <1>1 DEF ManageAct, ActHasPosition
<1>3. p \in Positions /\ x \in Int /\ d \in Decisions /\ d.quantity \in Int
  BY <1>1, <1>2, OldestType DEF Decisions
<1>4. r = row[p] /\ x \in Prices
  BY <1>1 DEF ManageAct, Current
<1>5. /\ d.act \in {"partial_close", "move_to_break_even", "trail_stop"}
      /\ d.act = "partial_close" => d.quantity > 0
  BY <1>1 DEF ManageAct, Current
<1>6. row[p] \in Rows /\ terms[p] \in Terms /\ Books(p)
  BY <1>1, <1>3 DEF TypeOK, WorkersInv
<1>7. CASE ActRefused(r, d)
  BY <1>7, NoRowChanges DEF ManageAct
<1>8. CASE ~ActRefused(r, d)
  <2>1. new \in Rows
    BY <1>3, <1>4, <1>6, RowTypes
  <2>2. Commit(p, row[p], new) /\ UNCHANGED terms
    BY <1>4, <1>8 DEF ManageAct
  <2>3. row' = [row EXCEPT ![p] = new]
    BY <1>1, <1>3, <2>1, <2>2, CommitFresh
  <2>4. row'[p] = Managed(terms[p], row[p], d, x)
    BY <1>1, <1>3, <1>4, <2>3 DEF TypeOK
  <2>5. row[p].status = "open" => row[p].reduced.quantity >= 0
    BY <1>6 DEF Books
  <2>6. Kept(p) \/ ReducedNow(p)
    <3>1. CASE /\ row[p].status = "open"
               /\ d.act \notin {"move_to_break_even", "trail_stop"}
               /\ row[p].reduced.quantity = 0
               /\ row'[p] = Reduced(terms[p], row[p], d.quantity, x)
      <4>1. d.act = "partial_close" /\ d.quantity > 0
        BY <1>5, <3>1
      <4>2. d.quantity < row[p].left /\ row[p].left \in Int
        BY <1>3, <1>4, <1>6, <1>8, <3>1, <4>1 DEF ActRefused, Rows
      <4>3. d.quantity \in 1 .. row[p].left - 1
        BY <1>3, <4>1, <4>2
      <4>4. /\ row'[p].status = row[p].status
            /\ row'[p].left = row[p].left - d.quantity
            /\ row'[p].reduced =
                 [quantity |-> d.quantity, price |-> x,
                  pnl |-> row[p].reduced.pnl + Pnl(terms[p], x, d.quantity)]
        <5>1. /\ row[p] \in Rows /\ terms[p] \in Terms
              /\ d.quantity \in Int /\ x \in Int
          BY <1>3, <1>6
        <5>2. row'[p] = Reduced(terms[p], row[p], d.quantity, x)
          BY <3>1
        <5>. HIDE DEF p, d, x
        <5>3. QED
          BY <5>1, <5>2, ReducedColumns
      <4>5. QED
        BY <1>4, <3>1, <4>3, <4>4, Zenon DEF ReducedNow
    <3>2. CASE /\ row'[p].status = row[p].status
               /\ row'[p].left = row[p].left
               /\ row'[p].reduced = row[p].reduced
               /\ row'[p].price = row[p].price
               /\ row'[p].pnl = row[p].pnl
      BY <3>2 DEF Kept
    <3>3. QED
      BY <1>3, <1>6, <2>4, <2>5, <3>1, <3>2, ManagedColumns
  <2>7. QED
    BY <1>1, <1>3, <2>2, <2>3, <2>6, OneRow DEF Effect
<1>9. QED
  BY <1>7, <1>8

\* The Stage 17.5 worker may commit what it decided on stale rows: only the
\* levels it changed reach the table.
LEMMA AutoEffect ==
  ASSUME WorkersInv, NEW p \in Positions, AutoStep(p)
  PROVE  StepEffect
<1> DEFINE r == IF auto.expired THEN row[p] ELSE auto.snap[p]
           d == AutomaticEvaluate(AutoInput(terms[p], r))
           new == [r EXCEPT !.stop = d.stop, !.target = d.target]
<1>1. TypeOK
  BY DEF WorkersInv
<1>2. r \in Rows
  BY <1>1 DEF TypeOK, AutoCycles
<1>3. CASE Commit(p, r, new)
  <2>1. /\ new.status = r.status /\ new.left = r.left /\ new.reduced = r.reduced
        /\ new.price = r.price /\ new.pnl = r.pnl
    BY <1>2 DEF Rows
  <2>2. row' = [row EXCEPT ![p] = Merge(row[p], r, new)]
    BY <1>1, <1>3 DEF Commit, TypeOK
  <2>3. row'[p] = Merge(row[p], r, new)
    BY <1>1, <2>2 DEF TypeOK
  <2>4. Kept(p)
    BY <2>1, <2>3 DEF Merge, Kept
  <2>5. UNCHANGED terms
    BY DEF AutoStep
  <2>6. QED
    BY <1>1, <2>2, <2>4, <2>5, OneRow DEF Effect
<1>4. CASE UNCHANGED row
  BY <1>4, NoRowChanges DEF AutoStep
<1>5. QED
  BY <1>3, <1>4 DEF AutoStep

LEMMA StepHasEffect ==
  ASSUME WorkersInv, [WorkersNext]_vars
  PROVE  StepEffect
<1>1. TypeOK /\ Unpersisted
  BY DEF WorkersInv, SharedInv
<1>2. ASSUME NEW t \in Proposals, Execute(t)
      PROVE  StepEffect
  <2>1. UNCHANGED row /\ terms' = [terms EXCEPT ![issued + 1] = t]
    BY <1>2 DEF Execute
  <2>2. issued + 1 \in Positions => row[issued + 1].status = "none"
    BY <1>1 DEF TypeOK, Unpersisted
  <2>3. \A p \in Positions : row[p].status # "none" => terms'[p] = terms[p]
    BY <1>1, <2>1, <2>2 DEF TypeOK
  <2>4. QED
    BY <2>1, <2>3 DEF StepEffect, Kept
<1>3. CASE CreatePosition
  <2>1. entry \in Positions /\ row' = [row EXCEPT ![entry] = NewRow(terms[entry])]
    BY <1>1, <1>3 DEF CreatePosition, TypeOK
  <2>2. OpenedNow(entry)
    BY <1>1, <1>3, <2>1 DEF CreatePosition, Unpersisted, OpenedNow, TypeOK
  <2>3. QED
    BY <1>1, <1>3, <2>1, <2>2, OneRow DEF Effect, CreatePosition
<1>4. CASE MarketStep
  <2>1. CASE LifecycleDone \/ ManageDone("market")
    BY <2>1, NoRowChanges DEF LifecycleDone, ManageDone, data
  <2>2. QED
    BY <1>4, <2>1, LifecycleEffect, ManagePriceEffect, ManageActEffect DEF MarketStep
<1>5. CASE AutoWorker
  <2>1. CASE AutoRead \/ AutoAnalysisFails \/ AutoDone
    BY <2>1, NoRowChanges DEF AutoRead, AutoAnalysisFails, AutoDone, data
  <2>2. ASSUME NEW x \in Prices, NEW st \in Strengths, AutoAnalysis(x, st)
        PROVE  StepEffect
    BY <2>2, NoRowChanges DEF AutoAnalysis, data
  <2>3. QED
    BY <1>5, <2>1, <2>2, AutoEffect DEF AutoWorker
<1>6. CASE CreateFails \/ Crash \/ UNCHANGED vars
  BY <1>6, NoRowChanges DEF CreateFails, Crash, vars, data
<1>7. ASSUME NEW x \in Prices, MarketQuote(x)
      PROVE  StepEffect
  BY <1>7, NoRowChanges DEF MarketQuote, data
<1>8. QED
  BY <1>2, <1>3, <1>4, <1>5, <1>6, <1>7
  DEF WorkersNext, Entry, WorkerTrade, EndpointTrade

-----------------------------------------------------------------------------
(* The books stay right                                                    *)

LEMMA BooksKept ==
  ASSUME WorkersInv, TypeOK', StepEffect, NEW p \in Positions
  PROVE  Books(p)'
<1>1. /\ TypeOK /\ Books(p)
      /\ row[p] \in Rows /\ row'[p] \in Rows
      /\ terms[p] \in Terms /\ terms'[p] \in Terms
  BY DEF WorkersInv, TypeOK
<1>2. CASE Kept(p) /\ terms'[p] = terms[p]
  BY <1>1, <1>2 DEF Kept, Books
<1>3. CASE Kept(p) /\ row[p].status = "none"
  <2>1. /\ row'[p].status = "none" /\ row'[p].left = 0
        /\ row'[p].reduced = NotReduced
    BY <1>1, <1>3 DEF Kept, Books
  <2>2. Pnl(terms'[p], 0, 0) = 0
    BY <1>1, PnlOfNothing
  <2>3. QED
    BY <2>1, <2>2 DEF Books, NotReduced
<1>4. CASE OpenedNow(p) /\ terms'[p] = terms[p]
  <2>1. /\ row'[p].status = "open" /\ row'[p].left = terms[p].quantity
        /\ row'[p].reduced = NotReduced
    BY <1>4 DEF OpenedNow, NewRow
  <2>2. Pnl(terms'[p], 0, 0) = 0
    BY <1>1, PnlOfNothing
  <2>3. terms[p].quantity > 0 /\ terms[p].quantity \in Int
    BY <1>4, TradeAssumption DEF OpenedNow, IsProposal
  <2>4. QED
    BY <1>4, <2>1, <2>2, <2>3 DEF Books, NotReduced
<1>5. CASE ReducedNow(p) /\ terms'[p] = terms[p]
  <2>1. PICK x \in Prices, q \in 1 .. row[p].left - 1 :
          /\ row'[p].left = row[p].left - q
          /\ row'[p].reduced = [quantity |-> q, price |-> x,
                                pnl |-> row[p].reduced.pnl + Pnl(terms[p], x, q)]
    BY <1>5 DEF ReducedNow
  <2>2. x \in Int /\ q \in Int /\ row[p].left \in Int
    BY <1>1, TradeAssumption DEF Rows
  <2>3. row[p].reduced.pnl = 0
    <3>1. row[p].reduced.pnl = Pnl(terms[p], row[p].reduced.price, 0)
      BY <1>1, <1>5 DEF Books, ReducedNow
    <3>2. row[p].reduced.price \in Int
      BY <1>1 DEF Rows, Reductions
    <3>3. QED
      BY <1>1, <3>1, <3>2, PnlOfNothing
  <2>4. Pnl(terms[p], x, q) \in Int
    BY <1>1, <2>2, PnlType
  <2>5. row'[p].reduced.pnl = Pnl(terms[p], x, q)
    BY <2>1, <2>3, <2>4
  <2>6. /\ row'[p].left > 0 /\ row'[p].reduced.quantity >= 0
        /\ row'[p].left + row'[p].reduced.quantity = terms[p].quantity
    BY <1>1, <1>5, <2>1, <2>2 DEF Books, ReducedNow
  <2>7. row'[p].reduced.price = x /\ row'[p].reduced.quantity = q
    BY <2>1
  <2>8. QED
    BY <1>5, <2>5, <2>6, <2>7 DEF Books, ReducedNow
<1>6. CASE ClosedNow(p) /\ terms'[p] = terms[p]
  <2>1. /\ row[p].left + row[p].reduced.quantity = terms[p].quantity
        /\ row[p].left \in Int /\ row[p].reduced.quantity \in Int
        /\ terms[p].quantity \in Int
    BY <1>1, <1>6 DEF Books, ClosedNow, Rows, Reductions, Terms
  <2>2. row[p].left = terms[p].quantity - row[p].reduced.quantity
    BY <2>1
  <2>3. row[p].reduced.quantity \in 0 .. (terms[p].quantity - 1)
    BY <1>1, <1>6, <2>1 DEF Books, ClosedNow
  <2>4. QED
    BY <1>1, <1>6, <2>2, <2>3 DEF Books, ClosedNow
<1>7. CASE row'[p] = row[p]
  BY <1>2, <1>3, <1>7 DEF Kept, StepEffect
<1>8. QED
  BY <1>2, <1>3, <1>4, <1>5, <1>6, <1>7 DEF StepEffect, Effect

-----------------------------------------------------------------------------
(* The rest of the invariant                                               *)

LEMMA WorkersInit == Init => WorkersInv
<1> SUFFICES ASSUME Init
             PROVE  WorkersInv
  OBVIOUS
<1>1. TypeOK /\ ActHasPosition
  BY TypeInit
<1>2. Alone /\ Current
  BY DEF Init, Alone, Current, IdleSession, Session, Actors
<1>3. SharedInv
  BY SharedInit
<1>4. ASSUME NEW p \in Positions
      PROVE  Books(p)
  <2>1. row[p] = NoRow /\ terms[p] = NoTerms
    BY DEF Init
  <2>2. Pnl(NoTerms, 0, 0) = 0
    BY EmptyTypes, PnlOfNothing
  <2>3. QED
    BY <2>1, <2>2 DEF Books, NoRow, NotReduced
<1>5. QED
  BY <1>1, <1>2, <1>3, <1>4 DEF WorkersInv

LEMMA AloneStep ==
  ASSUME WorkersInv, [WorkersNext]_vars
  PROVE  Alone'
<1>1. TypeOK /\ Alone /\ "market" \in Actors /\ "api" \in Actors /\ "market" # "api"
  BY DEF WorkersInv, Actors
<1>2. ASSUME NEW t \in Proposals, Execute(t)
      PROVE  Alone'
  BY <1>1, <1>2 DEF Execute, Alone, LoopFree
<1>3. CASE CreatePosition \/ CreateFails
  BY <1>1, <1>3 DEF CreatePosition, CreateFails, Alone
<1>4. ASSUME NEW x \in Prices, MarketQuote(x)
      PROVE  Alone'
  BY <1>1, <1>4 DEF MarketQuote, Alone, LoopFree, TypeOK
<1>5. CASE MarketStep
  <2>1. UNCHANGED <<auto, entry>>
    BY <1>5 DEF MarketStep, LifecycleStep, LifecycleDone, ManagePrice, ManageAct,
                ManageDone
  <2>2. sess["market"].phase # "idle"
    BY <1>5 DEF MarketStep, LifecycleStep, LifecycleDone, ManagePrice, ManageAct,
                ManageDone
  <2>3. sess'["api"] = sess["api"]
    BY <1>1, <1>5
    DEF MarketStep, LifecycleStep, LifecycleDone, ManagePrice, ManageAct,
        ManageDone, Advance, TypeOK
  <2>4. QED
    BY <1>1, <2>1, <2>2, <2>3 DEF Alone
<1>6. CASE AutoWorker
  <2>1. UNCHANGED <<sess, entry>>
    BY <1>6 DEF AutoWorker, AutoRead, AutoAnalysis, AutoAnalysisFails, AutoStep, AutoDone
  <2>2. auto'.phase = "apply" => auto.phase = "apply" \/ LoopFree
    BY <1>6 DEF AutoWorker, AutoRead, AutoAnalysis, AutoAnalysisFails, AutoStep,
                AutoDone, IdleAuto, AutoCycle
  <2>3. QED
    BY <1>1, <2>1, <2>2 DEF Alone, LoopFree
<1>7. CASE Crash
  BY <1>1, <1>7 DEF Crash, Alone, IdleSession, Session
<1>8. CASE UNCHANGED vars
  BY <1>1, <1>8 DEF vars, Alone
<1>9. QED
  BY <1>2, <1>3, <1>4, <1>5, <1>6, <1>7, <1>8
  DEF WorkersNext, Entry, WorkerTrade, EndpointTrade

\* A market session that has not committed yet holds current rows: nobody
\* else moves during its cycle, and a commit of its own expires it.
LEMMA CurrentStep ==
  ASSUME WorkersInv, [WorkersNext]_vars
  PROVE  Current'
<1>1. /\ TypeOK /\ ActHasPosition /\ Alone /\ Current
      /\ "market" \in Actors /\ sess["market"] \in Sessions
  BY DEF WorkersInv, Actors, TypeOK
<1>2. CASE sess'["market"].phase = "idle"
  BY <1>2 DEF Current
<1>3. CASE UNCHANGED <<row, sess>>
  BY <1>1, <1>3 DEF Current
<1>4. ASSUME NEW x \in Prices, MarketQuote(x)
      PROVE  Current'
  <2>1. sess'["market"] = Session("lifecycle", x, OpenPositions, Loaded, FALSE, Hold)
    BY <1>1, <1>4 DEF MarketQuote, TypeOK
  <2>2. UNCHANGED row
    BY <1>4 DEF MarketQuote, data
  <2>3. \A p \in OpenPositions : Loaded[p] = row[p]
    BY DEF Loaded, OpenPositions
  <2>4. QED
    BY <2>1, <2>2, <2>3 DEF Current, Session
<1>5. CASE LifecycleStep
  <2>1. sess["market"].phase = "lifecycle" /\ sess["market"].price \in Prices
    BY <1>1, <1>5 DEF LifecycleStep, Current
  <2>2. ASSUME NEW w \in BOOLEAN, Advance("market", w), w \/ UNCHANGED row
        PROVE  Current'
    <3>1. /\ sess'["market"].phase = "lifecycle"
          /\ sess'["market"].price = sess["market"].price
          /\ sess'["market"].expired = (sess["market"].expired \/ w)
          /\ sess'["market"].todo \subseteq sess["market"].todo
          /\ ~w => sess'["market"].snap = sess["market"].snap
      BY <1>1, <2>1, <2>2 DEF Advance, Session, TypeOK
    <3>2. QED
      BY <1>1, <2>1, <2>2, <3>1 DEF Current
  <2>3. QED
    BY <1>5, <2>2 DEF LifecycleStep
<1>6. CASE LifecycleDone
  <2>1. sess'["market"] = Session("manage", sess["market"].price, OpenPositions,
                                  Loaded, FALSE, Hold)
    BY <1>1, <1>6 DEF LifecycleDone, TypeOK
  <2>2. UNCHANGED row /\ sess["market"].price \in Prices
    BY <1>1, <1>6 DEF LifecycleDone, Current, data
  <2>3. \A p \in OpenPositions : Loaded[p] = row[p]
    BY DEF Loaded, OpenPositions
  <2>4. QED
    BY <2>1, <2>2, <2>3 DEF Current, Session
<1>7. CASE ManagePrice("market")
  <2> DEFINE p == Oldest(sess["market"].todo)
             r == Seen("market", p)
             x == sess["market"].price
             d == AdvancedEvaluate(SnapshotOf(terms[p], r, x))
  <2>1. /\ sess["market"].phase = "manage" /\ sess["market"].todo # {}
        /\ x \in Prices
    BY <1>1, <1>7 DEF ManagePrice, Current
  <2>2. p \in Positions /\ x \in Int
    BY <1>1, <2>1, OldestType
  <2>3. r \in Rows /\ terms[p] \in Terms
    BY <1>1, <2>2, SeenType DEF TypeOK
  <2>4. d \in Decisions /\ (d.act = "partial_close" => d.quantity > 0)
    BY <2>2, <2>3, SnapshotType, AdvancedDecision
  <2>5. ASSUME NEW w \in BOOLEAN, Advance("market", w), w \/ UNCHANGED row
        PROVE  Current'
    <3>1. /\ sess'["market"].phase = "manage" /\ sess'["market"].price = x
          /\ sess'["market"].expired = (sess["market"].expired \/ w)
          /\ sess'["market"].todo \subseteq sess["market"].todo
          /\ ~w => sess'["market"].snap = sess["market"].snap
      BY <1>1, <2>1, <2>5 DEF Advance, Session, TypeOK
    <3>2. QED
      BY <1>1, <2>1, <2>5, <3>1 DEF Current
  <2>6. CASE /\ sess' = [sess EXCEPT !["market"] =
                           Session("act", x, @.todo,
                                   [NoSnapshot EXCEPT ![p] = row'[p]], TRUE, d)]
             /\ d.act \notin {"error", "hold"}
    <3>1. sess'["market"] = Session("act", x, sess["market"].todo,
                                    [NoSnapshot EXCEPT ![p] = row'[p]], TRUE, d)
      BY <1>1, <2>6 DEF TypeOK
    <3>2. [NoSnapshot EXCEPT ![p] = row'[p]][p] = row'[p]
      BY <2>2 DEF NoSnapshot
    <3>3. d.act \in {"partial_close", "move_to_break_even", "trail_stop"}
      BY <2>4, <2>6 DEF Decisions
    <3>4. QED
      BY <2>1, <2>4, <3>1, <3>2, <3>3 DEF Current, Session
  <2>7. CASE sess' = [sess EXCEPT !["market"] = IdleSession]
    BY <1>1, <1>2, <2>7 DEF TypeOK, IdleSession, Session
  <2>8. QED
    BY <1>7, <2>5, <2>6, <2>7 DEF ManagePrice
<1>8. CASE ManageAct("market")
  <2>1. CASE sess' = [sess EXCEPT !["market"] = IdleSession]
    BY <1>1, <1>2, <2>1 DEF TypeOK, IdleSession, Session
  <2>2. CASE sess' = [sess EXCEPT !["market"] =
                        Session("manage", @.price, @.todo \ {Oldest(@.todo)},
                                NoSnapshot, TRUE, Hold)]
    <3>1. sess'["market"] =
            Session("manage", sess["market"].price,
                    sess["market"].todo \ {Oldest(sess["market"].todo)},
                    NoSnapshot, TRUE, Hold)
      BY <1>1, <2>2 DEF TypeOK
    <3>2. sess["market"].price \in Prices
      BY <1>1, <1>8 DEF ManageAct, Current
    <3>3. QED
      BY <3>1, <3>2 DEF Current, Session
  <2>3. QED
    BY <1>8, <2>1, <2>2 DEF ManageAct
<1>9. CASE ManageDone("market") \/ Crash
  BY <1>1, <1>2, <1>9 DEF ManageDone, Crash, IdleSession, Session, TypeOK
<1>10. CASE Entry
  <2>1. UNCHANGED sess
    BY <1>10 DEF Entry, WorkerTrade, EndpointTrade, Execute, CreatePosition, CreateFails
  <2>2. CASE CreatePosition
    BY <1>1, <1>2, <2>1, <2>2 DEF CreatePosition, Alone
  <2>3. CASE ~CreatePosition
    BY <1>3, <1>10, <2>1, <2>3
    DEF Entry, WorkerTrade, EndpointTrade, Execute, CreateFails, data
  <2>4. QED
    BY <2>2, <2>3
<1>11. CASE AutoWorker
  <2>1. UNCHANGED sess
    BY <1>11 DEF AutoWorker, AutoRead, AutoAnalysis, AutoAnalysisFails, AutoStep, AutoDone
  <2>2. ASSUME NEW p \in Positions, AutoStep(p)
        PROVE  Current'
    BY <1>1, <1>2, <2>1, <2>2 DEF AutoStep, Alone
  <2>3. QED
    BY <1>3, <1>11, <2>1, <2>2
    DEF AutoWorker, AutoRead, AutoAnalysis, AutoAnalysisFails, AutoDone, data
<1>12. CASE UNCHANGED vars
  BY <1>3, <1>12 DEF vars
<1>13. QED
  BY <1>4, <1>5, <1>6, <1>7, <1>8, <1>9, <1>10, <1>11, <1>12
  DEF WorkersNext, MarketStep

LEMMA WorkersStep == WorkersInv /\ [WorkersNext]_vars => WorkersInv'
<1> SUFFICES ASSUME WorkersInv, [WorkersNext]_vars
             PROVE  WorkersInv'
  OBVIOUS
<1>1. [Next]_vars
  BY DEF Next
<1>2. TypeOK' /\ ActHasPosition' /\ SharedInv'
  BY <1>1, TypeStep, ActHasPositionStep, SharedStep DEF WorkersInv
<1>3. Alone' /\ Current'
  BY AloneStep, CurrentStep
<1>4. \A p \in Positions : Books(p)'
  BY <1>2, StepHasEffect, BooksKept
<1>5. QED
  BY <1>2, <1>3, <1>4 DEF WorkersInv

LEMMA WorkersInvariant == WorkersSpec => []WorkersInv
BY WorkersInit, WorkersStep, PTL DEF WorkersSpec

-----------------------------------------------------------------------------
(* What follows                                                            *)

\* The books of a closed position balance: every unit is paid once.
THEOREM BooksBalance == WorkersSpec => []ClosedBooksBalance
<1>1. WorkersInv => ClosedBooksBalance
  BY DEF WorkersInv, Books, ClosedBooksBalance
<1>2. QED
  BY <1>1, WorkersInvariant, PTL

\* What the audit recomputes of a closed position is what was stored.
LEMMA AuditAgrees ==
  ASSUME TypeOK, NEW p \in ClosedPositions, Books(p)
  PROVE  /\ ~Warned(p)
         /\ PartialClosePnl(p) + FinalPositionPnl(p) = StoredTotalPnl(p)
         /\ Correction(p) = 0
<1> DEFINE t == terms[p]
           x == row[p].reduced
<1>1. /\ p \in Positions /\ row[p].status = "closed"
      /\ t \in Terms /\ row[p] \in Rows /\ x \in Reductions
  BY DEF ClosedPositions, TypeOK, Rows
<1>2. /\ t.quantity \in Int /\ t.entry \in Int /\ t.direction \in Directions
      /\ x.quantity \in Int /\ x.price \in Int /\ x.pnl \in Int
      /\ row[p].price \in Int /\ row[p].pnl \in Int
  BY <1>1 DEF Terms, Rows, Reductions
<1>3. x.quantity >= 0 /\ x.quantity < t.quantity
  BY <1>1, <1>2 DEF Books
<1>4. PartialClosePnl(p) = x.pnl
  <2>1. x.pnl = Move(t.direction, t.entry, x.price) * x.quantity * ContractSize
    BY <1>1 DEF Books, Pnl
  <2>2. CASE x.quantity > 0
    BY <2>1, <2>2, <1>2 DEF PartialClosePnl, PricePnl, PartialQuantity, PartialClosePrice
  <2>3. CASE x.quantity = 0
    <3>1. Move(t.direction, t.entry, x.price) \in Int /\ ContractSize \in Int
      BY <1>2, TradeAssumption DEF Move
    <3>2. Move(t.direction, t.entry, x.price) * 0 = 0 /\ 0 * ContractSize = 0
      BY <3>1
    <3>3. x.pnl = 0
      BY <2>1, <2>3, <3>2
    <3>4. QED
      BY <2>3, <3>3 DEF PartialClosePnl, PricePnl, PartialQuantity
  <2>4. QED
    BY <1>2, <1>3, <2>2, <2>3
<1>5. FinalPositionPnl(p) = row[p].pnl
  <2>1. RemainingQuantity(p) = t.quantity - x.quantity
    BY <1>2, <1>3 DEF RemainingQuantity, OriginalQuantity, PartialQuantity
  <2>2. t.quantity - x.quantity > 0
    BY <1>2, <1>3
  <2>3. QED
    BY <1>1, <2>1, <2>2, <1>2
       DEF Books, Pnl, FinalPositionPnl, PricePnl, FinalExitPrice
<1>6. QED
  BY <1>2, <1>3, <1>4, <1>5
     DEF Warned, OriginalQuantity, PartialQuantity, Correction, StoredTotalPnl,
         StoredPartialClosePnl, StoredFinalPnl

\* The monthly audit, which recomputes every closed trade from its prices
\* and quantities, corrects nothing, warns of nothing, and reports what a
\* report over the stored results would.
THEOREM AuditAgreesWithBooks == WorkersSpec => []AuditFindsNothing
<1>1. WorkersInv => AuditFindsNothing
  <2> SUFFICES ASSUME WorkersInv PROVE AuditFindsNothing
    OBVIOUS
  <2>1. \A p \in ClosedPositions :
          /\ ~Warned(p)
          /\ PartialClosePnl(p) + FinalPositionPnl(p) = StoredTotalPnl(p)
          /\ Correction(p) = 0
    BY AuditAgrees DEF WorkersInv, ClosedPositions
  <2>2. AuditedResults = StoredResults
    BY <2>1 DEF AuditedResults, StoredResults
  <2>3. Differences = {} /\ Warnings = {}
    BY <2>1 DEF Differences, Warnings
  <2>4. QED
    BY <2>2, <2>3, Zenon DEF AuditFindsNothing
<1>2. QED
  BY <1>1, WorkersInvariant, PTL

\* No worker changes the result of a closed position, the Stage 17.5 worker
\* writing from stale reads included.
THEOREM CloseIsFinal == WorkersSpec => ClosedIsFinal
<1> DEFINE Final(p) == row[p].status = "closed" =>
                         /\ row'[p].status = "closed"
                         /\ row'[p].left = row[p].left
                         /\ row'[p].price = row[p].price
                         /\ row'[p].pnl = row[p].pnl
                         /\ row'[p].reduced = row[p].reduced
<1>1. WorkersInv /\ [WorkersNext]_vars => [\A p \in Positions : Final(p)]_vars
  <2> SUFFICES ASSUME WorkersInv, [WorkersNext]_vars, NEW p \in Positions
               PROVE  Final(p)
    OBVIOUS
  <2>1. StepEffect
    BY StepHasEffect
  <2>2. Effect(p) \/ row'[p] = row[p]
    BY <2>1 DEF StepEffect, Effect
  <2>3. QED
    BY <2>2 DEF Effect, Kept, OpenedNow, ReducedNow, ClosedNow
<1>2. QED
  BY <1>1, WorkersInvariant, PTL DEF WorkersSpec, ClosedIsFinal

-----------------------------------------------------------------------------
(* The workers implement the abstract life of a trade                      *)

abstractTerms == [p \in Positions |-> TermsOf(p)]
abstractTrade == [p \in Positions |-> TradeOf(p)]

LEMMA LifecycleInit == Init => Lifecycle!Init
<1> SUFFICES ASSUME Init
             PROVE  Lifecycle!Init
  OBVIOUS
<1>1. \A p \in Positions : TermsOf(p) = NoTerms
  BY DEF Init, TermsOf, NoRow
<1>2. \A p \in Positions : TradeOf(p) = Lifecycle!NoTrade
  BY DEF Init, TradeOf, NoRow, NotReduced, Lifecycle!NoTrade
<1>3. QED
  BY <1>1, <1>2 DEF Lifecycle!Init, Lifecycle!NoTerms, NoTerms

\* The two modules mean the same by a profit.
LEMMA SamePnl == \A t, x, q : Lifecycle!Pnl(t, x, q) = Pnl(t, x, q)
BY DEF Lifecycle!Pnl, Pnl, Lifecycle!Move, Move

\* A position whose books are kept looks the same from above.
LEMMA KeptStutters ==
  ASSUME WorkersInv, StepEffect, NEW p \in Positions, Kept(p)
  PROVE  TermsOf(p)' = TermsOf(p) /\ TradeOf(p)' = TradeOf(p)
<1>1. TradeOf(p)' = TradeOf(p)
  BY DEF TradeOf, Kept
<1>2. TermsOf(p)' = TermsOf(p)
  BY DEF TermsOf, Kept, StepEffect
<1>3. QED
  BY <1>1, <1>2

LEMMA LifecycleRefines ==
  ASSUME WorkersInv, TypeOK', StepEffect
  PROVE  [Lifecycle!Next]_<<abstractTerms, abstractTrade>>
<1>1. CASE \A p \in Positions : Kept(p)
  BY <1>1, KeptStutters DEF abstractTerms, abstractTrade
<1>2. ASSUME NEW p \in Positions, Effect(p), ~Kept(p), terms' = terms,
             \A q \in Positions \ {p} : row'[q] = row[q]
      PROVE  Lifecycle!Next
  <2>1. \A q \in Positions \ {p} : TermsOf(q)' = TermsOf(q) /\ TradeOf(q)' = TradeOf(q)
    BY <1>2 DEF TermsOf, TradeOf
  <2>2. abstractTrade' = [abstractTrade EXCEPT ![p] = TradeOf(p)']
    BY <2>1 DEF abstractTrade
  <2>3. abstractTerms' = [abstractTerms EXCEPT ![p] = TermsOf(p)']
    BY <2>1 DEF abstractTerms
  <2>4. abstractTrade[p] = TradeOf(p) /\ abstractTerms[p] = TermsOf(p)
    BY DEF abstractTrade, abstractTerms
  <2>5. /\ TypeOK /\ Books(p) /\ row[p] \in Rows /\ row'[p] \in Rows
        /\ terms[p] \in Terms
    BY DEF WorkersInv, TypeOK
  <2>6. CASE OpenedNow(p)
    <3>1. TradeOf(p) = Lifecycle!NoTrade
      BY <2>5, <2>6 DEF OpenedNow, Books, TradeOf, NotReduced, Lifecycle!NoTrade
    <3>2. /\ terms[p] \in Proposals /\ TermsOf(p)' = terms[p]
          /\ TradeOf(p)' = [state |-> "open", left |-> terms[p].quantity, booked |-> 0]
      BY <1>2, <2>6 DEF OpenedNow, TermsOf, TradeOf, NewRow, NotReduced
    <3>3. abstractTrade[p].state = "none"
      BY <2>4, <3>1 DEF Lifecycle!NoTrade
    <3>4. /\ abstractTerms' = [abstractTerms EXCEPT ![p] = terms[p]]
          /\ abstractTrade' = [abstractTrade EXCEPT ![p] =
               [state |-> "open", left |-> terms[p].quantity, booked |-> 0]]
      BY <2>2, <2>3, <3>2
    <3>5. Lifecycle!Open(p)
      BY <3>2, <3>3, <3>4, Zenon DEF Lifecycle!Open, abstractTerms, abstractTrade
    <3>6. QED
      BY <3>5 DEF Lifecycle!Next
  <2>7. CASE ReducedNow(p)
    <3>1. PICK x \in Prices, q \in 1 .. row[p].left - 1 :
            /\ row'[p].left = row[p].left - q
            /\ row'[p].reduced = [quantity |-> q, price |-> x,
                                  pnl |-> row[p].reduced.pnl + Pnl(terms[p], x, q)]
      BY <2>7 DEF ReducedNow
    <3>2. /\ TermsOf(p)' = TermsOf(p) /\ TermsOf(p) = terms[p]
          /\ row[p].left = terms[p].quantity
      BY <1>2, <2>5, <2>7 DEF ReducedNow, TermsOf, Books, Rows, Reductions, Terms
    <3>3. TradeOf(p) = [state |-> "open", left |-> row[p].left,
                        booked |-> row[p].reduced.pnl]
      BY <2>5, <2>7 DEF TradeOf, ReducedNow, Rows, Reductions
    <3>4. Pnl(terms[p], x, q) \in Int /\ row[p].reduced.pnl \in Int
      BY <2>5, PnlType, TradeAssumption DEF Rows, Reductions
    <3>5. TradeOf(p)' = [state |-> "open", left |-> row[p].left - q,
                         booked |-> row[p].reduced.pnl + Pnl(terms[p], x, q)]
      BY <2>7, <3>1, <3>4 DEF TradeOf, ReducedNow
    <3>6. abstractTerms' = abstractTerms
      BY <2>3, <2>4, <3>2 DEF abstractTerms
    <3>fields. /\ abstractTrade[p].state = "open"
          /\ abstractTrade[p].left = row[p].left
          /\ abstractTrade[p].booked = row[p].reduced.pnl
          /\ abstractTerms[p] = terms[p]
      BY <2>4, <3>2, <3>3
    <3>profit. Lifecycle!Pnl(abstractTerms[p], x, q) = Pnl(terms[p], x, q)
      BY <3>fields, SamePnl
    <3>7. /\ abstractTrade[p].state = "open"
          /\ abstractTrade[p].left = abstractTerms[p].quantity
          /\ q \in 1 .. abstractTrade[p].left - 1
          /\ abstractTrade' = [abstractTrade EXCEPT ![p] =
               [state |-> "open", left |-> abstractTrade[p].left - q,
                booked |-> abstractTrade[p].booked
                           + Lifecycle!Pnl(abstractTerms[p], x, q)]]
      BY <2>2, <3>2, <3>5, <3>fields, <3>profit
    <3>8. Lifecycle!Reduce(p)
      BY <3>6, <3>7, Zenon DEF Lifecycle!Reduce, abstractTerms, abstractTrade
    <3>9. QED
      BY <3>8 DEF Lifecycle!Next
  <2>8. CASE ClosedNow(p)
    <3>1. PICK x \in Prices : /\ row'[p].price = x
                              /\ row'[p].pnl = Pnl(terms[p], x, row[p].left)
      BY <2>8 DEF ClosedNow
    <3>2. TermsOf(p)' = TermsOf(p) /\ TermsOf(p) = terms[p]
      BY <1>2, <2>8 DEF ClosedNow, TermsOf
    <3>3. TradeOf(p) = [state |-> "open", left |-> row[p].left,
                        booked |-> row[p].reduced.pnl]
      BY <2>5, <2>8 DEF TradeOf, ClosedNow, Rows, Reductions
    <3>4. TradeOf(p)' = [state |-> "closed", left |-> 0,
                         booked |-> row[p].reduced.pnl + Pnl(terms[p], x, row[p].left)]
      BY <2>8, <3>1 DEF TradeOf, ClosedNow
    <3>5. abstractTerms' = abstractTerms
      BY <2>3, <2>4, <3>2 DEF abstractTerms
    <3>fields. /\ abstractTrade[p].state = "open"
          /\ abstractTrade[p].left = row[p].left
          /\ abstractTrade[p].booked = row[p].reduced.pnl
          /\ abstractTerms[p] = terms[p]
      BY <2>4, <3>2, <3>3
    <3>profit. Lifecycle!Pnl(abstractTerms[p], x, abstractTrade[p].left)
            = Pnl(terms[p], x, row[p].left)
      BY <3>fields, SamePnl
    <3>6. /\ abstractTrade[p].state = "open"
          /\ abstractTrade' = [abstractTrade EXCEPT ![p] =
               [state |-> "closed", left |-> 0,
                booked |-> abstractTrade[p].booked
                           + Lifecycle!Pnl(abstractTerms[p], x,
                                           abstractTrade[p].left)]]
      BY <2>2, <3>4, <3>fields, <3>profit
    <3>7. Lifecycle!Close(p)
      BY <3>5, <3>6, Zenon DEF Lifecycle!Close, abstractTerms, abstractTrade
    <3>8. QED
      BY <3>7 DEF Lifecycle!Next
  <2>9. QED
    BY <1>2, <2>6, <2>7, <2>8 DEF Effect
<1>3. CASE \E p \in Positions : /\ Effect(p)
                                /\ \A q \in Positions \ {p} : row'[q] = row[q]
                                /\ terms' = terms
  <2>1. PICK p \in Positions : /\ Effect(p)
                               /\ \A q \in Positions \ {p} : row'[q] = row[q]
                               /\ terms' = terms
    BY <1>3
  <2>2. CASE Kept(p)
    <3>1. \A q \in Positions : Kept(q)
      BY <2>1, <2>2 DEF Kept
    <3>2. QED
      BY <1>1, <3>1
  <2>3. QED
    BY <1>2, <2>1, <2>2
<1>4. QED
  BY <1>1, <1>3 DEF StepEffect

\* The workers, sessions and crashes of the process implement the abstract
\* life of a trade.
THEOREM ImplementsLifecycle == WorkersSpec => ImplementsTradeLifecycle
<1>1. WorkersInv /\ WorkersInv' /\ [WorkersNext]_vars =>
        [Lifecycle!Next]_<<abstractTerms, abstractTrade>>
  BY StepHasEffect, LifecycleRefines DEF WorkersInv
<1>2. QED
  BY <1>1, WorkersInvariant, LifecycleInit, PTL
  DEF WorkersSpec, ImplementsTradeLifecycle, Lifecycle!Spec, abstractTerms, abstractTrade


-----------------------------------------------------------------------------
(* What the managers decide                                                *)

\* A stop the advanced manager sets is behind the price and an improvement.
LEMMA AdvancedStop ==
  ASSUME NEW s \in Snapshots,
         AdvancedEvaluate(s).act \in {"move_to_break_even", "trail_stop"}
  PROVE  /\ Ahead(s.direction, s.price, AdvancedEvaluate(s).stop)
         /\ Ahead(s.direction, AdvancedEvaluate(s).stop, s.stop)
<1>1. Ahead(s.direction, s.price, TrailingStop(s))
  BY ConfigAssumption DEF Snapshots, Directions, TrailingStop, Shift, Ahead
<1>2. \/ BreakEvenDue(s) /\ AdvancedEvaluate(s).stop = BreakEvenStop(s)
      \/ TrailDue(s) /\ AdvancedEvaluate(s).stop = TrailingStop(s)
  BY DEF AdvancedEvaluate, Decision, Hold
<1>3. QED
  BY <1>1, <1>2 DEF BreakEvenDue, TrailDue, StopImproves

\* A partial close leaves something open.
LEMMA PartialLeavesRest ==
  ASSUME NEW s \in Snapshots, AdvancedEvaluate(s).act = "partial_close"
  PROVE  AdvancedEvaluate(s).quantity < s.quantity
<1> DEFINE q == PartialCloseQuantity(s)
           n == s.quantity
<1>1. AdvancedEvaluate(s).quantity = q /\ q > 0
  BY DEF AdvancedEvaluate, Decision, Hold, PartialCloseDue
<1>2. n > 0 /\ n \in Int
  BY DEF AdvancedEvaluate, Decision, ValidSnapshot, Snapshots
<1>3. n * PartialClosePercent <= n * 99
  BY <1>2, ConfigAssumption
<1>4. q \in Int /\ q * 100 <= n * PartialClosePercent
  BY <1>2, ConfigAssumption DEF PartialCloseQuantity
<1>5. q < n
  <2>1. n * PartialClosePercent \in Int
    BY <1>2, ConfigAssumption
  <2>2. q * 100 <= n * 99
    BY <1>2, <1>3, <1>4, <2>1
  <2>. HIDE DEF q, n
  <2>3. QED
    BY <1>2, <1>4, <2>2
<1>6. QED
  BY <1>1, <1>5

\* The advanced manager raises for these reasons only.
LEMMA AdvancedRaises ==
  ASSUME NEW s \in Snapshots, AdvancedEvaluate(s).act = "error"
  PROVE  \/ ~ValidSnapshot(s)
         \/ s.stop = s.entry
         \/ s.direction = "buy" /\ s.price <= TrailingDistance
<1>1. CASE ValidSnapshot(s) /\ RiskDistance(s) = 0
  BY <1>1 DEF RiskDistance, Distance, Snapshots
<1>2. CASE ValidSnapshot(s) /\ TrailingStop(s) <= 0
  BY <1>2, ConfigAssumption
  DEF TrailingStop, Shift, ValidSnapshot, Snapshots, Directions
<1>3. QED
  BY <1>1, <1>2 DEF AdvancedEvaluate, Decision, Hold

-----------------------------------------------------------------------------
(* The inductive invariant                                                 *)

\* Neither level of the row is hit at price x.
Clear(t, r, x) == ~HitStop(t, r, x) /\ ~HitTarget(t, r, x)

\* During a cycle an open position the lifecycle half has dealt with, or has
\* not, is out of reach of the quoted price.
Sheltered ==
  LET s == sess["market"]
  IN  s.phase # "idle" =>
        \A p \in OpenPositions :
          \/ s.phase = "lifecycle" /\ p \in s.todo
          \/ Clear(terms[p], row[p], s.price)

\* What the manager has decided still fits the row it is going to act on.
Decided ==
  LET s == sess["market"]
      p == Oldest(s.todo)
      d == s.decision
  IN  s.phase = "act" =>
        /\ d.act \in {"move_to_break_even", "trail_stop"} =>
             /\ Ahead(terms[p].direction, s.price, d.stop)
             /\ Ahead(terms[p].direction, d.stop, row[p].stop)
        /\ d.act = "partial_close" => d.quantity < row[p].left

\* The levels of an open position, whoever moved them, stay positive, and
\* the target stays ahead of entry.
Levels(p) ==
  row[p].status = "open" =>
    /\ terms[p] \in Proposals
    /\ row[p].stop > 0 /\ row[p].target > 0
    /\ Ahead(terms[p].direction, row[p].target, terms[p].entry)

ProtectionInv ==
  /\ WorkersInv
  /\ Sheltered /\ Decided
  /\ \A p \in Positions : Levels(p)

-----------------------------------------------------------------------------
(* What the steps of the market loop write                                 *)

LEMMA LifecycleWrites ==
  ASSUME WorkersInv, LifecycleStep,
         NEW p, p = Oldest(sess["market"].todo),
         NEW x, x = sess["market"].price
  PROVE  /\ p \in Positions /\ x \in Prices /\ UNCHANGED terms
         /\ sess["market"].phase = "lifecycle"
         /\ sess'["market"].phase = "lifecycle"
         /\ sess'["market"].price = x
         /\ sess'["market"].todo = sess["market"].todo \ {p}
         /\ \/ row[p].status # "open" /\ UNCHANGED row
            \/ /\ row[p].status = "open"
               /\ row' = [row EXCEPT ![p] =
                            IF Exits(terms[p], row[p], x)
                              THEN Closed(terms[p], row[p], x)
                              ELSE Marked(terms[p], row[p], x)]
<1> DEFINE r == Seen("market", p)
           new == IF Exits(terms[p], r, x) THEN Closed(terms[p], r, x)
                                           ELSE Marked(terms[p], r, x)
<1>1. TypeOK /\ Current /\ "market" \in Actors
  BY DEF WorkersInv, Actors
<1>2. p \in sess["market"].todo /\ p \in Positions /\ x \in Int
  BY <1>1, OldestType, OldestMember DEF LifecycleStep, TypeOK, Sessions
<1>3. x \in Prices /\ sess["market"].phase = "lifecycle"
  BY <1>1 DEF LifecycleStep, Current
<1>4. r = row[p]
  BY <1>1, <1>2 DEF LifecycleStep, Current, Seen
<1>5. row[p] \in Rows /\ terms[p] \in Terms
  BY <1>1, <1>2 DEF TypeOK
<1>6. \/ r.status # "open" /\ UNCHANGED row /\ Advance("market", FALSE)
      \/ r.status = "open" /\ Commit(p, r, new) /\ Advance("market", TRUE)
  BY DEF LifecycleStep
<1>7. \A w : Advance("market", w) =>
        /\ sess'["market"].phase = "lifecycle"
        /\ sess'["market"].price = x
        /\ sess'["market"].todo = sess["market"].todo \ {p}
  BY <1>1, <1>3 DEF Advance, Session, TypeOK
<1>8. new \in Rows
  BY <1>2, <1>4, <1>5, RowTypes
<1>9. Commit(p, r, new) => row' = [row EXCEPT ![p] = new]
  BY <1>1, <1>2, <1>4, <1>8, CommitFresh
<1>10. UNCHANGED terms
  BY DEF LifecycleStep
<1>11. /\ sess'["market"].phase = "lifecycle"
       /\ sess'["market"].price = x
       /\ sess'["market"].todo = sess["market"].todo \ {p}
  BY <1>6, <1>7
<1>12. \/ row[p].status # "open" /\ UNCHANGED row
       \/ row[p].status = "open" /\ row' = [row EXCEPT ![p] = new]
  BY <1>4, <1>6, <1>9
<1>13. QED
  BY <1>2, <1>3, <1>4, <1>10, <1>11, <1>12

LEMMA ManagePriceWrites ==
  ASSUME WorkersInv, ManagePrice("market"),
         NEW p, p = Oldest(sess["market"].todo),
         NEW x, x = sess["market"].price,
         NEW d, d = AdvancedEvaluate(SnapshotOf(terms[p], row[p], x))
  PROVE  /\ p \in sess["market"].todo /\ p \in Positions /\ x \in Prices
         /\ UNCHANGED terms
         /\ sess["market"].phase = "manage"
         /\ \/ row[p].status # "open" /\ UNCHANGED row
            \/ row[p].status = "open" /\ d.act = "error" /\ UNCHANGED row
            \/ /\ row[p].status = "open"
               /\ row' = [row EXCEPT ![p] = Marked(terms[p], row[p], x)]
         /\ \/ row[p].status = "open" /\ d.act = "error" /\ sess'["market"] = IdleSession
            \/ sess'["market"].phase = "manage" /\ sess'["market"].price = x
            \/ /\ row[p].status = "open" /\ d.act \notin {"error", "hold"}
               /\ sess'["market"].phase = "act" /\ sess'["market"].price = x
               /\ sess'["market"].todo = sess["market"].todo
               /\ sess'["market"].decision = d
<1> DEFINE r == Seen("market", p)
           e == AdvancedEvaluate(SnapshotOf(terms[p], r, x))
<1>1. TypeOK /\ Current /\ "market" \in Actors
  BY DEF WorkersInv, Actors
<1>2. p \in sess["market"].todo /\ p \in Positions /\ x \in Int
  BY <1>1, OldestType, OldestMember DEF ManagePrice, TypeOK, Sessions
<1>3. x \in Prices /\ sess["market"].phase = "manage"
  BY <1>1 DEF ManagePrice, Current
<1>4. r = row[p] /\ e = d
  BY <1>1, <1>2 DEF ManagePrice, Current, Seen
<1>5. row[p] \in Rows /\ terms[p] \in Terms
  BY <1>1, <1>2 DEF TypeOK
<1>6. \A w : Advance("market", w) =>
        sess'["market"].phase = "manage" /\ sess'["market"].price = x
  BY <1>1, <1>3 DEF Advance, Session, TypeOK
<1>7. Marked(terms[p], row[p], x) \in Rows
  BY <1>2, <1>5, RowTypes
<1>8. Commit(p, r, Marked(terms[p], r, x)) =>
        row' = [row EXCEPT ![p] = Marked(terms[p], row[p], x)]
  BY <1>1, <1>2, <1>4, <1>7, CommitFresh
<1>9. \/ r.status # "open" /\ UNCHANGED row /\ Advance("market", FALSE)
      \/ /\ r.status = "open" /\ e.act = "error" /\ UNCHANGED row
         /\ sess' = [sess EXCEPT !["market"] = IdleSession]
      \/ /\ r.status = "open" /\ Commit(p, r, Marked(terms[p], r, x))
         /\ Advance("market", TRUE)
      \/ /\ r.status = "open" /\ e.act \notin {"error", "hold"}
         /\ Commit(p, r, Marked(terms[p], r, x))
         /\ sess' = [sess EXCEPT !["market"] =
                       Session("act", x, @.todo,
                               [NoSnapshot EXCEPT ![p] = row'[p]], TRUE, e)]
  BY DEF ManagePrice
<1>10. UNCHANGED terms
  BY DEF ManagePrice
<1>11. \/ row[p].status # "open" /\ UNCHANGED row
       \/ row[p].status = "open" /\ d.act = "error" /\ UNCHANGED row
       \/ /\ row[p].status = "open"
          /\ row' = [row EXCEPT ![p] = Marked(terms[p], row[p], x)]
  BY <1>4, <1>8, <1>9
<1>12. ASSUME sess' = [sess EXCEPT !["market"] =
                         Session("act", x, @.todo,
                                 [NoSnapshot EXCEPT ![p] = row'[p]], TRUE, e)]
       PROVE  /\ sess'["market"].phase = "act" /\ sess'["market"].price = x
              /\ sess'["market"].todo = sess["market"].todo
              /\ sess'["market"].decision = e
  BY <1>1, <1>12 DEF Session, TypeOK
<1>13. ASSUME sess' = [sess EXCEPT !["market"] = IdleSession]
       PROVE  sess'["market"] = IdleSession
  BY <1>1, <1>13 DEF TypeOK
<1>14. \/ row[p].status = "open" /\ d.act = "error" /\ sess'["market"] = IdleSession
       \/ sess'["market"].phase = "manage" /\ sess'["market"].price = x
       \/ /\ row[p].status = "open" /\ d.act \notin {"error", "hold"}
          /\ sess'["market"].phase = "act" /\ sess'["market"].price = x
          /\ sess'["market"].todo = sess["market"].todo
          /\ sess'["market"].decision = d
  BY <1>4, <1>6, <1>9, <1>12, <1>13
<1>15. QED
  BY <1>2, <1>3, <1>10, <1>11, <1>14

LEMMA ManageActWrites ==
  ASSUME WorkersInv, ManageAct("market"),
         NEW p, p = Oldest(sess["market"].todo),
         NEW x, x = sess["market"].price,
         NEW d, d = sess["market"].decision
  PROVE  /\ p \in Positions /\ x \in Prices /\ d \in Decisions /\ UNCHANGED terms
         /\ sess["market"].phase = "act"
         /\ d.act \in {"partial_close", "move_to_break_even", "trail_stop"}
         /\ \/ /\ ActRefused(row[p], d) /\ UNCHANGED row
               /\ sess'["market"] = IdleSession
            \/ /\ row' = [row EXCEPT ![p] = Managed(terms[p], row[p], d, x)]
               /\ sess'["market"].phase = "manage" /\ sess'["market"].price = x
<1> DEFINE r == sess["market"].snap[p]
<1>1. TypeOK /\ Current /\ ActHasPosition /\ "market" \in Actors
  BY DEF WorkersInv, Actors
<1>2. sess["market"].todo # {} /\ sess["market"].phase = "act"
  BY <1>1 DEF ManageAct, ActHasPosition
<1>3. p \in Positions /\ x \in Int /\ d \in Decisions
  BY <1>1, <1>2, OldestType
<1>4. r = row[p] /\ x \in Prices
  BY <1>1, <1>2 DEF Current
<1>5. d.act \in {"partial_close", "move_to_break_even", "trail_stop"}
  BY <1>1, <1>2 DEF Current
<1>6. Managed(terms[p], row[p], d, x) \in Rows
  <2>1. row[p] \in Rows /\ terms[p] \in Terms
    BY <1>1, <1>3 DEF TypeOK
  <2>2. QED
    BY <1>3, <2>1, RowTypes
<1>7. Commit(p, r, Managed(terms[p], r, d, x)) =>
        row' = [row EXCEPT ![p] = Managed(terms[p], row[p], d, x)]
  BY <1>1, <1>3, <1>4, <1>6, CommitFresh
<1>8. \/ /\ ActRefused(r, d) /\ UNCHANGED row
         /\ sess' = [sess EXCEPT !["market"] = IdleSession]
      \/ /\ Commit(p, r, Managed(terms[p], r, d, x))
         /\ sess' = [sess EXCEPT !["market"] =
                       Session("manage", @.price, @.todo \ {p},
                               NoSnapshot, TRUE, Hold)]
  BY DEF ManageAct
<1>9. ASSUME sess' = [sess EXCEPT !["market"] =
                        Session("manage", @.price, @.todo \ {p},
                                NoSnapshot, TRUE, Hold)]
      PROVE  sess'["market"].phase = "manage" /\ sess'["market"].price = x
  BY <1>1, <1>9 DEF Session, TypeOK
<1>10. ASSUME sess' = [sess EXCEPT !["market"] = IdleSession]
       PROVE  sess'["market"] = IdleSession
  BY <1>1, <1>10 DEF TypeOK
<1>11. UNCHANGED terms
  BY DEF ManageAct
<1>12. \/ /\ ActRefused(row[p], d) /\ UNCHANGED row
          /\ sess'["market"] = IdleSession
       \/ /\ row' = [row EXCEPT ![p] = Managed(terms[p], row[p], d, x)]
          /\ sess'["market"].phase = "manage" /\ sess'["market"].price = x
  BY <1>4, <1>7, <1>8, <1>9, <1>10
<1>13. QED
  BY <1>2, <1>3, <1>4, <1>5, <1>11, <1>12

\* Whatever is not a step of the market loop leaves its session alone, and
\* writes rows or terms only between two cycles.
LEMMA OthersWait ==
  ASSUME WorkersInv, Entry \/ AutoWorker \/ UNCHANGED vars
  PROVE  /\ UNCHANGED sess
         /\ sess["market"].phase = "idle" \/ UNCHANGED <<row, terms>>
<1>1. Alone
  BY DEF WorkersInv
<1>2. CASE Entry
  BY <1>1, <1>2 DEF Entry, WorkerTrade, EndpointTrade, Execute, LoopFree,
                    CreatePosition, CreateFails, Alone
<1>3. CASE AutoWorker
  <2>1. ASSUME NEW p \in Positions, AutoStep(p)
        PROVE  UNCHANGED sess /\ sess["market"].phase = "idle"
    BY <1>1, <2>1 DEF AutoStep, Alone
  <2>2. QED
    BY <1>3, <2>1 DEF AutoWorker, AutoRead, AutoAnalysis, AutoAnalysisFails, AutoDone, data
<1>4. CASE UNCHANGED vars
  BY <1>4 DEF vars
<1>5. QED
  BY <1>2, <1>3, <1>4

-----------------------------------------------------------------------------
(* The levels                                                              *)

LEMMA PriceType == \A x \in Prices : x \in Int /\ x > 0
BY TradeAssumption

LEMMA MarkedLevels ==
  ASSUME NEW t \in Terms, NEW r \in Rows, NEW x \in Int
  PROVE  /\ Marked(t, r, x).stop = r.stop /\ Marked(t, r, x).target = r.target
         /\ Closed(t, r, x).stop = r.stop /\ Closed(t, r, x).target = r.target
BY DEF Marked, Closed, Rows

\* What a step may do to the levels of a position.
StopOk(p) == row'[p].stop = row[p].stop \/ row'[p].stop > 0

TargetOk(p) ==
  \/ row'[p].target = row[p].target
  \/ /\ row'[p].target > 0
     /\ Ahead(terms[p].direction, row'[p].target, terms[p].entry)

LEMMA LevelsKept ==
  ASSUME WorkersInv, StepEffect, NEW p \in Positions, Levels(p),
         OpenedNow(p) \/ (StopOk(p) /\ TargetOk(p))
  PROVE  Levels(p)'
<1>1. CASE OpenedNow(p)
  <2>1. row'[p].stop = terms[p].stop /\ row'[p].target = terms[p].target
    BY <1>1 DEF OpenedNow, NewRow
  <2>2. terms[p] \in Proposals /\ IsProposal(terms[p])
    BY <1>1, TradeAssumption DEF OpenedNow
  <2>3. row'[p].status # row[p].status
    BY <1>1 DEF OpenedNow, NewRow
  <2>4. terms' = terms
    BY <2>3 DEF StepEffect, Kept
  <2>5. QED
    BY <2>1, <2>2, <2>4 DEF Levels, IsProposal
<1>2. CASE ~OpenedNow(p) /\ row'[p].status = "open"
  <2>1. row[p].status = "open"
    BY <1>2 DEF StepEffect, Effect, Kept, OpenedNow, ReducedNow, ClosedNow
  <2>2. terms'[p] = terms[p]
    BY <2>1 DEF StepEffect
  <2>3. QED
    BY <1>2, <2>1, <2>2 DEF Levels, StopOk, TargetOk
<1>3. QED
  BY <1>1, <1>2 DEF Levels

LEMMA LevelsStep ==
  ASSUME ProtectionInv, [WorkersNext]_vars, NEW q \in Positions
  PROVE  Levels(q)'
<1>1. /\ TypeOK /\ WorkersInv /\ Decided /\ StepEffect
      /\ \A p \in Positions : Levels(p)
      /\ row \in [Positions -> Rows] /\ terms \in [Positions -> Terms]
  BY StepHasEffect DEF ProtectionInv, WorkersInv, TypeOK
<1>2. CASE UNCHANGED row
  BY <1>1, <1>2, LevelsKept DEF StopOk, TargetOk
<1>3. CASE CreatePosition
  <2>1. entry \in Positions /\ row' = [row EXCEPT ![entry] = NewRow(terms[entry])]
    BY <1>1, <1>3 DEF CreatePosition, TypeOK
  <2>2. OpenedNow(entry)
    BY <1>1, <1>3, <2>1 DEF CreatePosition, WorkersInv, SharedInv, Unpersisted, OpenedNow
  <2>3. CASE q = entry
    BY <1>1, <2>2, <2>3, LevelsKept
  <2>4. CASE q # entry
    <3>1. row'[q] = row[q]
      BY <1>1, <2>1, <2>4
    <3>2. QED
      BY <1>1, <3>1, LevelsKept DEF StopOk, TargetOk
  <2>5. QED
    BY <2>3, <2>4
<1>4. CASE LifecycleStep
  <2> DEFINE p == Oldest(sess["market"].todo)
             x == sess["market"].price
             new == IF Exits(terms[p], row[p], x) THEN Closed(terms[p], row[p], x)
                                                  ELSE Marked(terms[p], row[p], x)
  <2>1. /\ p \in Positions /\ x \in Prices
        /\ UNCHANGED row \/ row' = [row EXCEPT ![p] = new]
    BY <1>1, <1>4, LifecycleWrites
  <2>2. new.stop = row[p].stop /\ new.target = row[p].target
    <3>1. x \in Int
      BY <2>1, PriceType
    <3>2. row[p] \in Rows /\ terms[p] \in Terms
      BY <1>1, <2>1
    <3>3. QED
      BY <3>1, <3>2, MarkedLevels
  <2>. HIDE DEF p, new
  <2>3. row'[q].stop = row[q].stop /\ row'[q].target = row[q].target
    BY <1>1, <2>1, <2>2
  <2>4. QED
    BY <1>1, <2>3, LevelsKept DEF StopOk, TargetOk
<1>5. CASE ManagePrice("market")
  <2> DEFINE p == Oldest(sess["market"].todo)
             x == sess["market"].price
  <2>1. /\ p \in Positions /\ x \in Prices
        /\ UNCHANGED row \/ row' = [row EXCEPT ![p] = Marked(terms[p], row[p], x)]
    BY <1>1, <1>5, ManagePriceWrites
  <2>2. /\ Marked(terms[p], row[p], x).stop = row[p].stop
        /\ Marked(terms[p], row[p], x).target = row[p].target
    <3>1. x \in Int
      BY <2>1, PriceType
    <3>2. row[p] \in Rows /\ terms[p] \in Terms
      BY <1>1, <2>1
    <3>3. QED
      BY <3>1, <3>2, MarkedLevels
  <2>. HIDE DEF p
  <2>3. row'[q].stop = row[q].stop /\ row'[q].target = row[q].target
    BY <1>1, <2>1, <2>2
  <2>4. QED
    BY <1>1, <2>3, LevelsKept DEF StopOk, TargetOk
<1>6. CASE ManageAct("market")
  <2> DEFINE p == Oldest(sess["market"].todo)
             x == sess["market"].price
             d == sess["market"].decision
             new == Managed(terms[p], row[p], d, x)
  <2>1. /\ p \in Positions /\ x \in Prices /\ d \in Decisions
        /\ sess["market"].phase = "act"
        /\ UNCHANGED row \/ row' = [row EXCEPT ![p] = new]
    BY <1>1, <1>6, ManageActWrites
  <2>2. x \in Int /\ x > 0 /\ row[p] \in Rows /\ terms[p] \in Terms
    BY <1>1, <2>1, TradeAssumption
  <2>3. /\ new.target = row[p].target
        /\ \/ new.stop = row[p].stop
           \/ /\ row[p].status = "open"
              /\ d.act \in {"move_to_break_even", "trail_stop"}
              /\ new.stop = d.stop
    BY <2>1, <2>2, ManagedLevels
  <2>4. d.act \in {"move_to_break_even", "trail_stop"} =>
          /\ Ahead(terms[p].direction, x, d.stop)
          /\ Ahead(terms[p].direction, d.stop, row[p].stop)
    BY <1>1, <2>1 DEF Decided
  <2>5. row[p].status = "open" => row[p].stop > 0
    BY <1>1, <2>1 DEF Levels
  <2>. HIDE DEF p, new, x, d
  <2>6. new.stop = row[p].stop \/ new.stop > 0
    BY <2>1, <2>2, <2>3, <2>4, <2>5 DEF Ahead, Decisions, Rows
  <2>7. StopOk(q) /\ row'[q].target = row[q].target
    BY <1>1, <2>1, <2>3, <2>6 DEF StopOk
  <2>8. QED
    BY <1>1, <2>7, LevelsKept DEF TargetOk
<1>7. ASSUME NEW p \in Positions, AutoStep(p)
      PROVE  Levels(q)'
  <2> DEFINE r == IF auto.expired THEN row[p] ELSE auto.snap[p]
             d == AutomaticEvaluate(AutoInput(terms[p], r))
  <2>1. CASE q = p
    <3>1. StopOk(q) /\ TargetOk(q)
      BY <1>1, <1>7, <2>1, AutoLevels DEF StopOk, TargetOk
    <3>2. QED
      BY <1>1, <3>1, LevelsKept
  <2>2. CASE q # p
    <3>1. row'[q] = row[q]
      BY <1>1, <1>7, <2>2, AutoLevels
    <3>2. QED
      BY <1>1, <3>1, LevelsKept DEF StopOk, TargetOk
  <2>3. QED
    BY <2>1, <2>2
<1>8. QED
  BY <1>2, <1>3, <1>4, <1>5, <1>6, <1>7
  DEF WorkersNext, MarketStep, Entry, WorkerTrade, EndpointTrade, Execute, CreateFails,
      MarketQuote, LifecycleDone, ManageDone, AutoWorker, AutoRead, AutoAnalysis,
      AutoAnalysisFails, AutoDone, Crash, data, vars

-----------------------------------------------------------------------------
(* Every step keeps the market session sheltered and its decision fitting  *)

\* Only the levels matter for being clear of a price.
LEMMA ClearLevels ==
  ASSUME NEW t, NEW r, NEW u, NEW x, u.stop = r.stop, u.target = r.target,
         Clear(t, r, x)
  PROVE  Clear(t, u, x)
BY DEF Clear, HitStop, HitTarget

LEMMA ShelterStep ==
  ASSUME ProtectionInv, [WorkersNext]_vars
  PROVE  Sheltered' /\ Decided'
<1>1. /\ TypeOK /\ WorkersInv /\ Sheltered /\ Decided /\ "market" \in Actors
      /\ \A q \in Positions : Levels(q)
      /\ row \in [Positions -> Rows] /\ terms \in [Positions -> Terms]
  BY DEF ProtectionInv, WorkersInv, TypeOK, Actors
<1>2. CASE sess'["market"].phase = "idle"
  BY <1>2 DEF Sheltered, Decided
<1>3. CASE Entry \/ AutoWorker \/ UNCHANGED vars
  <2>1. UNCHANGED sess
    BY <1>1, <1>3, OthersWait
  <2>2. CASE UNCHANGED <<row, terms>>
    BY <1>1, <2>1, <2>2 DEF Sheltered, Decided, OpenPositions
  <2>3. QED
    BY <1>1, <1>2, <1>3, <2>1, <2>2, OthersWait
<1>4. ASSUME NEW x \in Prices, MarketQuote(x)
      PROVE  Sheltered' /\ Decided'
  <2>1. /\ sess'["market"].phase = "lifecycle"
        /\ sess'["market"].todo = OpenPositions
        /\ OpenPositions' = OpenPositions
    BY <1>1, <1>4 DEF MarketQuote, Session, TypeOK, OpenPositions, data
  <2>2. QED
    BY <2>1 DEF Sheltered, Decided
<1>5. CASE LifecycleStep
  <2> DEFINE p == Oldest(sess["market"].todo)
             x == sess["market"].price
             new == IF Exits(terms[p], row[p], x) THEN Closed(terms[p], row[p], x)
                                                  ELSE Marked(terms[p], row[p], x)
  <2>1. /\ p \in Positions /\ x \in Int /\ UNCHANGED terms
        /\ sess["market"].phase = "lifecycle"
        /\ sess'["market"].phase = "lifecycle"
        /\ sess'["market"].price = x
        /\ sess'["market"].todo = sess["market"].todo \ {p}
        /\ \/ row[p].status # "open" /\ UNCHANGED row
           \/ row[p].status = "open" /\ row' = [row EXCEPT ![p] = new]
    BY <1>1, <1>5, LifecycleWrites, PriceType
  <2>2. row[p] \in Rows /\ terms[p] \in Terms
    BY <1>1, <2>1
  <2>3. new.status = "open" => Clear(terms[p], new, x)
    <3>1. CASE Exits(terms[p], row[p], x)
      BY <2>1, <2>2, <3>1, ClosedColumns
    <3>2. CASE ~Exits(terms[p], row[p], x)
      <4>1. Clear(terms[p], row[p], x)
        BY <3>2 DEF Exits, Clear
      <4>2. /\ Marked(terms[p], row[p], x).stop = row[p].stop
            /\ Marked(terms[p], row[p], x).target = row[p].target
        BY <2>1, <2>2, MarkedLevels
      <4>3. QED
        BY <3>2, <4>1, <4>2, ClearLevels
    <3>3. QED
      BY <3>1, <3>2
  <2>. HIDE DEF p, x, new
  <2>4. ASSUME NEW q \in OpenPositions', q \notin sess'["market"].todo
        PROVE  Clear(terms'[q], row'[q], x)
    <3>1. q \in Positions /\ row'[q].status = "open"
      BY DEF OpenPositions
    <3>2. CASE q = p
      BY <1>1, <2>1, <2>3, <3>1, <3>2
    <3>3. CASE q # p
      <4>1. row'[q] = row[q] /\ q \in OpenPositions /\ q \notin sess["market"].todo
        BY <1>1, <2>1, <2>4, <3>1, <3>3 DEF OpenPositions
      <4>2. Clear(terms[q], row[q], sess["market"].price)
        BY <1>1, <2>1, <4>1 DEF Sheltered
      <4>3. QED
        BY <2>1, <4>1, <4>2 DEF x
    <3>4. QED
      BY <3>2, <3>3
  <2>5. QED
    BY <2>1, <2>4 DEF Sheltered, Decided
<1>6. CASE LifecycleDone
  <2>1. /\ sess'["market"].phase = "manage"
        /\ sess'["market"].price = sess["market"].price
        /\ sess["market"].phase = "lifecycle" /\ sess["market"].todo = {}
        /\ UNCHANGED <<row, terms>>
    BY <1>1, <1>6 DEF LifecycleDone, Session, TypeOK, data
  <2>2. QED
    BY <1>1, <2>1 DEF Sheltered, Decided, OpenPositions
<1>7. CASE ManagePrice("market")
  <2> DEFINE p == Oldest(sess["market"].todo)
             x == sess["market"].price
             v == SnapshotOf(terms[p], row[p], x)
             d == AdvancedEvaluate(v)
  <2>1. /\ p \in Positions /\ x \in Prices /\ UNCHANGED terms
        /\ sess["market"].phase = "manage"
        /\ \/ UNCHANGED row
           \/ row' = [row EXCEPT ![p] = Marked(terms[p], row[p], x)]
        /\ \/ sess'["market"] = IdleSession
           \/ sess'["market"].phase = "manage" /\ sess'["market"].price = x
           \/ /\ sess'["market"].phase = "act" /\ sess'["market"].price = x
              /\ sess'["market"].todo = sess["market"].todo
              /\ sess'["market"].decision = d
    BY <1>1, <1>7, ManagePriceWrites
  <2>2. x \in Int /\ row[p] \in Rows /\ terms[p] \in Terms
    <3>1. x \in Int
      BY <2>1, PriceType
    <3>2. QED
      BY <1>1, <2>1, <3>1
  <2>3. /\ Marked(terms[p], row[p], x).status = row[p].status
        /\ Marked(terms[p], row[p], x).left = row[p].left
        /\ Marked(terms[p], row[p], x).stop = row[p].stop
        /\ Marked(terms[p], row[p], x).target = row[p].target
    BY <2>2, MarkedColumns, MarkedLevels
  <2>4. v \in Snapshots
    BY <2>2, SnapshotType
  <2>5. /\ v.direction = terms[p].direction /\ v.price = x
        /\ v.stop = row[p].stop /\ v.quantity = row[p].left
    BY DEF SnapshotOf
  <2>6. /\ d.act \in {"move_to_break_even", "trail_stop"} =>
             /\ Ahead(terms[p].direction, x, d.stop)
             /\ Ahead(terms[p].direction, d.stop, row[p].stop)
        /\ d.act = "partial_close" => d.quantity < row[p].left
    BY <2>4, <2>5, AdvancedStop, PartialLeavesRest
  <2>. HIDE DEF v, d
  <2>7. \A q \in Positions : /\ row'[q].status = row[q].status
                             /\ row'[q].left = row[q].left
                             /\ row'[q].stop = row[q].stop
                             /\ row'[q].target = row[q].target
    <3>. HIDE DEF p, x
    <3>1. QED
      BY <1>1, <2>1, <2>3
  <2>8. \A q \in OpenPositions' : Clear(terms'[q], row'[q], x)
    <3>1. OpenPositions' = OpenPositions
      BY <2>7 DEF OpenPositions
    <3>2. \A q \in OpenPositions : Clear(terms[q], row[q], x) /\ q \in Positions
      BY <1>1, <2>1 DEF Sheltered, OpenPositions
    <3>3. QED
      BY <2>1, <2>7, <3>1, <3>2, ClearLevels
  <2>9. CASE sess'["market"] = IdleSession
    BY <1>2, <2>9 DEF IdleSession, Session
  <2>10. CASE sess'["market"].phase = "manage" /\ sess'["market"].price = x
    BY <2>8, <2>10 DEF Sheltered, Decided
  <2>11. CASE /\ sess'["market"].phase = "act" /\ sess'["market"].price = x
              /\ sess'["market"].todo = sess["market"].todo
              /\ sess'["market"].decision = d
    <3>1. Sheltered'
      BY <2>8, <2>11 DEF Sheltered
    <3>2. Oldest(sess'["market"].todo) = p
      BY <2>11
    <3>3. /\ row'[p].left = row[p].left /\ row'[p].stop = row[p].stop
          /\ terms'[p] = terms[p]
      BY <2>1, <2>7
    <3>4. Decided'
      BY <2>6, <2>11, <3>2, <3>3 DEF Decided
    <3>5. QED
      BY <3>1, <3>4
  <2>12. QED
    BY <2>1, <2>9, <2>10, <2>11
<1>8. CASE ManageAct("market")
  <2> DEFINE p == Oldest(sess["market"].todo)
             x == sess["market"].price
             d == sess["market"].decision
             new == Managed(terms[p], row[p], d, x)
  <2>1. /\ p \in Positions /\ x \in Prices /\ d \in Decisions /\ UNCHANGED terms
        /\ sess["market"].phase = "act"
        /\ \/ sess'["market"] = IdleSession
           \/ /\ row' = [row EXCEPT ![p] = new]
              /\ sess'["market"].phase = "manage" /\ sess'["market"].price = x
    BY <1>1, <1>8, ManageActWrites
  <2>2. x \in Int /\ row[p] \in Rows /\ terms[p] \in Terms
    <3>1. x \in Int
      BY <2>1, PriceType
    <3>2. QED
      BY <1>1, <2>1, <3>1
  <2>3. /\ new.target = row[p].target
        /\ \/ new.stop = row[p].stop
           \/ /\ d.act \in {"move_to_break_even", "trail_stop"}
              /\ new.stop = d.stop
    BY <2>1, <2>2, ManagedLevels
  <2>4. new.status = row[p].status
    <3>1. row[p].status = "open" => row[p].reduced.quantity >= 0
      BY <1>1, <2>1 DEF WorkersInv, Books
    <3>2. Reduced(terms[p], row[p], d.quantity, x).status = row[p].status
      BY <2>2 DEF Reduced, Rows
    <3>3. QED
      BY <2>1, <2>2, <3>1, <3>2, ManagedColumns
  <2>5. row[p].status = "open" => Clear(terms[p], row[p], x)
    BY <1>1, <2>1 DEF Sheltered, OpenPositions
  <2>6. d.act \in {"move_to_break_even", "trail_stop"} =>
          Ahead(terms[p].direction, x, d.stop)
    BY <1>1, <2>1 DEF Decided
  <2>7. row[p].status = "open" => Clear(terms[p], new, x)
    <3>. HIDE DEF p, x, d, new
    <3>1. QED
      BY <2>3, <2>5, <2>6 DEF Clear, HitStop, HitTarget
  <2>8. CASE sess'["market"] = IdleSession
    BY <1>2, <2>8 DEF IdleSession, Session
  <2>9. CASE /\ row' = [row EXCEPT ![p] = new]
             /\ sess'["market"].phase = "manage" /\ sess'["market"].price = x
    <3>1. ASSUME NEW q \in OpenPositions'
          PROVE  Clear(terms'[q], row'[q], sess'["market"].price)
      <4>. HIDE DEF p, new
      <4>1. q \in Positions /\ row'[q].status = "open"
        BY DEF OpenPositions
      <4>2. CASE q = p
        BY <1>1, <2>1, <2>4, <2>7, <2>9, <4>1, <4>2
      <4>3. CASE q # p
        BY <1>1, <2>1, <2>9, <4>1, <4>3 DEF Sheltered, OpenPositions
      <4>4. QED
        BY <4>2, <4>3
    <3>2. QED
      BY <2>9, <3>1 DEF Sheltered, Decided
  <2>10. QED
    BY <2>1, <2>8, <2>9
<1>9. CASE ManageDone("market") \/ Crash
  BY <1>1, <1>2, <1>9 DEF ManageDone, Crash, IdleSession, Session, TypeOK
<1>10. QED
  BY <1>3, <1>4, <1>5, <1>6, <1>7, <1>8, <1>9 DEF WorkersNext, MarketStep

LEMMA ProtectionInvariant == WorkersSpec => []ProtectionInv
<1>1. Init => ProtectionInv
  <2> SUFFICES ASSUME Init
               PROVE  ProtectionInv
    OBVIOUS
  <2>1. Sheltered /\ Decided
    BY DEF Init, Sheltered, Decided, IdleSession, Session, Actors
  <2>2. \A p \in Positions : Levels(p)
    BY DEF Init, Levels, NoRow
  <2>3. QED
    BY <2>1, <2>2, WorkersInit DEF ProtectionInv
<1>2. ProtectionInv /\ [WorkersNext]_vars => ProtectionInv'
  <2> SUFFICES ASSUME ProtectionInv, [WorkersNext]_vars
               PROVE  ProtectionInv'
    OBVIOUS
  <2>1. WorkersInv'
    BY WorkersStep DEF ProtectionInv
  <2>2. \A p \in Positions : Levels(p)'
    BY LevelsStep
  <2>3. QED
    BY <2>1, <2>2, ShelterStep DEF ProtectionInv
<1>3. QED
  BY <1>1, <1>2, PTL DEF WorkersSpec

-----------------------------------------------------------------------------
(* What follows                                                            *)

\* After the lifecycle half of a cycle no open position is past its stop or
\* its target at the quoted price, and the manager sets no stop that is.
THEOREM CyclesHonourStops == WorkersSpec => []StopsHonoured
<1>1. ProtectionInv => StopsHonoured
  BY DEF ProtectionInv, Sheltered, Clear, StopsHonoured
<1>2. QED
  BY <1>1, ProtectionInvariant, PTL

\* No step during a cycle of the market loop widens the stop of an open
\* position.
THEOREM CyclesOnlyTighten == WorkersSpec => MarketLoopNeverWidens
<1> DEFINE Tightens ==
             sess["market"].phase # "idle" =>
               \A p \in OpenPositions :
                 ~Ahead(terms[p].direction, row[p].stop, row'[p].stop)
<1>1. ProtectionInv /\ [WorkersNext]_vars => [Tightens]_vars
  <2> SUFFICES ASSUME ProtectionInv, [WorkersNext]_vars,
                      sess["market"].phase # "idle", NEW q \in OpenPositions
               PROVE  ~Ahead(terms[q].direction, row[q].stop, row'[q].stop)
    OBVIOUS
  <2>1. /\ TypeOK /\ WorkersInv /\ Decided
        /\ row \in [Positions -> Rows] /\ terms \in [Positions -> Terms]
        /\ q \in Positions
    BY DEF ProtectionInv, WorkersInv, TypeOK, OpenPositions
  <2>2. row[q].stop \in Int
    BY <2>1 DEF Rows
  <2>3. CASE row'[q].stop = row[q].stop
    BY <2>2, <2>3 DEF Ahead
  <2>4. CASE Entry \/ AutoWorker \/ UNCHANGED vars
    BY <2>1, <2>3, <2>4, OthersWait
  <2>5. CASE LifecycleStep
    <3> DEFINE p == Oldest(sess["market"].todo)
               x == sess["market"].price
               new == IF Exits(terms[p], row[p], x) THEN Closed(terms[p], row[p], x)
                                                    ELSE Marked(terms[p], row[p], x)
    <3>1. /\ p \in Positions /\ x \in Int
          /\ UNCHANGED row \/ row' = [row EXCEPT ![p] = new]
      BY <2>1, <2>5, LifecycleWrites, PriceType
    <3>2. row[p] \in Rows /\ terms[p] \in Terms
      BY <2>1, <3>1
    <3>3. new.stop = row[p].stop
      BY <3>1, <3>2, MarkedLevels
    <3>. HIDE DEF p, new
    <3>4. QED
      BY <2>1, <2>3, <3>1, <3>3
  <2>6. CASE ManagePrice("market")
    <3> DEFINE p == Oldest(sess["market"].todo)
               x == sess["market"].price
               new == Marked(terms[p], row[p], x)
    <3>1. /\ p \in Positions /\ x \in Int
          /\ UNCHANGED row \/ row' = [row EXCEPT ![p] = new]
      BY <2>1, <2>6, ManagePriceWrites, PriceType
    <3>2. row[p] \in Rows /\ terms[p] \in Terms
      BY <2>1, <3>1
    <3>3. new.stop = row[p].stop
      BY <3>1, <3>2, MarkedLevels
    <3>. HIDE DEF p, new
    <3>4. QED
      BY <2>1, <2>3, <3>1, <3>3
  <2>7. CASE ManageAct("market")
    <3> DEFINE p == Oldest(sess["market"].todo)
               x == sess["market"].price
               d == sess["market"].decision
               new == Managed(terms[p], row[p], d, x)
    <3>1. /\ p \in Positions /\ x \in Int /\ d \in Decisions
          /\ sess["market"].phase = "act"
          /\ UNCHANGED row \/ row' = [row EXCEPT ![p] = new]
      BY <2>1, <2>7, ManageActWrites, PriceType
    <3>2. row[p] \in Rows /\ terms[p] \in Terms /\ d.stop \in Int
      BY <2>1, <3>1 DEF Decisions
    <3>3. new.stop = row[p].stop \/ Ahead(terms[p].direction, new.stop, row[p].stop)
      BY <2>1, <3>1, <3>2, ManagedLevels DEF Decided
    <3>4. new.stop \in Int
      BY <3>1, <3>2, ManagedLevels DEF Rows
    <3>. HIDE DEF p, new
    <3>5. CASE q = p /\ row' = [row EXCEPT ![p] = new]
      <4>1. row'[q].stop = new.stop
        BY <2>1, <3>1, <3>5
      <4>2. QED
        BY <2>2, <3>3, <3>4, <3>5, <4>1 DEF Ahead
    <3>6. CASE q # p \/ UNCHANGED row
      BY <2>1, <2>3, <3>1, <3>6
    <3>7. QED
      BY <3>1, <3>5, <3>6
  <2>8. CASE UNCHANGED row
    BY <2>3, <2>8
  <2>9. QED
    BY <2>4, <2>5, <2>6, <2>7, <2>8
    DEF WorkersNext, MarketStep, MarketQuote, LifecycleDone, ManageDone, Crash, data
<1>2. QED
  BY <1>1, ProtectionInvariant, PTL DEF WorkersSpec, MarketLoopNeverWidens

\* The management half of a cycle gives up early only over a stop at entry,
\* or over a BUY quoted within the trailing distance of zero.
THEOREM CyclesAbortOnlyAtEntry == WorkersSpec => AbortOnlyAtEntry
<1> DEFINE s == sess["market"]
           p == Oldest(s.todo)
           Aborts == /\ s.phase \in {"manage", "act"} /\ s.todo # {}
                     /\ sess'["market"].phase = "idle"
                     /\ crashes' = crashes
           Excused == \/ row[p].stop = terms[p].entry
                      \/ terms[p].direction = "buy" /\ s.price <= TrailingDistance
<1>1. ProtectionInv /\ [WorkersNext]_vars => [Aborts => Excused]_vars
  <2> SUFFICES ASSUME ProtectionInv, [WorkersNext]_vars, Aborts
               PROVE  Excused
    OBVIOUS
  <2>1. /\ TypeOK /\ WorkersInv /\ Sheltered /\ Decided /\ "market" \in Actors
        /\ \A q \in Positions : Levels(q) /\ Books(q)
        /\ row \in [Positions -> Rows] /\ terms \in [Positions -> Terms]
    BY DEF ProtectionInv, WorkersInv, TypeOK, Actors
  <2>2. CASE Entry \/ AutoWorker \/ UNCHANGED vars
    BY <2>1, <2>2, OthersWait
  <2>3. CASE Crash
    BY <2>1, <2>3 DEF Crash, TypeOK
  <2>4. ASSUME NEW x \in Prices, MarketQuote(x)
        PROVE  FALSE
    BY <2>4 DEF MarketQuote, LoopFree
  <2>5. CASE ManageAct("market")
    <3>1. /\ p \in Positions /\ s.decision \in Decisions /\ s.phase = "act"
          /\ \/ ActRefused(row[p], s.decision)
             \/ sess'["market"].phase = "manage"
      BY <2>1, <2>5, ManageActWrites
    <3>2. /\ s.decision.act = "partial_close" => s.decision.quantity < row[p].left
          /\ s.decision.quantity \in Int /\ row[p].left \in Int
      BY <2>1, <3>1 DEF Decided, Decisions, Rows
    <3>3. QED
      BY <3>1, <3>2 DEF ActRefused
  <2>6. CASE ManagePrice("market")
    <3> DEFINE v == SnapshotOf(terms[p], row[p], s.price)
               d == AdvancedEvaluate(v)
    <3>1. /\ p \in Positions /\ s.price \in Prices /\ s.phase = "manage"
          /\ row[p].status = "open" /\ d.act = "error"
      BY <2>1, <2>6, ManagePriceWrites
    <3>2. s.price \in Int /\ s.price > 0
      BY <3>1, PriceType
    <3>3. /\ row[p] \in Rows /\ terms[p] \in Terms /\ v \in Snapshots
      BY <2>1, <3>1, <3>2, SnapshotType
    <3>4. /\ v.direction = terms[p].direction /\ v.entry = terms[p].entry
          /\ v.price = s.price /\ v.quantity = row[p].left
          /\ v.stop = row[p].stop /\ v.target = row[p].target
      BY DEF SnapshotOf
    <3>5. /\ terms[p] \in Proposals
          /\ row[p].stop > 0 /\ row[p].target > 0 /\ row[p].left > 0
          /\ Ahead(terms[p].direction, row[p].target, terms[p].entry)
      BY <2>1, <3>1 DEF Levels, Books
    <3>6. Clear(terms[p], row[p], s.price)
      BY <2>1, <3>1 DEF Sheltered, OpenPositions
    <3>7. Ahead(terms[p].direction, s.price, row[p].stop)
      BY <3>6 DEF Clear, HitStop
    <3>8. terms[p].entry > 0
      BY <3>5, TradeAssumption DEF IsProposal
    <3>9. ValidSnapshot(v)
      BY <3>2, <3>4, <3>5, <3>7, <3>8 DEF ValidSnapshot
    <3>10. \/ v.stop = v.entry
           \/ v.direction = "buy" /\ v.price <= TrailingDistance
      BY <3>1, <3>3, <3>9, AdvancedRaises
    <3>11. QED
      BY <3>4, <3>10
  <2>7. QED
    BY <2>2, <2>3, <2>4, <2>5, <2>6
    DEF WorkersNext, MarketStep, LifecycleStep, LifecycleDone, ManageDone
<1>2. QED
  BY <1>1, ProtectionInvariant, PTL DEF WorkersSpec, AbortOnlyAtEntry

=============================================================================
