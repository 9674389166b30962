--------------------------- MODULE PaperPositions ---------------------------
(***************************************************************************)
(* The persistent paper positions (table positions, position_repository)   *)
(* and everything that reads and writes them in the production process:    *)
(*                                                                         *)
(*   market  the Stage 17.4.3 loop: per quoted price first                 *)
(*           PaperPositionLifecycle, then PaperPositionManager             *)
(*   auto    the Stage 17.5 worker: reads the open positions, awaits the   *)
(*           market analysis, then applies AutomaticTradeManager           *)
(*   entry   the Stage 17.6 worker and POST /api/strategy/paper-trade:     *)
(*           journal row first, position row second, two commits           *)
(*   api     POST /api/online/manage-paper-positions, a plain def endpoint *)
(*           that FastAPI runs in a thread of its own                      *)
(*                                                                         *)
(* The first three are coroutines of ONE event loop: between two awaits    *)
(* nothing but the api thread can run.  Every one of them has its own      *)
(* SQLAlchemy session, and a session is modelled by what matters here:     *)
(* the attributes it loaded stay as they were until its next commit or     *)
(* rollback expires them, and a commit writes only the attributes that     *)
(* differ from what the session had loaded (Merge below).                  *)
(***************************************************************************)
EXTENDS PaperTrades, FiniteSets

CONSTANTS
  MaxOpenPositions,   \* RiskConfig.max_open_positions
  MaxReach,           \* bound of the model: no bullish analysis once a target
                      \* lies further than this from entry
  MaxCrashes          \* bound of the model: process deaths

ASSUME CountAssumption ==
  MaxOpenPositions \in Nat /\ MaxReach \in Nat /\ MaxCrashes \in Nat

VARIABLES
  terms,      \* terms[p]: direction, entry, initial stop, target, quantity
  row,        \* row[p]: the mutable columns of position p
  journal,    \* the trade ids that have an open row in table trades
  issued,     \* how many trade ids executions have been given
  sess,       \* sess[a]: the cycle of actor a, market or api
  auto,       \* the cycle of the Stage 17.5 worker
  entry,      \* the execution being persisted, 0 when there is none
  crashes

data == <<terms, row, journal, issued>>
vars == <<terms, row, journal, issued, sess, auto, entry, crashes>>

Actors == {"market", "api"}

\* The partial close of a position; quantity 0 means none was made.
NotReduced == [quantity |-> 0, price |-> 0, pnl |-> 0]

NoRow == [status |-> "none", left |-> 0, stop |-> 0, target |-> 0,
          price |-> 0, pnl |-> 0, breakEven |-> FALSE, reduced |-> NotReduced]

\* Mutant of NewRow: the row starts in a state no reader looks for.
PendingRow(t) ==
  [status |-> "pending", left |-> t.quantity, stop |-> t.stop,
   target |-> t.target, price |-> t.entry, pnl |-> 0, breakEven |-> FALSE,
   reduced |-> NotReduced]

\* The row PositionRepository.create inserts for accepted terms t.
NewRow(t) ==
  [status |-> "open", left |-> t.quantity, stop |-> t.stop,
   target |-> t.target, price |-> t.entry, pnl |-> 0, breakEven |-> FALSE,
   reduced |-> NotReduced]

NoSnapshot == [p \in Positions |-> NoRow]

\* Phases: idle; lifecycle and manage walk over todo, oldest first; act is
\* between update_price and the action decided for the oldest position.
Session(phase, price, todo, snap, expired, decision) ==
  [phase |-> phase, price |-> price, todo |-> todo, snap |-> snap,
   expired |-> expired, decision |-> decision]

IdleSession == Session("idle", 0, {}, NoSnapshot, FALSE, Hold)

AutoCycle(phase, price, strength, todo, snap, expired) ==
  [phase |-> phase, price |-> price, strength |-> strength, todo |-> todo,
   snap |-> snap, expired |-> expired]

IdleAuto == AutoCycle("idle", 0, "neutral", {}, NoSnapshot, FALSE)

OpenPositions == {p \in Positions : row[p].status = "open"}

\* The rows a query for the open positions puts into the session.
Loaded == [p \in Positions |-> IF row[p].status = "open" THEN row[p] ELSE NoRow]

\* ORDER BY opened_at: ids are issued in opening order.
Oldest(S) == CHOOSE p \in S : \A q \in S : p <= q

\* Mutant of Merge: a commit writes every column the session holds.
WholeRow(current, old, new) == new

\* UPDATE positions SET <the changed columns>: new is what the session
\* holds at commit, old what it had loaded, current what the table holds.
Merge(current, old, new) ==
  [status    |-> IF new.status = old.status THEN current.status ELSE new.status,
   left      |-> IF new.left = old.left THEN current.left ELSE new.left,
   stop      |-> IF new.stop = old.stop THEN current.stop ELSE new.stop,
   target    |-> IF new.target = old.target THEN current.target ELSE new.target,
   price     |-> IF new.price = old.price THEN current.price ELSE new.price,
   pnl       |-> IF new.pnl = old.pnl THEN current.pnl ELSE new.pnl,
   breakEven |-> IF new.breakEven = old.breakEven
                   THEN current.breakEven ELSE new.breakEven,
   reduced   |-> IF new.reduced = old.reduced THEN current.reduced ELSE new.reduced]

Commit(p, old, new) == row' = [row EXCEPT ![p] = Merge(@, old, new)]

\* No coroutine is between two awaits.
LoopFree ==
  /\ sess["market"].phase = "idle"
  /\ auto.phase # "apply"
  /\ entry = 0

Init ==
  /\ terms = [p \in Positions |-> NoTerms]
  /\ row = [p \in Positions |-> NoRow]
  /\ journal = {}
  /\ issued = 0
  /\ sess = [a \in Actors |-> IdleSession]
  /\ auto = IdleAuto
  /\ entry = 0
  /\ crashes = 0

-----------------------------------------------------------------------------
(* Entry: persist_step15_paper_execution commits the journal row, then     *)
(* PositionRepository.create commits the position.  Every execution has a  *)
(* fresh order id, so a failed one is never retried under the same id.     *)

Execute(t) ==
  /\ LoopFree
  /\ issued + 1 \in Positions
  /\ issued' = issued + 1
  /\ entry' = issued + 1
  /\ journal' = journal \cup {issued + 1}
  /\ terms' = [terms EXCEPT ![issued + 1] = t]
  /\ UNCHANGED <<row, sess, auto, crashes>>

\* The worker's risk state counts the persistent open positions, and
\* pre_trade_check refuses at the limit.
WorkerTrade ==
  /\ Cardinality(OpenPositions) < MaxOpenPositions
  /\ \E t \in Proposals : Execute(t)

\* The endpoint's risk state counts the in-memory demo engine's trades,
\* which persistent positions never enter.
EndpointTrade == \E t \in Proposals : Execute(t)

CreatePosition ==
  /\ entry # 0
  /\ row' = [row EXCEPT ![entry] = NewRow(terms[entry])]
  /\ entry' = 0
  /\ UNCHANGED <<terms, journal, issued, sess, auto, crashes>>

\* The second commit fails: the execution is reported as not persisted.
CreateFails ==
  /\ entry # 0
  /\ entry' = 0
  /\ UNCHANGED <<data, sess, auto, crashes>>

-----------------------------------------------------------------------------
(* PaperPositionLifecycle, first half of a cycle of the market loop.       *)

HitStop(t, r, x) == ~Ahead(t.direction, x, r.stop)

HitTarget(t, r, x) == ~Ahead(t.direction, r.target, x)

\* Mutant of Exits: a position protected by break-even is passed over.
ExitsUnlessProtected(t, r, x) ==
  ~r.breakEven /\ (HitStop(t, r, x) \/ HitTarget(t, r, x))

Exits(t, r, x) == HitStop(t, r, x) \/ HitTarget(t, r, x)

Marked(t, r, x) == [r EXCEPT !.price = x, !.pnl = Pnl(t, x, r.left)]

\* Mutant of Closed: the profit is that of the whole original quantity.
ClosedInFull(t, r, x) ==
  [r EXCEPT !.status = "closed", !.left = 0, !.price = x,
            !.pnl = Pnl(t, x, t.quantity)]

Closed(t, r, x) ==
  [r EXCEPT !.status = "closed", !.left = 0, !.price = x,
            !.pnl = Pnl(t, x, r.left)]

\* What the session of a sees of p: its snapshot, until something commits.
Seen(a, p) == IF sess[a].expired THEN row[p] ELSE sess[a].snap[p]

\* The session of a after p has been dealt with; wrote: it committed.
Advance(a, wrote) ==
  LET s == sess[a]
  IN  sess' = [sess EXCEPT ![a] =
                 Session(s.phase, s.price, s.todo \ {Oldest(s.todo)},
                         IF wrote THEN NoSnapshot ELSE s.snap,
                         s.expired \/ wrote, Hold)]

\* The awaited price arrives and evaluate_price runs.
MarketQuote(x) ==
  /\ LoopFree
  /\ sess' = [sess EXCEPT !["market"] =
                Session("lifecycle", x, OpenPositions, Loaded, FALSE, Hold)]
  /\ UNCHANGED <<data, auto, entry, crashes>>

LifecycleStep ==
  /\ sess["market"].phase = "lifecycle"
  /\ sess["market"].todo # {}
  /\ LET p == Oldest(sess["market"].todo)
         r == Seen("market", p)
         x == sess["market"].price
     IN  IF r.status = "open"
           THEN /\ Commit(p, r, IF Exits(terms[p], r, x)
                                  THEN Closed(terms[p], r, x)
                                  ELSE Marked(terms[p], r, x))
                /\ Advance("market", TRUE)
           ELSE /\ UNCHANGED row
                /\ Advance("market", FALSE)
  /\ UNCHANGED <<terms, journal, issued, auto, entry, crashes>>

\* manager.evaluate_symbol queries the positions that are still open.
LifecycleDone ==
  /\ sess["market"].phase = "lifecycle"
  /\ sess["market"].todo = {}
  /\ sess' = [sess EXCEPT !["market"] =
                Session("manage", @.price, OpenPositions, Loaded, FALSE, Hold)]
  /\ UNCHANGED <<data, auto, entry, crashes>>

-----------------------------------------------------------------------------
(* PaperPositionManager, run by the market loop and by the endpoint.       *)

\* manage_paper_positions_endpoint, in its own thread, at a price the
\* caller supplies.
ApiRequest(x) ==
  /\ sess["api"].phase = "idle"
  /\ OpenPositions # {}
  /\ sess' = [sess EXCEPT !["api"] =
                Session("manage", x, OpenPositions, Loaded, FALSE, Hold)]
  /\ UNCHANGED <<data, auto, entry, crashes>>

SnapshotOf(t, r, x) ==
  [direction |-> t.direction, entry |-> t.entry, price |-> x,
   quantity |-> r.left, stop |-> r.stop, target |-> r.target,
   breakEven |-> r.breakEven, reduced |-> r.reduced.quantity > 0]

\* Decide on what the session sees, then update_price: mark the row,
\* commit, and refresh it from the table.
ManagePrice(a) ==
  /\ sess[a].phase = "manage"
  /\ sess[a].todo # {}
  /\ LET p == Oldest(sess[a].todo)
         r == Seen(a, p)
         x == sess[a].price
         d == AdvancedEvaluate(SnapshotOf(terms[p], r, x))
     IN  \/ /\ r.status # "open"
            /\ UNCHANGED row
            /\ Advance(a, FALSE)
         \/ /\ r.status = "open"
            /\ d.act = "error"              \* aborts the rest of the cycle
            /\ UNCHANGED row
            /\ sess' = [sess EXCEPT ![a] = IdleSession]
         \/ /\ r.status = "open"
            /\ d.act = "hold"
            /\ Commit(p, r, Marked(terms[p], r, x))
            /\ Advance(a, TRUE)
         \/ /\ r.status = "open"
            /\ d.act \notin {"error", "hold"}
            /\ Commit(p, r, Marked(terms[p], r, x))
            /\ sess' = [sess EXCEPT ![a] =
                          Session("act", x, @.todo,
                                  [NoSnapshot EXCEPT ![p] = row'[p]], TRUE, d)]
  /\ UNCHANGED <<terms, journal, issued, auto, entry, crashes>>

\* mark_partial_close: q leaves the open quantity at price x.
Reduced(t, r, q, x) ==
  [r EXCEPT !.left = @ - q,
            !.reduced = [quantity |-> q, price |-> x,
                         pnl |-> @.pnl + Pnl(t, x, q)]]

\* Mutant of Managed: a second partial close is not recognised.
ManagedTwice(t, r, d, x) ==
  IF d.act = "partial_close" THEN Reduced(t, r, d.quantity, x) ELSE r

\* Mutant of Managed: the price booked is the one the row shows.
ManagedAtRowPrice(t, r, d, x) ==
  IF d.act = "partial_close" /\ r.reduced.quantity = 0
    THEN [Reduced(t, r, d.quantity, x) EXCEPT !.reduced.price = r.price]
    ELSE r

\* The refreshed row r as the action leaves it in the session.
Managed(t, r, d, x) ==
  CASE r.status # "open" -> r
    [] r.status = "open" /\ d.act = "move_to_break_even" ->
         IF r.breakEven THEN r
         ELSE [r EXCEPT !.stop = d.stop, !.breakEven = TRUE]
    [] r.status = "open" /\ d.act = "trail_stop" ->
         IF Ahead(t.direction, d.stop, r.stop)
           THEN [r EXCEPT !.stop = d.stop] ELSE r
    [] OTHER ->
         IF r.reduced.quantity > 0 THEN r ELSE Reduced(t, r, d.quantity, x)

\* "Partial close would close the entire position."
ActRefused(r, d) ==
  d.act = "partial_close" /\ r.reduced.quantity = 0 /\ d.quantity >= r.left

ManageAct(a) ==
  /\ sess[a].phase = "act"
  /\ LET p == Oldest(sess[a].todo)
         r == sess[a].snap[p]
         d == sess[a].decision
     IN  \/ /\ ActRefused(r, d)
            /\ UNCHANGED row
            /\ sess' = [sess EXCEPT ![a] = IdleSession]
         \/ /\ ~ActRefused(r, d)
            /\ Commit(p, r, Managed(terms[p], r, d, sess[a].price))
            /\ sess' = [sess EXCEPT ![a] =
                          Session("manage", @.price, @.todo \ {p},
                                  NoSnapshot, TRUE, Hold)]
  /\ UNCHANGED <<terms, journal, issued, auto, entry, crashes>>

ManageDone(a) ==
  /\ sess[a].phase = "manage"
  /\ sess[a].todo = {}
  /\ sess' = [sess EXCEPT ![a] = IdleSession]
  /\ UNCHANGED <<data, auto, entry, crashes>>

-----------------------------------------------------------------------------
(* AutomaticTradeManagementService.evaluate_open_positions.                *)

\* The open positions are read BEFORE the analysis is awaited.
AutoRead ==
  /\ LoopFree
  /\ auto.phase = "idle"
  /\ OpenPositions # {}
  /\ auto' = AutoCycle("await", 0, "neutral", OpenPositions, Loaded, FALSE)
  /\ UNCHANGED <<data, sess, entry, crashes>>

\* A bullish market extends a target again and again; MaxReach ends it.
AutoAnalysis(x, strength) ==
  /\ LoopFree
  /\ auto.phase = "await"
  /\ strength = "bullish" =>
       \A p \in auto.todo : Distance(row[p].target, terms[p].entry) <= MaxReach
  /\ auto' = AutoCycle("apply", x, strength, auto.todo, auto.snap, FALSE)
  /\ UNCHANGED <<data, sess, entry, crashes>>

AutoAnalysisFails ==
  /\ LoopFree
  /\ auto.phase = "await"
  /\ auto' = IdleAuto
  /\ UNCHANGED <<data, sess, entry, crashes>>

AutoInput(t, r) ==
  [direction |-> t.direction, entry |-> t.entry, price |-> auto.price,
   stop |-> r.stop, target |-> r.target, initialStop |-> t.stop,
   strength |-> auto.strength]

\* AutomaticTradeManagementPersistence: the status it checks is the
\* session's.  Neither hold nor close writes; error rolls back, which
\* expires the session like a commit does.
AutoStep(p) ==
  /\ auto.phase = "apply"
  /\ p \in auto.todo
  /\ LET r == IF auto.expired THEN row[p] ELSE auto.snap[p]
         d == AutomaticEvaluate(AutoInput(terms[p], r))
         modifies == d.act \in {"modify_sl", "modify_tp", "modify_sl_tp"}
         writes == modifies /\ r.status = "open"
         expires == writes \/ d.act = "error"
     IN  /\ IF writes
              THEN Commit(p, r, [r EXCEPT !.stop = d.stop, !.target = d.target])
              ELSE UNCHANGED row
         /\ auto' = AutoCycle("apply", auto.price, auto.strength,
                              auto.todo \ {p},
                              IF expires THEN NoSnapshot ELSE auto.snap,
                              auto.expired \/ expires)
  /\ UNCHANGED <<terms, journal, issued, sess, entry, crashes>>

AutoDone ==
  /\ auto.phase = "apply"
  /\ auto.todo = {}
  /\ auto' = IdleAuto
  /\ UNCHANGED <<data, sess, entry, crashes>>

-----------------------------------------------------------------------------

\* The process dies and is restarted: sessions go, tables stay.
Crash ==
  /\ crashes < MaxCrashes
  /\ crashes' = crashes + 1
  /\ sess' = [a \in Actors |-> IdleSession]
  /\ auto' = IdleAuto
  /\ entry' = 0
  /\ UNCHANGED data

MarketStep ==
  \/ LifecycleStep \/ LifecycleDone
  \/ ManagePrice("market") \/ ManageAct("market") \/ ManageDone("market")

AutoWorker ==
  \/ AutoRead
  \/ \E x \in Prices, s \in Strengths : AutoAnalysis(x, s)
  \/ AutoAnalysisFails
  \/ \E p \in Positions : AutoStep(p)
  \/ AutoDone

ApiThread ==
  \/ \E x \in Prices : ApiRequest(x)
  \/ ManagePrice("api") \/ ManageAct("api") \/ ManageDone("api")

Entry == WorkerTrade \/ EndpointTrade \/ CreatePosition \/ CreateFails

\* The workers of the process, as long as nobody calls the endpoint.
WorkersNext ==
  \/ Entry
  \/ \E x \in Prices : MarketQuote(x)
  \/ MarketStep
  \/ AutoWorker
  \/ Crash

Next == WorkersNext \/ ApiThread

Spec == Init /\ [][Next]_vars

WorkersSpec == Init /\ [][WorkersNext]_vars

\* A cycle that has begun is never suspended for ever: a coroutine that
\* does not await runs on, and the event loop resumes a ready one.
FairSpec == WorkersSpec /\ WF_vars(MarketStep)
=============================================================================
