------------------------- MODULE PaperRequirements -------------------------
(***************************************************************************)
(* What PaperPositions must guarantee.  Apart from the type invariant,     *)
(* every property here takes steps of at least two actors, or of one actor *)
(* at two different times, to break.                                       *)
(***************************************************************************)
EXTENDS MonthlyAudit

Terms == [direction : Directions, entry : Int, stop : Int, target : Int,
          quantity : Int]

Reductions == [quantity : Int, price : Int, pnl : Int]

Rows == [status : {"none", "open", "closed"}, left : Int, stop : Int,
         target : Int, price : Int, pnl : Int, breakEven : BOOLEAN,
         reduced : Reductions]

Decisions == [act : {"hold", "error", "partial_close", "move_to_break_even",
                     "trail_stop"}, stop : Int, quantity : Int]

Sessions == [phase : {"idle", "lifecycle", "manage", "act"}, price : Int,
             todo : SUBSET Positions, snap : [Positions -> Rows],
             expired : BOOLEAN, decision : Decisions]

AutoCycles == [phase : {"idle", "await", "apply"}, price : Int,
               strength : Strengths, todo : SUBSET Positions,
               snap : [Positions -> Rows], expired : BOOLEAN]

\* Type invariant of the tables, the sessions and the worker cycles.
TypeOK ==
  /\ terms \in [Positions -> Terms]
  /\ row \in [Positions -> Rows]
  /\ journal \subseteq Positions
  /\ issued \in Nat
  /\ sess \in [Actors -> Sessions]
  /\ auto \in AutoCycles
  /\ entry \in Positions \cup {0}
  /\ crashes \in 0 .. MaxCrashes

-----------------------------------------------------------------------------
(* Accounting                                                              *)

\* A partial close takes what it books out of the open quantity, whoever
\* made it and however many managers tried to: while p is open, what is
\* left and what was reduced add up to what was opened (mark_partial_close).
OpenQuantityExact ==
  \A p \in Positions : row[p].status = "open" =>
    /\ row[p].left + row[p].reduced.quantity = terms[p].quantity
    /\ row[p].left > 0

\* The profit booked for a partial close is the one its own price and
\* quantity give, not that of another manager's price (mark_partial_close).
ReductionBooked ==
  \A p \in Positions :
    row[p].reduced.pnl = Pnl(terms[p], row[p].reduced.price, row[p].reduced.quantity)

\* A closed position has nothing left, and its final profit is that of the
\* quantity the partial close had not booked, at the exit price: together
\* they pay every unit once ("total_trade_pnl", mark_partial_close;
\* _persist_close).
ClosedBooksBalance ==
  \A p \in Positions : row[p].status = "closed" =>
    /\ row[p].left = 0
    /\ row[p].pnl = Pnl(terms[p], row[p].price,
                        terms[p].quantity - row[p].reduced.quantity)

\* The monthly audit, which recomputes every closed trade from its raw
\* prices and quantities, finds nothing to correct and nothing to warn of,
\* and reports what a report over the stored results would, whichever
\* workers reduced and closed the positions (monthly_trade_audit.py).
AuditFindsNothing ==
  /\ Differences = {} /\ Warnings = {}
  /\ Report(AuditedResults) = Report(StoredResults)

\* Once closed, no worker changes the result of a position, although the
\* Stage 17.5 worker may still write to it from what it read before
\* (the columns a commit writes are those that changed in its session).
ClosedIsFinal ==
  [][\A p \in Positions : row[p].status = "closed" =>
       /\ row'[p].status = "closed"
       /\ row'[p].left = row[p].left
       /\ row'[p].price = row[p].price
       /\ row'[p].pnl = row[p].pnl
       /\ row'[p].reduced = row[p].reduced]_vars

-----------------------------------------------------------------------------
(* Protection                                                              *)

\* After the lifecycle half of a cycle no position stays open past its stop
\* or target at the quoted price, and no stop the manager sets afterwards is
\* hit by that price (LifecycleAwarePaperPositionMarketLoop.evaluate_price).
StopsHonoured ==
  sess["market"].phase \in {"manage", "act"} =>
    \A p \in OpenPositions :
      /\ ~HitStop(terms[p], row[p], sess["market"].price)
      /\ ~HitTarget(terms[p], row[p], sess["market"].price)

\* A cycle of the market loop only ever tightens the stop of an open
\* position ("Never worsen protection.", paper_position_manager.py:542),
\* whatever the Stage 17.5 worker left there.
MarketLoopNeverWidens ==
  [][sess["market"].phase # "idle" =>
       \A p \in OpenPositions :
         ~Ahead(terms[p].direction, row[p].stop, row'[p].stop)]_vars

\* No step of anybody brings a target closer ("Existing TP is never
\* reduced", automatic_trade_manager.py:621), stale snapshots included:
\* only one worker writes targets and it never runs against itself.
TargetsNeverRecede ==
  [][\A p \in Positions : row[p].status # "none" =>
       ~Ahead(terms[p].direction, row[p].target, row'[p].target)]_vars

\* The management half of a market cycle gives up early for two reasons
\* only: the oldest position still to manage has its stop exactly at entry,
\* where the current-stop risk distance is zero, or it is a BUY quoted no
\* further from zero than the trailing distance (advanced_trade_management.py
\* refuses both).  The lifecycle half has made every other validation error
\* impossible.
AbortOnlyAtEntry ==
  [][(/\ sess["market"].phase \in {"manage", "act"}
      /\ sess["market"].todo # {}
      /\ sess'["market"].phase = "idle"
      /\ crashes' = crashes) =>
        LET p == Oldest(sess["market"].todo)
        IN  \/ row[p].stop = terms[p].entry
            \/ /\ terms[p].direction = "buy"
               /\ sess["market"].price <= TrailingDistance]_vars

-----------------------------------------------------------------------------
(* Refinement and liveness                                                 *)

\* The trade a position row stands for.
TradeOf(p) ==
  [state |-> row[p].status,
   left |-> row[p].left,
   booked |-> row[p].reduced.pnl
              + (IF row[p].status = "closed" THEN row[p].pnl ELSE 0)]

\* Terms are visible in the abstract module once the row exists.
TermsOf(p) == IF row[p].status = "none" THEN NoTerms ELSE terms[p]

Lifecycle == INSTANCE TradeLifecycle
               WITH terms <- [p \in Positions |-> TermsOf(p)],
                    trade <- [p \in Positions |-> TradeOf(p)]

\* The workers implement the abstract life of a trade.
ImplementsTradeLifecycle == Lifecycle!Spec

\* The event loop resumes every coroutine that is ready, in turn, and the
\* price feed answers again and again.
LoopFairSpec ==
  /\ FairSpec
  /\ SF_vars(\E x \in Prices : MarketQuote(x))
  /\ WF_vars(CreatePosition \/ CreateFails)
  /\ WF_vars(AutoDone \/ \E p \in Positions : AutoStep(p))

\* While the loop's quotes keep hitting the stop or the target of p, p does
\* not stay open: neither an aborted management half, nor the other
\* workers, nor a restart keeps the lifecycle from closing it.
NoPositionOutlivesItsStop ==
  \A p \in Positions :
    []<>~(/\ row[p].status = "open"
          /\ sess["market"].phase # "idle" =>
               \/ HitStop(terms[p], row[p], sess["market"].price)
               \/ HitTarget(terms[p], row[p], sess["market"].price))

=============================================================================
