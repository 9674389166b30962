---------------------------- MODULE MonthlyAudit ----------------------------
(***************************************************************************)
(* monthly_trade_audit.py: the monthly report over the closed paper        *)
(* positions.  It does not trust the profit the repository has stored but  *)
(* recomputes it from prices and quantities, with a rule and a contract    *)
(* size of its own, and reports every trade where the two differ.          *)
(***************************************************************************)
EXTENDS PaperPositions

LOCAL INSTANCE Functions

\* load_closed_positions; nothing to report for the months without one.
ClosedPositions == {p \in Positions : row[p].status = "closed"}

OriginalQuantity(p) == terms[p].quantity

PartialQuantity(p) == row[p].reduced.quantity

\* The price of a partial close that was made.
PartialClosePrice(p) == row[p].reduced.price

\* current_price: the exit wrote it last.
FinalExitPrice(p) == row[p].price

\* XAUUSD_CONTRACT_SIZE is that of the repository.
PricePnl(direction, from, to, quantity) ==
  IF quantity <= 0 THEN 0
  ELSE Move(direction, from, to) * quantity * ContractSize

PartialClosePnl(p) ==
  PricePnl(terms[p].direction, terms[p].entry, PartialClosePrice(p), PartialQuantity(p))

\* max(0, original - partial); more than the original is warned about.
RemainingQuantity(p) ==
  LET remaining == OriginalQuantity(p) - PartialQuantity(p)
  IN  IF remaining < 0 THEN 0 ELSE remaining

FinalPositionPnl(p) ==
  PricePnl(terms[p].direction, terms[p].entry, FinalExitPrice(p), RemainingQuantity(p))

StoredPartialClosePnl(p) == row[p].reduced.pnl
StoredFinalPnl(p) == row[p].pnl
StoredTotalPnl(p) == StoredPartialClosePnl(p) + StoredFinalPnl(p)

\* audited_position_accounting: pnl_correction and warning.
Correction(p) == PartialClosePnl(p) + FinalPositionPnl(p) - StoredTotalPnl(p)

Warned(p) ==
  \/ OriginalQuantity(p) <= 0
  \/ PartialQuantity(p) > OriginalQuantity(p)

\* accounting_summary: what it lists.
Differences == {p \in ClosedPositions : Correction(p) # 0}
Warnings == {p \in ClosedPositions : Warned(p)}

-----------------------------------------------------------------------------
(* The report, over results pnl[p] of closed trades.                       *)

Gains(pnl, S) == {p \in S : pnl[p] > 0}
LossesOf(pnl, S) == {p \in S : pnl[p] < 0}

\* performance_summary of the trades S; ratios follow from these.
Performance(pnl, S) ==
  [total_trades |-> Cardinality(S),
   winning_trades |-> Cardinality(Gains(pnl, S)),
   losing_trades |-> Cardinality(LossesOf(pnl, S)),
   total_pnl |-> SumFunctionOnSet(pnl, S),
   gross_profit |-> SumFunctionOnSet(pnl, Gains(pnl, S)),
   gross_loss |-> -SumFunctionOnSet(pnl, LossesOf(pnl, S))]

\* One group per value of the attribute that occurs.
GroupPerformance(pnl, attribute) ==
  [value \in Range(attribute) |->
     Performance(pnl, {p \in DOMAIN pnl : attribute[p] = value})]

\* Both groups, empty or not.
ManagementGroup(pnl, attribute) ==
  [applied \in BOOLEAN |-> Performance(pnl, {p \in DOMAIN pnl : attribute[p] = applied})]

LossPatterns(pnl) ==
  [direction \in Directions |->
     Cardinality({p \in LossesOf(pnl, DOMAIN pnl) : terms[p].direction = direction})]

\* build_report
Report(pnl) ==
  [performance |-> Performance(pnl, DOMAIN pnl),
   direction |-> GroupPerformance(pnl, [p \in DOMAIN pnl |-> terms[p].direction]),
   break_even_applied |-> ManagementGroup(pnl, [p \in DOMAIN pnl |-> row[p].breakEven]),
   partial_close_applied |->
     ManagementGroup(pnl, [p \in DOMAIN pnl |-> PartialQuantity(p) > 0]),
   loss_patterns |-> LossPatterns(pnl)]

\* total_trade_pnl, recomputed and as stored.
AuditedResults == [p \in ClosedPositions |-> PartialClosePnl(p) + FinalPositionPnl(p)]
StoredResults == [p \in ClosedPositions |-> StoredTotalPnl(p)]
=============================================================================
