--------------------------- MODULE TradeDecisions ---------------------------
(***************************************************************************)
(* The two decision layers of the paper side, as pure operators:           *)
(*   - AdvancedTradeManager (advanced_trade_management.py), asked by the   *)
(*     market loop and by the management endpoint, and                     *)
(*   - AutomaticTradeManager (automatic_trade_manager.py), asked by the    *)
(*     Stage 17.5 worker through its adapter.                              *)
(*                                                                         *)
(* Prices and distances are integers in a unit fine enough for every       *)
(* distance of the configuration; R multiples are compared by cross        *)
(* multiplication (profit / risk >= r  <=>  profit >= r * risk), which is  *)
(* exact because the code has checked risk > 0 before it divides.          *)
(***************************************************************************)
EXTENDS Integers

CONSTANTS
  \* TradeManagementConfig
  BreakEvenTriggerR, BreakEvenOffset, TrailingDistance, TrailingStep,
  PartialClosePercent, PartialCloseTriggerR,
  \* AutomaticManagementConfig; LockPercent is 100 * lock_profit_r
  ProtectionR, LockPercent, AutoTrailingDistance, AutoTrailingStep,
  ExtendAfterR, ExtensionDistance

\* What both validate() methods of the configurations require.
ASSUME ConfigAssumption ==
  /\ BreakEvenTriggerR \in Nat \ {0} /\ BreakEvenOffset \in Nat
  /\ TrailingDistance \in Nat \ {0} /\ TrailingStep \in Nat \ {0}
  /\ PartialClosePercent \in 1 .. 99 /\ PartialCloseTriggerR \in Nat \ {0}
  /\ ProtectionR \in Nat \ {0}
  /\ LockPercent \in Nat /\ LockPercent < 100 * ProtectionR
  /\ AutoTrailingDistance \in Nat \ {0} /\ AutoTrailingStep \in Nat \ {0}
  /\ ExtendAfterR \in Nat \ {0} /\ ExtensionDistance \in Nat \ {0}

Directions == {"buy", "sell"}

\* Market strength reduced to the two thresholds at -0.75 and +0.75.
Strengths == {"bearish", "neutral", "bullish"}

Distance(a, b) == IF a >= b THEN a - b ELSE b - a

\* a lies further than b in the direction that profits dir.
Ahead(dir, a, b) == IF dir = "buy" THEN a > b ELSE a < b

\* The price move in favour of a position entered at entry.
Move(dir, entry, x) == IF dir = "buy" THEN x - entry ELSE entry - x

\* The point that lies dist in favour of dir from x.
Shift(dir, x, dist) == IF dir = "buy" THEN x + dist ELSE x - dist

-----------------------------------------------------------------------------
(* AdvancedTradeManager.  A snapshot s has the fields direction, entry,    *)
(* price, quantity, stop, target, breakEven and reduced.                   *)

\* Mutant of ValidSnapshot: the stop must still be on the losing side of
\* entry, as it is when a trade is opened.
ValidOnlyAtRisk(s) ==
  /\ s.entry > 0 /\ s.price > 0 /\ s.quantity > 0
  /\ s.stop > 0 /\ s.target > 0
  /\ Ahead(s.direction, s.price, s.stop)
  /\ Ahead(s.direction, s.entry, s.stop)
  /\ Ahead(s.direction, s.target, s.entry)

\* PositionSnapshot.validate
ValidSnapshot(s) ==
  /\ s.entry > 0 /\ s.price > 0 /\ s.quantity > 0
  /\ s.stop > 0 /\ s.target > 0
  /\ Ahead(s.direction, s.price, s.stop)
  /\ Ahead(s.direction, s.target, s.entry)

\* The distance R is measured in: from entry to the stop as it is NOW.
RiskDistance(s) == Distance(s.entry, s.stop)

Profit(s) == Move(s.direction, s.entry, s.price)

BreakEvenStop(s) == Shift(s.direction, s.entry, BreakEvenOffset)

TrailingStop(s) == Shift(s.direction, s.price, -TrailingDistance)

PartialCloseQuantity(s) == (s.quantity * PartialClosePercent) \div 100

\* Mutant of StopImproves: any other stop counts as an improvement.
StopDiffers(s, stop) == stop # s.stop

StopImproves(s, stop) == Ahead(s.direction, stop, s.stop)

PartialCloseDue(s) ==
  /\ ~s.reduced
  /\ Profit(s) >= PartialCloseTriggerR * RiskDistance(s)
  /\ PartialCloseQuantity(s) > 0

BreakEvenDue(s) ==
  /\ ~s.breakEven
  /\ Profit(s) >= BreakEvenTriggerR * RiskDistance(s)
  /\ Ahead(s.direction, s.price, BreakEvenStop(s))
  /\ StopImproves(s, BreakEvenStop(s))

TrailDue(s) ==
  /\ StopImproves(s, TrailingStop(s))
  /\ Distance(TrailingStop(s), s.stop) >= TrailingStep

Decision(act, stop, quantity) ==
  [act |-> act, stop |-> stop, quantity |-> quantity]

Hold == Decision("hold", 0, 0)

\* "error" stands for the TradeManagementError the call raises.
AdvancedEvaluate(s) ==
  CASE ~ValidSnapshot(s) \/ RiskDistance(s) = 0 -> Decision("error", 0, 0)
    [] OTHER ->
         IF Profit(s) <= 0 THEN Hold
         ELSE IF PartialCloseDue(s)
                THEN Decision("partial_close", 0, PartialCloseQuantity(s))
         ELSE IF BreakEvenDue(s)
                THEN Decision("move_to_break_even", BreakEvenStop(s), 0)
         ELSE IF TrailingStop(s) <= 0 THEN Decision("error", 0, 0)
         ELSE IF TrailDue(s) THEN Decision("trail_stop", TrailingStop(s), 0)
         ELSE Hold

-----------------------------------------------------------------------------
(* AutomaticTradeManager.  An input a has the fields direction, entry,     *)
(* price, stop, target, initialStop and strength.                          *)

AutoProfit(a) == Move(a.direction, a.entry, a.price)

\* profit_r: the adapter always passes the initial stop, so R is stable.
InitialRisk(a) == Distance(a.entry, a.initialStop)

\* stop_is_valid: a stop at or past entry must still be behind the price.
StopIsValid(a, stop) ==
  \/ Ahead(a.direction, a.entry, stop)
  \/ Ahead(a.direction, a.price, stop)

\* The protective candidate takes its risk distance from the CURRENT stop.
LockedStop(a) ==
  Shift(a.direction, a.entry,
        (Distance(a.entry, a.stop) * LockPercent) \div 100)

AutoTrailingStop(a) == Shift(a.direction, a.price, -AutoTrailingDistance)

Tighter(dir, x, y) == IF Ahead(dir, x, y) THEN x ELSE y

CandidateStop(a) ==
  IF AutoProfit(a) >= ProtectionR * InitialRisk(a)
    THEN Tighter(a.direction, LockedStop(a), AutoTrailingStop(a))
    ELSE AutoTrailingStop(a)

StopCandidateAccepted(a) ==
  /\ Ahead(a.direction, CandidateStop(a), a.stop)
  /\ Ahead(a.direction, a.price, CandidateStop(a))
  /\ StopIsValid(a, CandidateStop(a))
  /\ Distance(CandidateStop(a), a.stop) >= AutoTrailingStep

CandidateTarget(a) ==
  Tighter(a.direction, Shift(a.direction, a.price, ExtensionDistance),
                       Shift(a.direction, a.target, ExtensionDistance))

\* market_strength >= reversal_threshold, whatever the direction.
TargetCandidateAccepted(a) ==
  /\ AutoProfit(a) >= ExtendAfterR * InitialRisk(a)
  /\ a.strength = "bullish"
  /\ Ahead(a.direction, CandidateTarget(a), a.entry)
  /\ Ahead(a.direction, CandidateTarget(a), a.target)

ReversalAgainst(a) ==
  /\ AutoProfit(a) < 0
  /\ a.strength = (IF a.direction = "buy" THEN "bearish" ELSE "bullish")

AutoDecision(act, stop, target) ==
  [act |-> act, stop |-> stop, target |-> target]

\* "error" stands for a ValueError of the manager, or of the persistence
\* layer, which refuses a stop or a target that is not positive.
AutomaticEvaluate(a) ==
  LET moveStop == StopCandidateAccepted(a)
      moveTarget == TargetCandidateAccepted(a)
      badStop == moveStop /\ CandidateStop(a) <= 0
      badTarget == moveTarget /\ CandidateTarget(a) <= 0
  IN  CASE ~StopIsValid(a, a.stop) -> AutoDecision("error", 0, 0)
        [] StopIsValid(a, a.stop) /\ ReversalAgainst(a) ->
             AutoDecision("close", 0, 0)
        [] OTHER ->
             IF badStop \/ badTarget THEN AutoDecision("error", 0, 0)
             ELSE IF moveStop \/ moveTarget
               THEN AutoDecision(
                      IF ~moveTarget THEN "modify_sl"
                      ELSE IF ~moveStop THEN "modify_tp" ELSE "modify_sl_tp",
                      IF moveStop THEN CandidateStop(a) ELSE a.stop,
                      IF moveTarget THEN CandidateTarget(a) ELSE a.target)
             ELSE AutoDecision("hold", 0, 0)
=============================================================================
