--------------------------- MODULE PaperPipeline ---------------------------
(***************************************************************************)
(* From candles to a paper position: TradingPipelineService and Step14     *)
(* over MarketAnalysis, TradingDecision and RiskRules, called by           *)
(*   worker    AutomaticEntryWorker.run_once, with the risk state that     *)
(*             persistent_paper_risk builds from table positions           *)
(*   endpoint  POST /api/strategy/paper-trade, with the risk state that    *)
(*             main builds from the in-memory demo engine (DemoTrading)    *)
(* Both take the account equity from persistent_paper_account.             *)
(*                                                                         *)
(* The life of an open position is PaperPositions' subject; here it has    *)
(* the exits the accounts tell apart: marked at a price, half of it closed *)
(* in profit, stop moved, closed.  Times are days: the accounts ask of a   *)
(* timestamp only whether it is today's.                                   *)
(***************************************************************************)
EXTENDS TradingDecision, DemoTrading

CONSTANTS
  Positions,       \* the ids of the positions
  Moves,           \* the candles the market may print next, relative to the
                   \* last close: [close, reach, volume]
  StartPrice,      \* close of the first candle, in ticks
  StartBalance,    \* PAPER_STARTING_BALANCE, in ticks * steps
  RiskPercent, DailyLossPercent, ExposurePercent, MaxOpen,
  VolumeMin, VolumeMax, VolumeLimit, TradeMode,
  MaxCandles,      \* bound of the model: candles printed
  MaxDay           \* bound of the model: days

ASSUME BoundAssumption == MaxCandles \in Nat /\ MaxDay \in Nat /\ IsFiniteSet(Positions)

ASSUME MarketAssumption ==
  /\ StartPrice \in Int /\ StartBalance \in Int
  /\ \A move \in Moves : move.close \in Int /\ move.reach \in Nat /\ move.volume \in Int

Risk == INSTANCE RiskRules WITH PriceUnit <- Unit, MinRewardRatio <- MinimumRewardRatio

ASSUME RiskAssumption == Risk!ValidRiskConfig

VARIABLES
  candles,         \* the window the feed returns, oldest first
  context,         \* what build_context makes of it
  printed,         \* how many candles the market has printed
  day,
  book,            \* book[p]: the row of position p
  booked           \* booked[d]: history, the money realised on day d

market == <<candles, context, printed>>
vars == <<market, day, book, booked, engine, request, rows>>

NoPosition == [status |-> "none", direction |-> "BUY", entry |-> 0, risk |-> 0,
               volume |-> 0, left |-> 0, pnl |-> 0, partialPnl |-> 0,
               action |-> "NONE", managed |-> 0, closed |-> 0]

Open == {p \in Positions : book[p].status = "open"}
Closed == {p \in Positions : book[p].status = "closed"}

Price == Last(Closes(candles))

\* A candle that opens at the last close and closes move.close away from it.
NextCandle(close, move) ==
  [open |-> close, close |-> close + move.close,
   high |-> Larger(close, close + move.close) + move.reach,
   low |-> Smaller(close, close + move.close) - move.reach,
   volume |-> move.volume]

FirstWindow ==
  [i \in 1..MinimumCandles |->
     NextCandle(StartPrice, [close |-> 0, reach |-> 1, volume |-> 1])]

Init ==
  /\ candles = FirstWindow
  /\ context = Context(FirstWindow)
  /\ printed = 0
  /\ day = 0
  /\ book = [p \in Positions |-> NoPosition]
  /\ booked = [d \in 0..MaxDay |-> 0]
  /\ DemoInit

-----------------------------------------------------------------------------
(* persistent_paper_account.py and persistent_paper_risk.py                *)

\* Columns of the book.
Pnl == [p \in Positions |-> book[p].pnl]
Partial == [p \in Positions |-> book[p].partialPnl]
Earnings == [p \in Positions |-> book[p].partialPnl + book[p].pnl]
StopRisk == [p \in Positions |-> book[p].risk * book[p].left]

\* Mutant of RealizedPnl: a position's close replaces what its partial close
\* has earned.
FinalPnl ==
  SumFunctionOnSet(Partial, Open) + SumFunctionOnSet(Pnl, Closed)

RealizedPnl == SumFunctionOnSet(Partial, Open) + SumFunctionOnSet(Earnings, Closed)

UnrealizedPnl == SumFunctionOnSet(Pnl, Open)

Balance == StartBalance * Unit + RealizedPnl

\* In whole money, as the risk engine is given it here.
Equity == (Balance + UnrealizedPnl) \div Unit

\* Only the last management action of a position is stored, so a partial
\* close counts today while it is the last one, and again with the close.
DailyRealizedPnl ==
  SumFunctionOnSet(Earnings, {p \in Closed : book[p].closed = day})
  + SumFunctionOnSet(Partial, {p \in Open : book[p].action = "PARTIAL_CLOSE"
                                             /\ book[p].managed = day})

\* risk_1r / 0.01 * quantity, of the original distance and what is left.
TotalExposure == SumFunctionOnSet(StopRisk, Open)

PersistentRiskState ==
  [dailyLoss |-> Larger(0, -DailyRealizedPnl), open |-> Cardinality(Open),
   exposure |-> TotalExposure]

\* main.build_paper_risk_state; its exposure is price times quantity of the
\* demo trades, which the bound of one price stands for.
DemoRiskState ==
  [dailyLoss |-> Larger(0, -Unit * DailyClosedPnl(day)),
   open |-> Cardinality(DemoOpen), exposure |-> Price * Cardinality(DemoOpen)]

-----------------------------------------------------------------------------
(* Step14Pipeline                                                          *)

\* The decisions the engine may come to: rounding is not ours to choose.
\* It raises on a context that contradicts itself, and nothing is decided.
Decisions ==
  IF ValidContext(context) /\ ValidPressure(context.pressure)
    THEN {Evaluate(context, e) : e \in RoundingErrors}
    ELSE {}

\* Step14Pipeline.evaluate: no decision, no size, or no permission, and
\* nothing is executed.
Approved(decision, state) ==
  LET p == decision.proposal
      volume == Risk!PositionSize(Equity, p.entry, p.stop)
  IN  /\ decision.direction # "WAIT"
      /\ volume > 0
      /\ Risk!PreTradeCheck(Equity, state, p, volume, Risk!StopCost(p.entry, p.stop, volume))

\* PositionRepository.create of what the paper gateway accepted.
Opened(p) ==
  [NoPosition EXCEPT
     !.status = "open", !.direction = p.direction, !.entry = p.entry,
     !.risk = Risk!Span(p.entry, p.stop),
     !.volume = Risk!PositionSize(Equity, p.entry, p.stop),
     !.left = Risk!PositionSize(Equity, p.entry, p.stop)]

ExecutePaper(state) ==
  /\ Usable(candles) /\ Equity > 0
  /\ \E decision \in Decisions, p \in Positions :
       /\ book[p].status = "none"
       /\ Approved(decision, state)
       /\ book' = [book EXCEPT ![p] = Opened(decision.proposal)]
  /\ UNCHANGED <<market, day, booked, engine, request, rows>>

\* run_once acts on the signal BUY or SELL; the decision is made again in
\* execute_paper, from the same candles.
WorkerTrade ==
  /\ context.signal \in {"BUY", "SELL"}
  /\ ExecutePaper(PersistentRiskState)

EndpointTrade == ExecutePaper(DemoRiskState)

-----------------------------------------------------------------------------
(* Market, positions and days                                              *)

NewCandle ==
  /\ printed < MaxCandles
  /\ printed' = printed + 1
  /\ \E move \in Moves :
       candles' = Append(Tail(candles), NextCandle(Last(candles).close, move))
  /\ context' = Context(candles')
  /\ UNCHANGED <<day, book, booked, engine, request, rows>>

Earned(position, quantity) ==
  Toward(position.direction) * (Price - position.entry) * quantity

ManagePosition(p, position, earned) ==
  /\ book' = [book EXCEPT ![p] = position]
  /\ booked' = [booked EXCEPT ![day] = @ + earned]
  /\ UNCHANGED <<market, day, engine, request, rows>>

\* update_price: the pnl of what is left.
Mark(p) ==
  /\ p \in Open
  /\ book[p].pnl # Earned(book[p], book[p].left)
  /\ ManagePosition(p, [book[p] EXCEPT !.pnl = Earned(book[p], book[p].left)], 0)

\* apply_partial_close, once, of half the volume and in profit.
PartialClose(p) ==
  LET quantity == book[p].left \div 2
      earned == Earned(book[p], quantity)
  IN  /\ p \in Open
      /\ quantity > 0 /\ book[p].left = book[p].volume /\ earned > 0
      /\ ManagePosition(p,
           [book[p] EXCEPT !.left = @ - quantity, !.partialPnl = @ + earned,
                           !.pnl = Earned(book[p], book[p].left - quantity),
                           !.action = "PARTIAL_CLOSE", !.managed = day],
           earned)

\* A stop moved later replaces the last management action.
MoveStop(p) ==
  /\ p \in Open
  /\ Earned(book[p], 1) > 0
  /\ book[p].action # "MOVE_STOP"
  /\ ManagePosition(p, [book[p] EXCEPT !.action = "MOVE_STOP", !.managed = day], 0)

\* A stop, a target or a request: the rest is closed at the price.
Close(p) ==
  /\ p \in Open
  /\ ManagePosition(p,
       [book[p] EXCEPT !.status = "closed", !.left = 0, !.closed = day,
                       !.pnl = Earned(book[p], book[p].left)],
       Earned(book[p], book[p].left))

NextDay ==
  /\ day < MaxDay
  /\ day' = day + 1
  /\ UNCHANGED <<market, book, booked, engine, request, rows>>

DemoStep == DemoNext(day) /\ UNCHANGED <<market, day, book, booked>>

Restart == DemoCrash /\ UNCHANGED <<market, day, book, booked>>

Next ==
  \/ NewCandle \/ WorkerTrade \/ EndpointTrade \/ NextDay \/ DemoStep \/ Restart
  \/ \E p \in Positions : Mark(p) \/ PartialClose(p) \/ MoveStop(p) \/ Close(p)

Spec == Init /\ [][Next]_vars

-----------------------------------------------------------------------------
(* What the pipeline must guarantee                                        *)

\* A price path turned upside down must be judged as bearish as the path is
\* bullish: trend, score and signal of determine_trend turn round with it.
Reflected(s) ==
  [i \in DOMAIN s |->
     [open |-> 2 * StartPrice - s[i].open, close |-> 2 * StartPrice - s[i].close,
      high |-> 2 * StartPrice - s[i].low, low |-> 2 * StartPrice - s[i].high,
      volume |-> s[i].volume]]

Opposite(trend) ==
  CASE trend = "Bullish" -> "Bearish" [] trend = "Bearish" -> "Bullish"
    [] trend = "BUY" -> "SELL" [] trend = "SELL" -> "BUY" [] OTHER -> trend

IsOpposite(r, c) ==
  /\ r.trend = Opposite(c.trend) /\ r.signal = Opposite(c.signal)
  /\ r.score = 100 - c.score
  /\ r.pressure.score = -c.pressure.score

AssessmentIsSymmetric ==
  [][NewCandle => IsOpposite(Context(Reflected(candles')), context')]_vars

\* The balance the account reports is the starting balance plus every
\* amount realised so far, each one once: partial closes of positions that
\* are still open, and of those that were closed since.
BalanceTellsBooked ==
  Balance = StartBalance * Unit + SumFunctionOnSet(booked, 0..MaxDay)

\* A demo trade the engine counts as open, and no request is busy with, has
\* its open row in the journal: a failed save takes the trade out again.
OpenTradesAreJournaled ==
  \A t \in DemoTrades :
    engine[t].status = "open" /\ request[t] = "idle" => rows[t] = "open"

\* The stop of a position the worker opens costs no more than the risk per
\* trade, and all open stops together no more than the exposure limit, of
\* the money that is really there: starting balance, what was booked, and
\* what the open positions are worth at their last mark.
StopCosts == SumFunctionOnSet(StopRisk, Open)

Wealth ==
  StartBalance * Unit + SumFunctionOnSet(booked, 0..MaxDay) + UnrealizedPnl

WorkerRiskIsBounded ==
  [][WorkerTrade =>
       /\ \A p \in Open' \ Open :
            100 * (book'[p].risk * book'[p].volume) <= RiskPercent * Wealth
       /\ 100 * StopCosts' <= ExposurePercent * Wealth]_vars

=============================================================================
