------------------------- MODULE ProductionBacktest -------------------------
(***************************************************************************)
(* backend/app/backtest_engine.py: the backtest of the decision engine     *)
(* that trades.  A decision made on a completed candle is executed at the  *)
(* next open; a stop or target that the open has already passed is filled  *)
(* at the open; the position is managed after its exit was checked, for    *)
(* the candles to come.                                                    *)
(*                                                                         *)
(* The decision is an input here (TradingDecision models the engine): WAIT *)
(* or a direction with the distances of its stop and target.               *)
(***************************************************************************)
EXTENDS Simulation

CONSTANTS
  WarmupCandles,
  Proposals,                     \* [risk, reward]: distances in ticks
  RiskPercent, DailyLossPercent, ExposurePercent, Leverage,
  MinRewardRatio, MinVolume, MaxVolume,
  ProtectTrigger20, ProtectLock20,     \* twentieths of R
  LowerRequired                  \* a lower timeframe must confirm

ValidConfig ==
  /\ WarmupCandles \in Nat \ {0}
  /\ ProtectLock20 \in Nat /\ ProtectTrigger20 \in Nat /\ ProtectLock20 <= ProtectTrigger20
  /\ Proposals \subseteq [risk : Nat \ {0}, reward : Nat \ {0}]

Risk == INSTANCE RiskRules WITH
  PriceUnit <- 1, MaxOpen <- 1, VolumeMin <- MinVolume, VolumeMax <- MaxVolume,
  VolumeLimit <- 0, TradeMode <- "full"

\* R multiples of the engine, in twentieths.
PartialTp == 20
BreakEven == 20
TpExtensionTrigger == 25
TpExtensionTarget == 50
TrailingTrigger == 30
TrailingDistance == 15

-----------------------------------------------------------------------------
(* Entry                                                                   *)

\* _rebase_protective_levels: the distances of the proposal, from the price
\* that was really paid.
Rebased(direction, entry, proposal) ==
  [stop |-> entry - Toward(direction) * proposal.risk,
   target |-> entry + Toward(direction) * proposal.reward]

NoOthers(dailyLoss) == [dailyLoss |-> dailyLoss, open |-> 0, exposure |-> 0]

\* The position that an order filled at the raw price makes, when it has a
\* size and the risk engine allows it.
PositionAt(raw, decision, equity, dailyLoss, bar) ==
  LET entry == WithEntryCost(decision.direction, raw)
      level == Rebased(decision.direction, entry, decision.proposal)
      volume == Risk!PositionSize(equity, entry, level.stop)
      order == [direction |-> decision.direction, entry |-> entry,
                stop |-> level.stop, target |-> level.target]
  IN  IF \/ volume <= 0
         \/ ~Risk!PreTradeCheck(equity, NoOthers(dailyLoss), order, volume,
                                (entry * volume) \div Leverage)
      THEN None
      ELSE [direction |-> decision.direction, entry |-> entry,
            stop |-> level.stop, target |-> level.target,
            volume |-> volume, initial |-> volume, risk |-> decision.proposal.risk,
            partial |-> FALSE, even |-> FALSE, realized |-> 0, opened |-> bar]

\* Executed at the open of the last candle of h.
Entry(decision, h, equity, dailyLoss) ==
  PositionAt(Last(h).open, decision, equity, dailyLoss, Len(h))

-----------------------------------------------------------------------------
(* _manage_open_position                                                   *)

Best(p, c) == IF p.direction = "BUY" THEN c.high ELSE c.low
Worst(p, c) == IF p.direction = "BUY" THEN c.low ELSE c.high

\* The price at so many twentieths of R in favour.
AtR(p, twentieths) == p.entry + Toward(p.direction) * ((p.risk * twentieths) \div 20)

Reached(p, c, twentieths) == Toward(p.direction) * (Best(p, c) - AtR(p, twentieths)) >= 0

\* a is beyond b in the direction of the position.
Beyond(p, a, b) == Toward(p.direction) * (a - b) > 0

PartialPnl(p) ==
  Pnl(p.direction, p.entry, WithExitCost(p.direction, AtR(p, PartialTp)), p.volume \div 2)

\* Mutant of TakePartial: the half that is sold stays in the position.
TakePartialOfAll(p, c) ==
  IF p.partial \/ ~Reached(p, c, PartialTp) THEN p
  ELSE [p EXCEPT !.partial = TRUE, !.realized = @ + PartialPnl(p)]

TakePartial(p, c) ==
  IF p.partial \/ ~Reached(p, c, PartialTp) THEN p
  ELSE [p EXCEPT !.volume = @ - p.volume \div 2, !.partial = TRUE,
                 !.realized = @ + PartialPnl(p)]

ToBreakEven(p, c) ==
  IF p.even \/ ~Reached(p, c, BreakEven) THEN p
  ELSE [p EXCEPT !.stop = IF Beyond(p, p.entry, @) THEN p.entry ELSE @, !.even = TRUE]

ExtendTarget(p, c) ==
  IF Reached(p, c, TpExtensionTrigger) /\ Beyond(p, AtR(p, TpExtensionTarget), p.target)
  THEN [p EXCEPT !.target = AtR(p, TpExtensionTarget)] ELSE p

Trail(p, c) ==
  LET proposed == Best(p, c) - Toward(p.direction) * ((p.risk * TrailingDistance) \div 20)
  IN  IF /\ Reached(p, c, TrailingTrigger)
         /\ Beyond(p, p.target, proposed) /\ Beyond(p, proposed, p.stop)
      THEN [p EXCEPT !.stop = proposed] ELSE p

\* _apply_profit_protection: not past the target.
Protect(p, c) ==
  LET locked == AtR(p, ProtectLock20)
  IN  IF Reached(p, c, ProtectTrigger20) /\ Beyond(p, locked, p.stop)
      THEN [p EXCEPT !.stop = IF Beyond(p, p.target, locked) THEN locked
                              ELSE p.target - Toward(p.direction)]
      ELSE p

Manage(p, c) == Protect(Trail(ExtendTarget(ToBreakEven(TakePartial(p, c), c), c), c), c)

-----------------------------------------------------------------------------
(* _check_exit and _close_position                                         *)

\* The open first, then the stop, then the target.
ExitPrices(p, c) ==
  IF ~Beyond(p, c.open, p.stop) \/ ~Beyond(p, p.target, c.open) THEN {c.open}
  ELSE IF ~Beyond(p, Worst(p, c), p.stop) THEN {p.stop}
  ELSE IF ~Beyond(p, p.target, Best(p, c)) THEN {p.target} ELSE {}

\* The trade's pnl is that of all of it; what the balance still has to get is
\* that of the rest.
RestPnl(p, raw) == Pnl(p.direction, p.entry, WithExitCost(p.direction, raw), p.volume)

TradeOf(p, raw) ==
  [direction |-> p.direction, opened |-> p.opened, closed |-> Len(candles),
   entry |-> p.entry, exit |-> raw, stop |-> p.stop, target |-> p.target,
   volume |-> p.initial, amount |-> p.risk * p.initial,
   pnl |-> p.realized + RestPnl(p, raw)]

-----------------------------------------------------------------------------
(* run                                                                     *)

Today == Last(periods)

\* The day of a candle begins when the loop comes to it; the order decided
\* on the candle before was checked against the day before.
ProductionCandle ==
  /\ phase = "next" /\ ~AtEnd
  /\ \E move \in MovesOf(Len(candles) + 1) :
       candles' = Append(candles, NextBar(Bar.close, move))
  /\ phase' = IF Len(candles) < WarmupCandles THEN "next"
              ELSE IF pending = None THEN "day" ELSE "open"
  /\ UNCHANGED <<account, pending, curve>>

\* calculate_position_size, pre_trade_check and the position, at the open.
ExecuteAtOpen ==
  /\ phase = "open"
  /\ position' = Entry(pending, candles, balance, Today.loss)
  /\ pending' = None
  /\ phase' = "day"
  /\ UNCHANGED <<candles, balance, periods, trades, curve>>

BeginDay ==
  /\ phase = "day"
  /\ periods' = IF periods = <<>> \/ PeriodOf(Len(candles)) # PeriodOf(Len(candles) - 1)
                THEN Append(periods, [loss |-> 0]) ELSE periods
  /\ phase' = "exit"
  /\ UNCHANGED <<candles, balance, position, pending, trades, curve>>

WithLoss(pnl) ==
  [periods EXCEPT ![Len(periods)].loss = @ + (IF pnl < 0 THEN -pnl ELSE 0)]

Marked(money, p, c) ==
  LET equity == IF p = None THEN money ELSE money + Pnl(p.direction, p.entry, c.close, p.volume)
  IN  /\ peak' = Max({peak, equity})
      /\ drawdown' = Max({drawdown, Max({peak, equity}) - equity})

\* Mutant of CloseAt: the whole trade's pnl is added, what its partial exit
\* has earned a second time.
CloseTwiceAt(raw) ==
  /\ balance' = balance + TradeOf(position, raw).pnl
  /\ periods' = WithLoss(RestPnl(position, raw))
  /\ trades' = Append(trades, TradeOf(position, raw))
  /\ position' = None

CloseAt(raw) ==
  /\ balance' = balance + RestPnl(position, raw)
  /\ periods' = WithLoss(RestPnl(position, raw))
  /\ trades' = Append(trades, TradeOf(position, raw))
  /\ position' = None

ProductionExit ==
  /\ phase = "exit" /\ position # None
  /\ \E raw \in ExitPrices(position, Bar) : CloseAt(raw)
  /\ Marked(balance', None, Bar)
  /\ phase' = "decide"
  /\ UNCHANGED <<candles, pending>>

\* What the partial exit earns is booked at once.
ProductionManage ==
  /\ phase = "exit" /\ position # None
  /\ ExitPrices(position, Bar) = {}
  /\ LET managed == Manage(position, Bar)
         earned == managed.realized - position.realized
     IN  /\ position' = managed
         /\ balance' = balance + earned
         /\ periods' = WithLoss(earned)
         /\ Marked(balance', managed, Bar)
  /\ phase' = "decide"
  /\ UNCHANGED <<candles, pending, trades>>

ProductionFlat ==
  /\ phase = "exit" /\ position = None
  /\ Marked(balance, None, Bar)
  /\ phase' = "decide"
  /\ UNCHANGED <<candles, account, pending>>

\* While a position is held nothing is decided; a decision needs the lower
\* timeframe's where the run requires it; the last candle's has no next open.
Decide ==
  /\ phase = "decide"
  /\ \/ pending' = None
     \/ /\ position = None /\ ~AtEnd
        /\ \E direction \in {"BUY", "SELL"}, lower \in {"BUY", "SELL", "WAIT"}, p \in Proposals :
             /\ LowerRequired => lower = direction
             /\ pending' = [direction |-> direction, proposal |-> p]
  /\ phase' = "next"
  /\ UNCHANGED <<candles, account, curve>>

\* Mutant of ProductionFinish: the last close is not on the curve.
UnmarkedFinish ==
  /\ phase = "next" /\ AtEnd
  /\ IF position = None THEN UNCHANGED <<account, curve>>
     ELSE /\ balance' = balance + RestPnl(position, Bar.close)
          /\ trades' = Append(trades, TradeOf(position, Bar.close))
          /\ position' = None
          /\ UNCHANGED <<periods, curve>>
  /\ phase' = "done"
  /\ UNCHANGED <<candles, pending>>

\* The close at the end adds a last point to the equity curve.
ProductionFinish ==
  /\ phase = "next" /\ AtEnd
  /\ IF position = None THEN UNCHANGED <<account, curve>>
     ELSE /\ balance' = balance + RestPnl(position, Bar.close)
          /\ trades' = Append(trades, TradeOf(position, Bar.close))
          /\ position' = None
          /\ Marked(balance', None, Bar)
          /\ UNCHANGED periods
  /\ phase' = "done"
  /\ UNCHANGED <<candles, pending>>

ProductionNext ==
  \/ ProductionCandle \/ ExecuteAtOpen \/ BeginDay \/ ProductionExit
  \/ ProductionManage \/ ProductionFlat \/ Decide \/ ProductionFinish

=============================================================================
