---------------------------- MODULE DemoTrading ----------------------------
(***************************************************************************)
(* The in-memory demo engine (demo_trading.py) behind /demo/trades         *)
(* (demo_api.py) and its rows in table trades (journal.py).  The endpoints *)
(* are plain defs: every request runs in a thread of its own, and nothing  *)
(* locks the engine between can_open_trade and the insertion, or between   *)
(* the engine and the journal.                                             *)
(***************************************************************************)
EXTENDS Integers, FiniteSets, Functions

CONSTANTS
  DemoTrades,      \* the trade ids requests may be given
  DemoPnls,        \* what closing a trade may earn
  MaxDemoTrades,   \* max_open_trades, 3 in demo_api
  MaxDemoLoss      \* max_daily_loss, 300

ASSUME DemoAssumption ==
  /\ MaxDemoTrades \in Nat \ {0} /\ MaxDemoLoss \in Nat \ {0}
  /\ DemoPnls \subseteq Int /\ IsFiniteSet(DemoTrades)

VARIABLES
  engine,          \* engine[t]: the trade object in memory
  request,         \* request[t]: what the request for t is about to do
  rows             \* rows[t]: the status of its journal row

NoTrade == [status |-> "none", pnl |-> 0, day |-> 0]

DemoOpen == {t \in DemoTrades : engine[t].status = "open"}

DailyClosedPnl(today) ==
  SumFunctionOnSet([t \in DemoTrades |-> engine[t].pnl],
                   {t \in DemoTrades : engine[t].status = "closed" /\ engine[t].day = today})

CanOpenTrade(today) ==
  /\ Cardinality(DemoOpen) < MaxDemoTrades
  /\ DailyClosedPnl(today) > -MaxDemoLoss

DemoInit ==
  /\ engine = [t \in DemoTrades |-> NoTrade]
  /\ request = [t \in DemoTrades |-> "idle"]
  /\ rows = [t \in DemoTrades |-> "none"]

\* POST /demo/trades: open_trade asks can_open_trade ...
DemoCheck(t, today) ==
  /\ engine[t].status = "none" /\ request[t] = "idle" /\ rows[t] = "none"
  /\ CanOpenTrade(today)
  /\ request' = [request EXCEPT ![t] = "insert"]
  /\ UNCHANGED <<engine, rows>>

\* ... and puts the trade into the dictionary.
DemoInsert(t) ==
  /\ request[t] = "insert"
  /\ engine' = [engine EXCEPT ![t] = [NoTrade EXCEPT !.status = "open"]]
  /\ request' = [request EXCEPT ![t] = "save"]
  /\ UNCHANGED rows

DemoSave(t) ==
  /\ request[t] = "save"
  /\ rows' = [rows EXCEPT ![t] = "open"]
  /\ request' = [request EXCEPT ![t] = "idle"]
  /\ UNCHANGED engine

\* Mutant of AfterFailedSave: the trade stays in memory.
KeptAfterFailedSave(trade, today) == trade

\* save_demo_trade raised: cancel_trade, which needs the trade to be there.
AfterFailedSave(trade, today) ==
  IF trade.status = "open" THEN [trade EXCEPT !.status = "cancelled", !.day = today]
  ELSE trade

DemoSaveFails(t, today) ==
  /\ request[t] = "save"
  /\ engine' = [engine EXCEPT ![t] = AfterFailedSave(@, today)]
  /\ request' = [request EXCEPT ![t] = "idle"]
  /\ UNCHANGED rows

\* POST /demo/trades/{id}/close: the engine first, then its row.
DemoClose(t, today) ==
  /\ engine[t].status = "open" /\ request[t] = "idle"
  /\ \E pnl \in DemoPnls :
       engine' = [engine EXCEPT ![t] = [status |-> "closed", pnl |-> pnl, day |-> today]]
  /\ request' = [request EXCEPT ![t] = "update"]
  /\ UNCHANGED rows

DemoUpdate(t) ==
  /\ request[t] = "update"
  /\ rows' = [rows EXCEPT ![t] = "closed"]
  /\ request' = [request EXCEPT ![t] = "idle"]
  /\ UNCHANGED engine

\* update_demo_trade raised: the client is told 500, the trade stays closed.
DemoUpdateFails(t) ==
  /\ request[t] = "update"
  /\ request' = [request EXCEPT ![t] = "idle"]
  /\ UNCHANGED <<engine, rows>>

Forgotten == [t \in DemoTrades |-> NoTrade]

\* POST /demo/reset clears the dictionary under the requests in flight.
DemoReset ==
  /\ DemoOpen # {}
  /\ engine' = Forgotten
  /\ UNCHANGED <<request, rows>>

\* A new process starts with an empty engine.
DemoCrash ==
  /\ engine' = Forgotten
  /\ request' = [t \in DemoTrades |-> "idle"]
  /\ UNCHANGED rows

DemoNext(today) ==
  \/ \E t \in DemoTrades :
       \/ DemoCheck(t, today) \/ DemoInsert(t) \/ DemoSave(t)
       \/ DemoSaveFails(t, today)
       \/ DemoClose(t, today) \/ DemoUpdate(t) \/ DemoUpdateFails(t)
  \/ DemoReset

=============================================================================
