# Raymond v2.8: verification of the trading core

TLA+ models of the parts of Raymond that open, manage and close positions, the
TLC configurations that check them, and TLAPS proofs of the results that matter
most. `PROJECT.json` is the index: components, runs, mutants, the map from
definitions to source lines, findings, hazards and theorems.

1. [The system](#1-the-system): inventory, interactions, what is hard
2. [The models](#2-the-models): modules and how they correspond to the code
3. [The runs](#3-the-runs): what is checked, on which instance, and what it shows
4. [Fairness](#4-fairness)
5. [The proofs](#5-the-proofs)
6. [Findings](#6-findings)
7. [What is not modelled](#7-what-is-not-modelled)
8. [Plan](#8-plan)

## 1. The system

Raymond trades XAUUSD. The production process is started by the Dockerfile
through `canonical_user_positions_main` and `canonical_online_main` from
`src/backend/online_main.py`: one Python process with one asyncio event loop that
serves the HTTP interface and runs background workers as tasks (startup L563-653,
shutdown L660-737). Paths below are relative to `src/backend/app` unless they say
otherwise; the repository also has a directory `src/Backend`, which the production
process does not import.

### 1.1 Components

| Component | State | Operations | Correct when |
|---|---|---|---|
| Paper positions (`position_repository.py`, table `positions`) | one row per trade: status, remaining quantity, stop, target, marks, partial close, profit | create, update price, move stop, break-even, partial close, close | quantity and profit are booked once; a closed row is final |
| Lifecycle and market loop (`paper_position_lifecycle*.py`, `paper_position_market_loop.py`) | one session per cycle, the quoted price | per quote: close what hit its stop or target, then manage the rest | an open position never survives a quote past its stop; a failed cycle does not stop the loop |
| Position manager and its endpoint (`paper_position_manager.py`, `paper_position_management_api.py`) | a session of its own; the endpoint runs in a thread | evaluate, then mark and act on each open position | protection only improves; concurrent managers reduce once |
| Advanced trade management (`advanced_trade_management.py`) | none | partial close, break-even, trailing decision | the decision is valid for the row it was made from |
| Automatic trade management, Stage 17.5 (`automatic_trade_manage*.py`) | positions read before the awaited analysis | lock profit, trail, extend target | never loosens a stop, never brings a target closer, never revives a closed row |
| Entry, Stage 17.6 (`automatic_entry_worker.py`, `main.py` L1130-1664, L2496-2801) | journal row and position row in two commits | decide, check risk, persist | no more open positions than allowed; both rows or neither |
| Live gateway (`live_execution_gateway.py`, `live_safety_gate.py`, `live_authorization.py`) | arm (memory), authorization (database), heartbeat | execute one order through more than ten awaits | no order leaves past a position nobody knows; what is reported as verified is on record and protected |
| Reconciliation and monitor (`live_reconciliation.py`, `live_position_monitor.py`) | registry and flag, in memory | register, compare with the broker | a disagreement blocks new orders |
| Live protection (`live_position_protection*.py`) | per cycle: the positions read | worker cycle, run by hand, reconcile | stops only tighten; the engine keeps running |
| Emergency stop (`emergency_stop.py`) | a flag and a heartbeat per instance | activate, reset, check | activation stops new orders |
| Broker accounts (`broker_accounts.py`, `brokers.py`, `live_authorization.py`, `mt5_broker_adapter.py`) | account rows: selected, verified, authorized; one terminal session and one adapter service for all | create, select, connect, disconnect, update, authorize, revoke, delete | at most one selected account; a selection never arms; no account stays "connecting" |
| Demo MT5 execution (`demo_mt5_execution.py`, `execution_state.py`, `demo_execution_worker.py`, `unified_execution_api.py`) | `execution_records`, unique by signal id | reserve, check, send, verify, record | one signal is sent at most once, crashes included; a record tells what was sent |
| Demo canonical state (`demo_canonical_sync.py`, `canonical_state.py`) | canonical positions and account snapshots | mirror the broker's positions | what a cycle writes is a real position of the account it has checked; each of them is in it in the end |
| In-memory demo engine (`demo_trading.py`, `demo_api.py`, `journal.py`) | a dictionary of trades, a journal row each | open, close, cancel, reset | memory and journal agree after every request |
| Market analysis and AI decision (`technical_indicators.py`, `market_pressure.py`, `trading_pipeline_service.py`, `ai_trading_decision.py`) | none | indicators, trend, pressure, score, confluence, proposal | a market turned upside down is judged the other way round |
| Step 14 risk engine (`risk_engine.py`, `step14_pipeline.py`, `execution_gateway.py`) | none | size, validate, pre-trade check | a position never risks more than its budget |
| Paper account and risk (`persistent_paper_account.py`, `persistent_paper_risk.py`) | derived from the position rows | balance, equity, daily loss, exposure | equals the books of the rows |
| Backtests (`backtest_engine.py`, `run_weekly_growth_backtest.py`, `..._v3_research.py`, `..._v4_research.py`, `v5_strategy_engine.py`, `v5_execution_engine.py`) | one run: balance, position, week, equity curve | candle by candle: exit, manage, enter, score | the books add up; nothing is decided from the future; no trade is better than the market was |
| Research (`v5_optimizer.py`, `v5_walk_forward.py`, `v5_robustness_analyzer.py`, `v5_results_validator.py`, the main programs of V3 and V4) | windows, candidates, reports | search, select, test once, judge | the best is selected; the two judges agree; every window is accounted for |
| Monthly audit (`monthly_trade_audit.py`) | none | recompute the profit of closed positions, report | agrees with what was booked |
| Advisory layer, web sockets, dashboard, mobile app | none of their own | report | read only |
| User accounts | users, tokens | register, log in | |
| MT5 service and bridge (`mt5_service.py`, `mt5_bridge_client.py`, `src/mt5_bridge`) | the connection | forward calls | an answer belongs to its call |
| Expert advisor (`src/mql5`) | another program | | |
| Older managers (`trade_management.py`, `risk_management.py`), `canonical_paper_*.py` | superseded, or without a caller | | |

### 1.2 Interactions

- **Shared rows.** The market loop, the Stage 17.5 worker, entry and the management
  endpoint write the same `positions` rows, each through a SQLAlchemy session of
  its own. The first three are coroutines of one event loop, so they interleave
  only at awaits; the endpoint is a plain `def`, which FastAPI runs in a thread,
  so it interleaves anywhere between two commits. A session keeps the attributes
  it has loaded until its own next commit or rollback, and a commit writes only
  the columns that changed in that session.
- **Shared module state.** Registry, reconciliation flag and arm are module
  variables of the process, changed by the gateway, the protection worker and
  endpoints. Every call into MetaTrader is `asyncio.to_thread` and awaited, and no
  lock is held across it.
- **The broker.** Positions and requests on their way to it survive the process;
  registry, arm and flags do not.
- **One terminal.** All broker accounts share one MetaTrader session and one
  adapter whose service every connect replaces; the demo engine, the canonical
  synchronization and the live gateway use whatever account is logged in.
- **Candles to positions.** Both entry paths run the same pipeline (analysis,
  decision, size, permission); the worker gives it the risk state of the position
  rows, the HTTP route that of the in-memory demo engine.
- **Jobs.** The research workflow runs optimizer, walk-forward, analyzer and
  validator one after the other; each reads the files of those before.
- **Two of a kind.** There are two `EmergencyStopManager`s (`main.py:260` and
  `live_execution_gateway.py:236`), and two counts of open positions (persistent
  rows, in-memory demo engine).

### 1.3 What is hard

Nearly every handler reads, awaits, and then acts on what it read; most of them
may be run twice at a time; the comparison of two sources (rows and sessions,
registry and broker) is made from readings of different age; a process can die
between "sent" and "recorded". `PROJECT.json` lists these hazards one by one at
the line where they bite, with the property that would catch each going wrong,
or the reason why none does.

## 2. The models

| Group | Modules (each EXTENDS the one before, unless it says otherwise) |
|---|---|
| paper positions | `TradeDecisions`, `PaperTrades`, `PaperPositions`, `MonthlyAudit`, `PaperRequirements`; abstract: `TradeLifecycle`; proofs: `PaperPositions_proofs` |
| live orders | `BrokerBook`, `LiveExecution`, `LiveRequirements`; proofs: `LiveExecution_proofs` |
| demo orders | `DemoExecution`, `DemoRequirements`; abstract: `SignalLedger`; proofs: `DemoExecution_proofs` |
| broker accounts | `BrokerAccounts`; proofs: `BrokerAccounts_proofs` |
| candles to positions | `MarketAnalysis`, `TradingDecision`; `DemoTrading`; `PaperPipeline` (extends both, instantiates `RiskRules`); proofs: `PaperPipeline_proofs` |
| backtests | `CandleSeries`, `Simulation`; on it `WeeklyGrowth` (V1, V3 and V4); `V5Engine`; `ProductionBacktest` (instantiates `RiskRules`); `V5Signals`; `Backtests` (instantiates all), `BacktestRequirements`; proofs: `Backtests_proofs` |
| research | `ResearchMetrics`; on it `PeriodSearch`, `WalkForward` (with the optimizer), `ResearchVerdicts`; `Research` (composes all); proofs: `Research_proofs` |

`FoldTheorems` holds what the proofs about pipeline, backtests and research know about
sums, folds and recursion along a sequence.
Each group has an `MC` module with the constants of its runs. The small groups
state their properties at the end of the module that composes them, the others
in a module `...Requirements`. Mutants of a definition stand before it and are
marked as such; no specification uses them.

### 2.1 Paper side

**`TradeDecisions`** holds both decision layers as pure operators.
`AdvancedEvaluate` is `AdvancedTradeManager.evaluate` in the order of the code:
validation, profit, partial close, break-even, trailing. `AutomaticEvaluate` is
`AutomaticTradeManager` behind its adapter. Prices are integers, and R multiples
are compared by cross multiplication, which is exact because the code has checked
that the risk is positive before it divides. Exceptions are the decision `error`.
The model keeps what is odd about the code: R is measured to the *current* stop in
one layer and to the initial stop in the other, and a target is extended on a
bullish market whatever the direction of the trade.

**`PaperTrades`** says what a trade is: terms, what the pipeline may propose, profit.

**`PaperPositions`** is the table and everything that reads and writes it.

| TLA+ | Code |
|---|---|
| `row`, `terms`, `journal` | table `positions` (its mutable columns, and those fixed at creation), table `trades` |
| `sess["market"]`, `sess["api"]` | the session of the market loop's cycle and of the endpoint's thread: price, positions still to visit, the attributes loaded, whether a commit has expired them |
| `auto` | the Stage 17.5 worker: positions as read *before* the awaited analysis |
| `entry` | the execution between its two commits |
| `Merge`, `Commit` | SQLAlchemy's UPDATE of the changed columns |
| `Execute`, `WorkerTrade`, `EndpointTrade`, `CreatePosition`, `CreateFails` | the journal commit (by the worker, with the risk state of the rows, or by the HTTP route, with that of the demo engine) and the position commit, which may fail |
| `MarketQuote`, `LifecycleStep`, `LifecycleDone` | `evaluate_price`: positions oldest first, close or mark |
| `ManagePrice`, `ManageAct`, `ManageDone` | the manager: `update_price` and its commit, then the action with a second commit |
| `AutoRead`, `AutoAnalysis`, `AutoAnalysisFails`, `AutoStep`, `AutoDone` | `evaluate_open_positions` and its persistence |
| `Crash` | the process dies: sessions vanish, tables stay |

`LoopFree` is the rule of the event loop: a coroutine starts or resumes only when
no other one is between two awaits. The api thread is not bound by it.

`WorkersSpec` has the coroutines only, `Spec` adds the endpoint's thread. They are
kept apart because the code is right about more things without the endpoint.

**`TradeLifecycle`** is the abstract specification: a trade is opened once,
reduced at most once, closed once, and pays the sum over its exits. It knows
neither sessions nor workers. `PaperPositions` implements it (under `WorkersSpec`)
with `TradeOf(p)`: the status, the open quantity, and the sum of what was booked
by the partial close and the final close.

**`MonthlyAudit`** is the monthly report over the closed rows: the accounting that
recomputes every profit from prices and quantities (`Correction`, `Warned`), and the
report with its groups as functions of the results.

**`PaperRequirements`** states the properties, apart from the state machine.

### 2.2 Live side

**`BrokerBook`** is stateless: positions as the broker reports them, the registry
as a sequence of records, `ReconcileSafe` and `MonitorSafe` (the two comparisons,
which differ: reconciliation checks every record, the monitor looks records up by
ticket so that the later of two remains), `Candidates` and `ProtectionValid` of
`_verify_position`, and `NewStops`, the stop the protection engine would set.

**`LiveExecution`** is when they are evaluated, and on how old a reading.

| TLA+ | Code |
|---|---|
| `pos`, `wire` | external: the broker's positions and the requests on their way to it |
| `registry`, `reconciled`, `armed` | `_live_registry`, `_reconciliation_safe`, `_armed`: memory of the process |
| `authorized` | the account row in the database |
| `beating`, `halted` | the heartbeat of the gateway's own stop manager; the emergency stop of the application |
| `call[o].step` | where the execution of request `o` awaits |
| `task[a]` | the worker's cycle, an engine run by hand, the reconciliation endpoint |
| `Submit` ... `FinalMonitor` | the gates of `execute`, one action per await, in the code's order |
| `OrderSent`, `Verify`, `PostMonitor`, `PostReconcile` | `order_send` returns, verification and registration, the two checks afterwards |
| `StartTask` ... `TaskFails` | the protection worker and the engine |
| `TakeReading`, `TakeTaskReading` | a thread's `positions_get`: *asked for*, *taken* and *used* are three separate steps |
| `Fill`, `Refuse`, `Close`, `MoveStop` | the broker, at any time, also for a process that is dead |
| `Crash` | registry, flags, arm and coroutines vanish |

What a reading can be compared with matters: reconciliation asks the broker first
and reads the registry when the answer is there, the monitor copies the registry
first (`book`). Both are modelled as they are.

The awaits between the heartbeat and the reconciliation gate (account, terminal,
specification, tick) change nothing here, so `Quote` stands for all four. One
number, `stop`, stands for stop-loss and take-profit, because they are set
together and nobody changes the take-profit; 0 means "without valid protection".

**`LiveRequirements`** states the properties, among them the claim of the source that
the run `live_halt` refutes.

### 2.3 Demo orders

**`DemoExecution`** is the demo engine with its two callers, the worker and
`POST /api/execution/evaluate`.

| TLA+ | Code |
|---|---|
| `account`, `pos`, `orders` | external: the account the terminal is logged in to, the broker's positions, the calls of `order_send` |
| `record` | table `execution_records` |
| `run[c]` | where `evaluate_and_execute` is: committed its record (`reserved`), holds the answer of `order_send` (`answered`), waits for verification (`verify`) |
| `Reserve`, `BlockDuplicate` | `_create_pending_execution` and its unique signal id |
| `CheckFails`, `Send`, `RecordFailure`, `RecordSent` | `order_check`, `order_send`, the commits of the outcome, each of which may fail |
| `Verified`, `LookAgain`, `Unverified` | `_verify_position`: by ticket, by comment, by side, a bounded number of times |
| `sync`, `mirror`, `SyncCheck`, `SyncBlocked`, `SyncRead` | `synchronize_demo_positions`: the check of the account and the listing of its positions, two calls with a gap between them (`sync.switched` notes a switch in it) |
| `SyncCreate`, `SyncMarket`, `SyncManage`, `SyncAccount` | its writes, one action per commit |
| `Crash`, `SwitchAccount`, `SyncFails` | mishaps |

The calls into MetaTrader are synchronous here, so a run holds the event loop from
its reservation until it waits for verification (`Holding`, `LoopFree`); the
synchronization runs in a thread. **`SignalLedger`** is what an idempotent executor
promises: claim, order once, or give up for good.

### 2.4 Broker accounts

**`BrokerAccounts`** has one action from each await, or commit, of a request to the
next. `Flush` is the mapper's UPDATE: only columns that differ from what was *loaded*
are written, so a column another request changed meanwhile stays, even where this
one assigned it. `Select` is the one operation that writes rows behind the back of
the sessions. `terminal` and `service` are the shared terminal session and the
shared adapter's service, which `ConnectShutdown` replaces and `ConnectAccount` uses,
whosever it is by then. `AdapterConnect` and `AdapterDisconnect` are the adapter's own two
endpoints, which log in or out beside all requests and know no row.

### 2.5 Candles to positions

**`MarketAnalysis`** computes indicators, trend, pressure and context of a window of
candles in exact fixed-point arithmetic, **`TradingDecision`** comes to BUY, SELL or
WAIT with a proposal, **`RiskRules`** sizes and permits it, **`DemoTrading`** is the
in-memory engine and its journal (its requests are two steps each, because its
handlers run in threads without a lock). **`PaperPipeline`** composes them: the market
prints a candle, worker or endpoint come to a position, positions are marked, half
closed and closed, days pass, and the account and its risk state are computed from the
rows as `persistent_paper_account.py` and `persistent_paper_risk.py` do.

### 2.6 Backtests

**`CandleSeries`** is what the scripts compute with pandas, **`Simulation`** the market and
the books that all engines share. `phase` is the place in an engine's loop body, so that
the order of exit, entry, management and scoring is the code's; each engine module has
the actions of its loop. `WeeklyGrowth` has a section for each weekly strategy: V3 is V1 with four kinds of profit
protection, V4 ends where the code does, with the exception its simulator raises at the
first pending signal; `V5Engine` enters at the close and pauses for the week;
`ProductionBacktest` fills at the next open, gaps included, with sizes by `RiskRules`.
`V5Signals` are the strategy families of `v5_strategy_engine.py`, which the workflow runs as
a script of its own. **`Backtests`** chooses engine and variant and runs it.

### 2.7 Research

A backtest is here a result out of a small set. **`PeriodSearch`** is V3 (one worker) and V4
(a pool whose results arrive in any order, and where an exception in one ends the search)
over development, selection and holdout; **`WalkForward`** the windows of V5 with their train,
validate, lock and test, each of which may fail, the test also after its journal has been
written, and before them the optimizer's grid on the whole file;
**`ResearchVerdicts`**
the classification of the analyzer and the verdict of the validator. **`Research`** runs
one study from beginning to end.

## 3. The runs

| Run | Instance | Checks | Distinct states |
|---|---|---|---|
| `paper_one` | 1 position (BUY or SELL), 4 prices, workers, 1 death, fair | `StopsHonoured`, `ClosedIsFinal`, `MarketLoopNeverWidens`, `NoPositionOutlivesItsStop` | 45,042 |
| `paper_two` | 2 positions, 3 prices, workers | `AuditFindsNothing`, `AbortOnlyAtEntry`, `ImplementsTradeLifecycle` | 234,385 |
| `paper_endpoint` | 1 position, 3 prices, workers and the endpoint's thread | `TypeOK`, `OpenQuantityExact`, `ReductionBooked`, `TargetsNeverRecede` | 1,173,745 |
| `live_orders` | 2 orders, faults, 1 death | `VerifiedIsOnRecord`, `RegisteredIsProtected`, `NoSendPastOrphan` | 1,114,440 |
| `live_engine` | 1 order, worker, faults, 1 death, fair | `StopNeverWidened`, `EveryCallEnds` | 121,552 |
| `demo_signals` | 2 signals of one side, worker, endpoint and synchronization, 1 mishap, fair | `RecordsTellOrders`, `MirrorIsReal`, `ImplementsSignalLedger`, `EveryRunEnds`, `MirrorCatchesUp` | 602,847 |
| `accounts_requests` | 2 accounts, 2 overlapping requests, any number after each other, the adapter's endpoints, fair | `OneSelected`, `SelectedUnauthorized`, `ConnectingEnds` | 206,419 |
| `pipeline_entries` | windows of 5 candles, 2 positions, 2 days, 1 demo trade | `BalanceTellsBooked`, `OpenTradesAreJournaled`, `WorkerRiskIsBounded`, `AssessmentIsSymmetric` | 65,306 |
| `backtest_engines` | 5 engines, every path of 4 moves per candle after a warm-up | `BalanceIsWhatWasTraded`, `WeeksAddUp`, `DrawdownIsCovered`, `WeeklyLimitsHold`, `TradesAreAttainable`, `SignalsAreSymmetric`, `StopsNeverLoosen` | 281,731 |
| `research_studies` | V3, V4 and V5 studies over 3 configurations and 6 results, fair | `SelectedIsBest`, `VerdictIsConservative`, `EveryWindowIsReported` | 287,568 |
| `live_halt`, `backtest_lookahead` | smallest that shows it | one claim of the source each | violated, see section 6 |

Every property of a passing run has a mutant in `PROJECT.json`: a plausible bug in
one definition (a commit that writes whole rows, a monitor that looks only at its
own records, a failed save that leaves the trade in memory, a connect that gives up
without a word, ...) under which the run fails.

### 3.1 What they show

- **The books** (`OpenQuantityExact`, `ReductionBooked`, `ClosedIsFinal`,
  `AuditFindsNothing`). Profit is booked in two places, at the partial close and at
  the final close, from the quantity the row shows at that time. Together they pay
  every unit once, as long as only the workers run; the monthly audit, which
  recomputes the sum from prices, then has nothing to correct. With the endpoint's
  thread an *open* position is still reduced at most once and exactly, although
  quantity, mark and profit of a reduction come from a session that may be stale; a
  *closed* one is not safe (section 6).
- **Protection** (`StopsHonoured`, `MarketLoopNeverWidens`, `TargetsNeverRecede`).
  Lifecycle before manager, with one price, is what makes the manager's new stop
  consistent with the quote. Targets only move away because exactly one worker
  writes them and commits write changed columns only.
- **Aborted cycles** (`AbortOnlyAtEntry`, `NoPositionOutlivesItsStop`). With a
  break-even offset of 0 the risk distance becomes zero, the manager raises, and the
  younger positions of that cycle are not managed. The same happens to a BUY that is
  quoted no further from zero than the trailing distance, whose trailing stop would not
  be positive; this case came out of the proof, the instances' prices are far above it.
  The first property says that these are the only causes of an aborted cycle, the second that such cycles, and
  restarts, never keep the lifecycle from closing a position whose stop the
  quotes keep hitting.
- **Unknown positions** (`NoSendPastOrphan`, `VerifiedIsOnRecord`,
  `RegisteredIsProtected`). The code cannot close the window between its last look
  and `order_send`, but nothing older than that look slips through: a position
  left by a dead process, a lost answer, an unverified fill or a missing stop blocks
  every later order. Verification may take *another* order's position (it matches
  by side and closest volume), yet what is finally reported as verified is on
  record.
- **One engine** (`StopNeverWidened`, `EveryCallEnds`). With a single engine at work
  a stop only tightens, a message left over by a dead process included; every
  submitted order is answered.
- **Idempotent signals** (`ImplementsSignalLedger`, `RecordsTellOrders`). The unique
  row that is committed before `order_send` makes the demo executor an at-most-once
  ledger: a crash, a failed commit or a second caller can lose an order, never
  repeat it. What can no longer be told after a crash is the fate of a `pending`
  record; nothing ever uses that signal again.
- **The mirror** (`MirrorIsReal`, `MirrorCatchesUp`). Rows are filled one commit at a
  time from one reading; the next synchronization repairs what a death between two
  commits left out. What is written stands for a position at a price it had, of the
  demo account, *unless the terminal was switched between the check and the listing*:
  the code has that gap, and there the table does take in positions of the other
  account (section 6). Without the check it would in any cycle, which is the mutant.
- **Selection** (`OneSelected`, `SelectedUnauthorized`, `ConnectingEnds`). No
  overlap of requests leaves two accounts selected, revives an authorization by a
  selection, or leaves an account "connecting" when the requests are over, although
  all share one terminal and one service that each connect shuts down and replaces under
  the others. The reasons are that `select` is one statement, that the mapper writes
  changed columns only, and that every way a connect can fail commits `error`. What
  `verified` says of the *present* login is another matter (section 6).
- **Money at risk** (`WorkerRiskIsBounded`, `BalanceTellsBooked`). Sizes are rounded
  down to lot steps, and exposure and equity come from the rows, so no entry of the
  worker can cost more than its budget of what is really there. The same is *not*
  claimed of the HTTP route, which asks the demo engine.
- **Symmetry** (`AssessmentIsSymmetric`, `SignalsAreSymmetric`). Every condition is
  written out once for BUY and once for SELL. Reflecting every reachable window about
  a price must give the opposite assessment; a wrong sign or bound in any of these
  pairs would show. Averages are rounded as the code's floats are, by size and not by
  sign, so that rounding is no excuse, and the property is also proved (section 5).
- **Backtests.** Balance, weeks and drawdown are three sets of books, and they agree;
  limits bind also for trades that were open when the week began; in the production
  engine no trade is better than the market was (`TradesAreAttainable`): it closes at a
  price of its candle, and with its partial exit it earns no more than all of it would
  have at the best price of one candle. The partial exit alone is *not* always at a price
  of its candle (section 6).
- **Research** (`SelectedIsBest`, `VerdictIsConservative`, `EveryWindowIsReported`). What
  V3 and a window of V5 select is the best of what they compared; of two windows or
  more the validator is never more hopeful than the analyzer; a window that fails
  in training, validation, test or while its files are written takes no other with it.
  Nothing is claimed of the words "unseen test" (section 6), nor of V4, whose search ends
  with the first signal.

### 3.2 Bounds

| Bound | Value | Why it is enough |
|---|---|---|
| unit of price | 0.25 | the default distances 5.0 / 1.0 / 5.0 become 20 / 4 / 20. `LockedStop` rounds down, which never shows: at a loss the distance is a multiple of 4 here, and past entry the candidate lies behind the stop it was computed from |
| unit of quantity | 0.005 lot, trades of 2 | the partial close of 50% leaves one unit, so "exactly once" and "not everything" both bite |
| `Buy`, `Sell` | R = 20, target at 3R | 1R, 2R and the stop lie among or between the prices |
| `SpreadPrices` | through the stop of either side, short of 1R and at 2R of either side | one price per case the decisions tell apart, both ways |
| `FewPrices` | stop, short of 1R, 2R | enough to reduce, to move a stop and to be stopped out, where two positions or a thread make the state space larger |
| `MaxReach` | 60 | a bullish analysis is left out for targets already further than 3R from entry, or they would move for ever |
| `MaxCrashes`, `MaxMishaps` | 1 (0 where a death adds no case) | a death only removes sessions; the second one meets nothing the first did not leave. In the demo run the one mishap is a crash, a failed synchronization or a switched account; commits may fail any time |
| two orders, same side, volumes 1 and 2 | | the smallest in which verification can mistake one position for the other and a partial fill can make the volumes equal |
| `UpBids`, `DownBids` | against the position, 1R, further | break-even alone, trailing, and a bid that comes back |
| `Spread` 1, `StopsLevel` 2 | | bid and ask differ, and a candidate can be too close for the broker |
| one process, symbol, magic, hedging account | | what the gateway selects by; netting accounts are outside |
| two demo signals of one side, `Attempts` 2 | | verification by side can take the other's position, and can succeed late |
| `Marks` | two prices for one signal, one for the other | a stale mirror shows on one position; the other is there to be confused with |
| `TwoOwners` | one request does everything with A; the other connects A, selects B, or disconnects B | every operation on a row meets a connect of the same row, a selection of the other one, and a disconnect that ends its session; the adapter's endpoints add every other login and logout |
| indicator periods of pipeline and backtests | 2 to 7 | the shortest that keep the order fast < slow and give every indicator a value; formulas are the code's |
| `Unit` 360, `Scale`, `RsiScale` | | denominators under which the averages of these periods are exact or rounded as named at the definition; the theorems hold for every one |
| pipeline: 4 candles, 4 moves, `Hair` | | trend both ways, a spike of volume; `Hair` is the float error that decides a reward ratio at its minimum |
| backtests: zigzag of 5, then up to `Bars` 11 (`ProductionBars` 9), week of 5 candles | | entry, management and exit in one week, and a position carried over a week's end; the moves sweep a swing, run to the target, and gap through a stop |
| research: 3 configurations, 6 results, `TopN` 2, windows 1..4 or 1, data to month 27 or 33 | | a result per gate (good, fair, losing, too few trades, never losing, none); data that end before and after the last window |

Distinct client order ids (`OwnIds`) are an assumption of the live runs, as the
default uuid of the code provides them.

Deadlock is checked for the paper, live and demo runs; those systems never stop. The
others have `CHECK_DEADLOCK FALSE` because they do: a backtest and a study end, the
market of the pipeline prints `MaxCandles` candles, and a request to the accounts has
nothing to work on once every account is deleted.

## 4. Fairness

Paper, `LoopFairSpec`: a cycle in progress is finished (weak fairness of the market
loop's steps, of `AutoStep`/`AutoDone` and of the commit of an execution), because a
coroutine that does not await is never suspended. Quotes get strong fairness: the
loop sleeps and asks again, and the event loop resumes it although other coroutines
keep running in between. Nothing is assumed about which price arrives, about the
analysis, about entries or about the database commit succeeding.

Live, `FairSpec`: each call and each task is resumed, each thread takes its reading
(or fails), the broker answers each request it was sent, and the worker's loop
starts its next cycle. Nothing is assumed of the owner, the endpoints or the market;
a failing reading is an answer, too.

Demo, `FairSpec`: an evaluation that has begun goes on (`asyncio.sleep` ends, a commit
returns or fails), the worker begins one cycle after the other, and each cycle
synchronizes. The endpoint need never be called, and nothing is assumed of the
broker or the account.

Accounts, `FairSpec`: a request that has loaded its row goes on; the calls into the
terminal return, with a result or after their time limit. Nobody need send another request,
and nothing is assumed of the adapter's endpoints. A commit that fails and the death of the
process are outside: either leaves a row "connecting" until its next connect or disconnect.

Research, `FairSpec`: the script runs on to its end.

## 5. The proofs

All theorems hold for every value of the constants that the named assumptions
allow: any number of positions, prices, candles, trades and configurations, any
number of orders, tasks, signals, accounts, requests, faults and deaths.

| Modules | Assumptions |
|---|---|
| paper positions | `ConfigAssumption` (what `validate()` of both configurations demands), `TradeAssumption` (what `create` and the risk engine demand of a trade), `CountAssumption` |
| live orders | `EngineAssumption`, `LiveAssumption` (what the request model and the gateway demand); where stated, `DistinctIds` (a request's id is its own) and `OneEngine` (no run by hand beside the worker) |
| demo orders, accounts | `DemoAssumption`, `AccountsAssumption`: what kind of value each constant is |
| pipeline | `PeriodAssumption` (periods are positive and the window holds the longest of them, a quarter is not rounded to nothing), `ConfigAssumption` (the decision's own validation), `RiskAssumption` (the risk engine's), `MarketAssumption` (a candle's high is not below its low), `BoundAssumption` |
| backtests | `PeriodAssumption` (periods, spans and units are positive), `SimulationAssumption` (a candle's high and low enclose its open and close), `BacktestAssumption` (the engines' validation of their configurations; `ValidSpans`: what pandas accepts of the scripts' own constants) |
| research | `ResearchAssumption`: a grid that is not empty and repeats nothing (a product of lists without repetitions), results a backtest can have, scores that are integers |

| Theorem | States | Module |
|---|---|---|
| `TypeCorrect` | `Spec => []TypeOK`, the endpoint's thread included | `PaperPositions_proofs` |
| `QuantityExact`, `ReductionsBooked` | `OpenQuantityExact` and `ReductionBooked`, the thread included | " |
| `TargetsOnlyAdvance` | `TargetsNeverRecede`, the thread included | " |
| `BooksBalance` | under `WorkersSpec`, a closed position paid every unit once | " |
| `AuditAgreesWithBooks` | the audit's arithmetic and the booked profit agree, under `WorkersSpec` | " |
| `CloseIsFinal` | no worker changes the result of a closed position | " |
| `ImplementsLifecycle` | `WorkersSpec` implements `TradeLifecycle` | " |
| `CyclesHonourStops`, `CyclesOnlyTighten`, `CyclesAbortOnlyAtEntry` | `StopsHonoured`, `MarketLoopNeverWidens`, `AbortOnlyAtEntry` under `WorkersSpec` | " |
| `LiveTypeCorrect` | `Spec => []TypeOK` | `LiveExecution_proofs` |
| `RegisteredProtected` | no registered position is without a stop | " |
| `VerifiedOnRecord` | under `DistinctIds`: verified and open implies on record | " |
| `OrphansBlock` | under `DistinctIds`: no order leaves past an orphan it could have seen | " |
| `StopsOnlyTighten` | under `OneEngine`: `StopNeverWidened` | " |
| `DemoTypeCorrect` | `Spec => []TypeOK` | `DemoExecution_proofs` |
| `RecordsAreTrue` | a record tells whether an order was sent | " |
| `CanonicalRowsAreReal` | `MirrorIsReal`: what is written is real, and of the demo account unless the terminal was switched behind the check | " |
| `ExecutorIsLedger` | `Spec` implements `SignalLedger` | " |
| `AccountsTypeCorrect` | `Spec => []TypeOK` | `BrokerAccounts_proofs` |
| `SelectionIsUnique` | at most one account is selected | " |
| `SelectionDisarms` | who becomes selected is not authorized | " |
| `BalanceIsExact` | the paper balance is what was ever booked | `PaperPipeline_proofs` |
| `OpenTradesHaveRows` | a demo trade that is open has its open row | " |
| `WorkerRiskBounded` | what the worker opens stays within its budgets | " |
| `AssessmentTurnsRound` | `AssessmentIsSymmetric`: indicators, trend, signal and pressure of a market upside down are the opposite ones | " |
| `NoStopLoosens`, `BalanceIsBooked`, `WeeklyReportAddsUp` | `StopsNeverLoosen`, `BalanceIsWhatWasTraded`, `WeeksAddUp`, of all engines | `Backtests_proofs` |
| `WeeksAreLimited` | `WeeklyLimitsHold`, of V1, V3 and V5 | " |
| `SignalsTurnRound` | `SignalsAreSymmetric`, of V1, V4 and the six families of V5 | " |
| `NoTradeIsFlattered`, `WorstFallIsReported` | `TradesAreAttainable`, `DrawdownIsCovered`, of the production engine | " |
| `SelectionHolds`, `VerdictHolds` | `SelectedIsBest`; `VerdictIsConservative`, for two windows or more | `Research_proofs` |

**Stale sessions.** With the endpoint's thread nothing a session holds need still be
in the table: the market loop reduces a position between the thread's read and its
commit, and the other way round. `SharedInv` keeps what survives. A row that is open is
`Consistent` (its open and its reduced quantity are the trade's, and the reduction is
booked at its own price), and so was the row in the session when it was read
(`Acting`). A commit writes only the columns it changed, and mark, quantity and profit of
a reduction are changed together or not at all, so that whatever it overwrites,
the row is consistent again. Targets have one writer, which never runs against itself
(`TargetsCurrent`); `Known` and `Unpersisted` say that no session can revive
a position that does not exist yet.

**The books of the workers.** That a *closed* row is right needs more: a reduction is
computed from what a session holds, so one must know that this is what the table
holds. `WorkersInv` adds

- `Alone`: one coroutine at a time is between two awaits and the thread is idle.
  This is exactly what the endpoint breaks;
- `Current`: what the market session knows of a position it still has to visit is
  what the table holds, either because it has expired or because it was just loaded;
- `Numbered`: ids not issued, and the one being persisted, have no row;
- `Books`: the accounting of one row in each status, the prices of its exits included,
  from which the audit's sum follows.

The Stage 17.5 worker is *not* current, and need not be: `AutoEffect` shows that its
commit can change stop and target only. `StepHasEffect` reduces every step to one of
four effects on one row (kept, opened, reduced, closed); the invariant, finality and
the refinement each follow from the effects alone, without looking at the actions
again.

**The protection of a cycle.** `ProtectionInv` adds to it `Sheltered` (while a cycle runs,
a position the lifecycle half has passed is out of reach of the quoted price, whatever
stop the manager has given it since), `Decided` (a stop the manager has decided on lies
between the row's stop and the price, a partial close leaves something) and `Levels` (stops and
targets of open positions are positive, targets ahead of entry). The last one is what
rules out every reason to abort a cycle but the two of `AbortOnlyAtEntry`.

**The live argument.** `StepHasEffect` again maps every step of `Next` to an effect
on the broker, the registry and the calls. `BrokerInv` says that an order goes onto
the wire once and is executed once (`SentOnce`), that what a call has read was true
and stays true enough (`ReadingsTrue`: seen open means opened; seen with a stop means
still with a stop, as no stop message is 0), and from that `RegisteredIsProtected`.
`RegistryInv` relates a call's copy of the registry to the registry (`BooksBehind`):
a monitor that passes on an *older* book passes on a smaller one, so every
position it saw is on record now. With that, `OrphansBlock` follows from one step.
`VerifiedOnRecord` needs in addition that a call finds its id unused (`IdsFresh`),
which is where `DistinctIds` enters, and that its reading after the fill shows its own
position (`OwnPositionSeen`): the monitor passes only if that position is somebody's
ticket.

**One engine.** A stop only tightens because a stop message on the wire betters the stop
its position has at that time. `EngineInv` says why it stays so until the broker takes it.
`MessagesTighten`: the message is the only one for its position, and either its engine is
waiting for the answer, or it was left behind by a dead process, and then the position is
in no registry, book or task of the new one (`OutOfBooks`, `OutOfTasks`), and never will be,
because an order that could register it would have to pass an orphan it has seen.
`ServedAsRead`: what a cycle has read of the positions it still has to serve is still
so. A second engine breaks exactly this part (section 6).

**The demo argument.** That a signal is ordered once is not inductive in the table
alone, because between reservation and outcome the truth is in the coroutine.
`RunsTell` says what each place of a run means for record and orders, `OneHolds` that
one run at a time is between reservation and outcome (no await lies between them), and
`OrderedOnce` connects orders and positions. A second run on the same signal finds
the row, so it never reaches `reserved`; a crash erases the run and leaves the row.
`ReadingsReal` carries what the synchronization read to the moment it writes it:
a position's account never changes and its price is always a quoted one, so a stale
reading is still a real one. A cycle past its check has seen the demo account, so that
what it lists is of the demo account or the terminal was switched since. Each action then maps to a step of the ledger or to a
stutter.

**The accounts argument.** Every commit but a selection is *mild* (`Mild`, proved once
for any flushed row by `FlushIsRow` and `CommitIsMild`): it leaves `selected` alone,
because no other operation assigns that column. A selection clears all rows in one statement before it
sets its own, so the invariant is `OneSelected` with types and `Addressed` (a request
that runs has an account), although the select that runs later may have loaded its row
long before.

**The pipeline argument.** The balance is a sum over the rows and must equal a sum over
the days (`RealizedIsBooked`): every step changes one summand of each by the same amount.
That is seldom how the code does it, because the mark, the management actions and the
close each move a position's profit between two columns. `JournalInv` follows a request of
the demo engine through its two steps (`UpdatesAreOfClosed`: a row about to be updated
belongs to a trade that is closed already). `WorkerRiskBounded` needs no invariant but the
types, the type of Wilder's average of the true ranges among them.

**The backtest argument.** The engines share the variables and nothing else, so
`BacktestInv` is an invariant for each: `GrowthInv` for V1, V3 and V4, `V5Inv`, `ProdInv`.
The weekly report is a second set of books: `GrowthBooks` says week by week what it
should contain, and the sums over trades and over weeks change together. That no stop
loosens needs in the production engine that a target lies beyond entry *and* beyond the
stop (`ProdPosition`), wherever the stop has been moved: the profit protection locks in a
part of the way to the target, and would set a stop behind the present one if the target
were overtaken. `TradesAreAttainable` has two halves. A close lies in its candle because the
open decides before stop and target do: a level that is filled at its own price has the open
on one side and the candle's extreme on the other. Its profit is bounded by the better of
two prices (`PartsEarnLess`): the half taken at 1R was taken when a candle reached 1R, or
went beyond it (`Attained` says of each position that there is such a candle), and the rest
is left at a price of the last candle; the better of these two candles bounds both halves. `Covered` is the drawdown as a claim
about all pairs of trades rather than about the running peak.

The weekly limits look back: what an entry found, and what its week began with, are sums
over the trades closed by then (`BalanceAtEntry`, `BalanceAtWeek`). `Dated` is why they
never change afterwards: no trade is closed in the past, and none that is closed later was
opened before an entry already made. `GrowthWeek` and `V5Week` say that the record of the week, which is
all the code looks at, is that history. They differ where the code does: V5 counts entries,
V1 and V3 count exits, so that their limit on entries holds only because nothing is entered
while a position is held (`EntriesAreClosed`). That the target binds needs a week that began with money,
which holds because no position is opened, or held over the end of a week, without any.

**The symmetry argument.** It is the same in the pipeline and in the backtests, and follows
a window and its opposite through the code. The reflection of a window (`Reflected`,
`Mirrored`) becomes a relation, `Opposed`: at each candle the closes of the two add up to
twice the price of the mirror, and so do the high of one and the low of the other. It
holds between the parts of two opposed windows too. Then each indicator is shown to turn: a
price is taken from that sum (`EmaTurns`, `LevelsTurn`), a difference becomes its negative
(`MomentumTurns`, `MacdTurns`), gains become losses (`GainsTurn`, `RsiTurns`), true ranges
and volumes stay (`TrueRangesAgree`). Rounding is where this could fail. `Rounded` (to the
nearest, a tie to the even one) and `Quotient` (by size) are odd (`RoundedIsOdd`,
`QuotientIsOdd`), and a tie still goes to the same side when the mirror adds an even number
(`RoundedTurns`). An average is a recursive function along the window (`RecursionExists`);
that two of them turn is proved from the first candle where they would not
(`StepByStep`). With every indicator turned, a pair of conditions that is written out
twice is a matter of comparing the two (`ScoresTurn`, `LowerTurns`, `TrendTurns`,
`PressureTurns`, and a lemma for each family of V5). RSI is the odd one: without a loss the
scripts have none, so both markets are asked to have one; the service answers 50 or
100 then, and 50 or 0 for the opposite.

**The research argument.** A sorted list is modelled by places: the k-th element is the one
that k - 1 others come before. That every place is taken is a fact about total orders
(`PlacesAreTaken`: places are different, hence an injection of 1..n into itself, hence onto),
and the keys of a ranking with the place in the list to decide between equals are such an
order (`ScoreRanking`, `KeysOrder`). `SearchInv` for V3 and V4 says what has been
measured in each phase, and for V3 `InOrder`: its one worker appends the candidates in the order of the
grid, so that the first of equals in the list is the first in the grid. V4's pool has no such
order, and selects nothing. `WalkInv` for V5 follows the records of a window from its
training to its lock, through any step of it that fails. That the
validator is no less strict than the analyzer is nearly a comparison of their conditions
(`ValidatorAsksForMore`). The exception is its fallback, the factor of the trade journal where
the windows' factors add up to nothing: factors are not negative, so each of
them is 0; and the journal that is read may be any row's, or one a failed window left.

**Sums and folds.** The models count with `SumFunctionOnSet` and `FoldLeft`.
`FoldTheorems` proves what the arguments need of them (the type of a fold, a sum
unfolds, adds, changes with one summand, agrees on equal functions). Since induction
theorems take an operator, each is proved from a smallest subset, or a smallest
index, that would be an exception. So is what holds of a recursive function along a
sequence, from the first place that would be.

**Only model-checked.** Liveness under fairness (`NoPositionOutlivesItsStop`,
`EveryCallEnds`, `EveryRunEnds`, `MirrorCatchesUp`, `ConnectingEnds`, `EveryWindowIsReported`), which rests on
ENABLED, is beyond the prover. Every invariant and every action property of a passing run is
a theorem, under the assumptions named with it.

## 6. Findings

Each is a run in which TLC finds a statement of the repository violated.

| Run | The source says | The code does |
|---|---|---|
| `live_halt` | "preventing any new executions" (`src/README.md:60`) | the gateway asks a stop manager of its own (`live_execution_gateway.py:236`) that nothing activates |
| `backtest_lookahead` | "The next candle is used for entry. This prevents same-candle lookahead." (`run_weekly_growth_backtest.py:582`) | the entry at a candle's open takes stop, size and target from that candle's own average true range (L1377), which contains its high, low and close; V3 (`run_weekly_growth_v3_research.py:613-707`) and V4 (L1662) do the same |

Seen while modelling, without a run of their own.

Paper positions:

- the Stage 17.5 worker compares a new stop with the one read before the awaited
  analysis (`automatic_trade_management_service.py:582`), so it can loosen a stop the
  market loop moved meanwhile ("Never widens", `automatic_trade_manager.py:38`); it may
  also overwrite stop and target of a row that has been closed (its result is untouched,
  `ClosedIsFinal`);
- the endpoint's session tests a status it loaded earlier (`position_repository.py:834`)
  and can book a partial close on a closed row; the audit would then disagree;
- the HTTP route of paper trades counts the positions of the in-memory demo engine
  (`main.py:2638`), which the persistent positions never enter;
- with a break-even offset of 0 the next management of the position raises, and
  younger positions are not managed in that cycle (`AbortOnlyAtEntry`); so it does for a BUY
  quoted no further from zero than the trailing distance;
- the target of a SELL is extended on a strongly *bullish* market
  (`automatic_trade_manager.py:630`);
- if the second commit of an entry fails, the journal row stays open without a position;
- the daily realised profit (`persistent_paper_account.py:375-441`,
  `persistent_paper_risk.py:214-238`) counts an earlier day's partial close on the day of
  the final one, and forgets a partial close once another management action follows;
- the minimum reward ratio is compared without a tolerance
  (`ai_trading_decision.py:2113-2121`, `risk_engine.py:413`), the maximum with one (:2137);
  the technical part of the confluence is 0.4 times the score also for a SELL (:1183).

Live orders and accounts:

- a manual protection run beside the worker can loosen a stop: both compare with the
  stop they read and await three calls before `order_send`
  (`live_position_protection.py:904`);
- moving a stop leaves the registered one (`live_position_protection.py:949`), so the
  monitor reports a mismatch and every later cycle ends before the engine
  (`live_position_protection_worker.py:416`);
- a disarm or revocation during the last awaited monitor does not stop that order;
- `unregister_live_position` has no caller, so the record of a closed position blocks
  new live orders until a restart; a reused `client_order_id` overwrites a record;
- the registry is called persistent at the head of `live_reconciliation.py` (L6) and
  process-local at L306;
- an order that was executed but fails a check afterwards is answered with 403
  `LIVE_EXECUTION_BLOCKED`;
- the module-level `mt5_service` of gateway, monitor and protection is never initialized
  in the deployed program, which therefore refuses every live order;
- selecting the account that is selected already leaves *no* account selected: the UPDATE of
  all rows (`broker_accounts.py:529`) is not seen by the session (`synchronize_session=False`),
  for which `selected = 1` (:538) is then no change and is not written (`Select`, `Flush`);
  the answer is "selected" (:549) all the same;
- a revocation can be undone by an authorization that
  had loaded its row before; the gateway looks neither at the connection status nor at
  whether the terminal is logged in to the selected account;
- a connect compares the login it has read with its row (`broker_accounts.py:734` ff.) and
  commits later: another connect may have logged in to its own account in between, so an
  account is committed as connected and verified while the terminal is on another one; the
  adapter's endpoints (`mt5_broker_adapter.py:443`, :484) change the login without a word to
  any row;
- of two overlapping connects the failing one may leave status `error` beside `verified`,
  because the mapper does not write a column that equals what it loaded.

Demo orders:

- when the ticket is not shown, verification falls back to any position of the side
  (`demo_mt5_execution.py:934-964`), so a signal can be verified by another's position;
- the account is checked at :1025, and not again before the order is sent at :1362;
- the synchronization checks the account (`demo_canonical_sync.py:330-349`) and then lists
  the positions (:351); a terminal switched in between hands it the other account's, which
  are written under the demo login ("all currently open MT5 DEMO positions", :311);
- a signal's id includes prices of the candle that is still forming, so "the same
  signal" is a new one after the next tick;
- `_position_signal_id` (`demo_canonical_sync.py:247-270`) looks for comments that begin with
  `RAYMOND-`, but the engine writes `RAYMOND_D_`, so it answers None; canonical rows are never closed when
  the broker's position is gone;
- the in-memory engine has no lock between `can_open_trade` and the insertion
  (`demo_trading.py:224-303`); a close changes memory first, and when the journal fails the
  row stays open and the retry is refused (`demo_api.py:344-371`); reset and restart leave
  open rows.

Backtests and research:

- V1 and V3 never test the candle of entry against stop and target; all but the
  production engine fill a stop at its price when the market gaps through it; without a
  loss in its window there is no RSI and no signal;
- V4 stops with an exception at its first pending signal: a tuple (:1871) is read as a
  dictionary (:1580), and the main program raises it again (:2653), so that its search ends
  without a selection;
- V5 raises sizes below the minimum lot to the minimum; its weeks `'%Y-%W'` split at the
  new year;
- the production engine takes the partial exit at exactly 1R (`backtest_engine.py:1742-1759`,
  :1972-1989), also when the candle opens beyond it, a price that candle never had; it is
  always the worse one (`TradesAreAttainable`);
- `v5_optimizer.py` reads the metrics of `run_backtest` where they are not (:292-447, :796), so
  every score is that of zero trades;
- the validator's `VALIDATED_FOR_NEXT_RESEARCH_STAGE` cannot be reached (:431, :1345), and one
  window without a test trade makes the results invalid (:500-512);
- what V5 prints as "UNSEEN TEST" (`v5_walk_forward.py:1337`, :1638) is not: the optimizer,
  the job before it, runs every candidate on the whole file (`v5_optimizer.py:530`, :732-747),
  and the test period of WF4 is the one WF3 has measured;
- of a single window the analyzer says NOT_ROBUST, since its better classes ask for two
  (`v5_robustness_analyzer.py:566-607`), and the validator may say PROMISING
  (`v5_results_validator.py:1355-1361`); `VerdictIsConservative` therefore speaks of two or more;
- the journal the validator reads is the first that matches, also one a failed window left
  behind (`v5_results_validator.py:140-153`, :462-478);
- windows 3 and 4 of the walk-forward share a test period and are compounded as if
  independent; a configuration with under 20 trades scores −10000 and is still ranked; a
  failed window leaves exit code 0; the gates of V3 and V4 reject a candidate that
  never lost.

## 7. What is not modelled

- In the modelled components: the live monitor's own flags (only displayed), the dry run
  and status endpoints (change nothing), start and stop of the protection worker,
  thesis invalidation of Stage 17.5 (no decision the service passes raises it), the
  repository methods without a caller in the production process, explanations, reasons
  and scores that are only displayed, summary statistics and the text of reports.
- Prices and quantities are integers or fixed-point numbers; float rounding is modelled
  where a comparison turns on it (`Hair`), and nowhere else.
- The database is available, and commits are atomic; a failing commit is modelled where
  two commits belong together (entry, demo execution, synchronization, journal).
- `WorkerTrade` of `PaperPipeline` reads equity, risk state and price in one step; in the code
  the endpoint's thread may mark a position between these reads, so that the budgets of
  `WorkerRiskIsBounded` are those of one moment.
- The broker, the terminal and the market are external: what they may do is taken from how
  the code uses them.
- MT5 service and bridge: transport; an answer, an error or silence are inputs of the
  models above it.
- Advisory layer, web sockets, dashboard, authentication, mobile app, expert advisor,
  workflow files, data conversion, V2 and the exploratory scripts, and the older managers
  (`strategy.py`, `risk_management.py`, `trade_management.py`, `canonical_paper_*.py`), which
  no production module imports: for the reasons given in `PROJECT.json`.

## 8. Plan

Done, in this order: paper positions with `TradeLifecycle` and their proofs; live orders
and their proofs; demo orders with `SignalLedger` and their proofs; broker accounts and
their proofs; the pipeline from candles to positions with account and risk; the monthly
audit; the backtests; the research studies.

Left:

1. **Composition** of `BrokerAccounts` with the gates of `LiveExecution`: selection,
   connection and revocation while an order is under way.
2. **The MT5 bridge** as a lossy transport under the live gateway.
3. **The V2 script** on `Simulation`, beside the other weekly strategies.

The runs are kept to a dozen; new models take the place of the refutations that a
fix of the source makes obsolete, or share a run with the module they compose with.
