---------------------------- MODULE DemoExecution ----------------------------
(***************************************************************************)
(* Orders on an MT5 demo account: DemoMT5ExecutionEngine.                  *)
(* evaluate_and_execute called by the demo worker and by                   *)
(* POST /api/execution/evaluate, the execution records that make a signal  *)
(* idempotent, and the synchronization of the broker's positions into the  *)
(* canonical tables that ends every cycle of the worker.                   *)
(*                                                                         *)
(* The calls into MetaTrader are synchronous, so a run holds the event     *)
(* loop from its evaluation until it waits for verification; only the      *)
(* broker, the terminal and the synchronization thread go on meanwhile,    *)
(* and the process may die between any two commits.  A signal is at most   *)
(* one position, so it is also the position's ticket.                      *)
(***************************************************************************)
EXTENDS Integers, FiniteSets

CONSTANTS
  Signals,           \* signal ids the strategy may come to
  Side,              \* Side[s]: direction of signal s
  Entry,             \* Entry[s]: the price its position is opened at
  Marks,             \* Marks[s]: prices that position may be marked at
  MaxOpenPositions,  \* RiskConfig.max_open_positions
  Attempts,          \* verification attempts
  MaxMishaps         \* bound of the model: deaths, failed synchronizations, switches

ASSUME DemoAssumption ==
  /\ Side \in [Signals -> {"buy", "sell"}]
  /\ Marks \in [Signals -> SUBSET (Nat \ {0})]
  /\ DOMAIN Entry = Signals /\ \A s \in Signals : Entry[s] \in Marks[s]
  /\ MaxOpenPositions \in Nat \ {0}
  /\ Attempts \in Nat \ {0}
  /\ MaxMishaps \in Nat
  /\ "none" \notin Signals

VARIABLES
  account,   \* the account the terminal is logged in to: "demo" or "real"
  pos,       \* pos[s]: what the broker made of the order for s
  orders,    \* orders[s]: how often order_send was called for s
  record,    \* record[s]: the ExecutionRecord of s
  run,       \* run[c]: the evaluation c is making
  sync,      \* the synchronization of the worker
  mirror,    \* mirror[s]: the canonical row of ticket s
  mishaps

broker == <<account, pos, orders>>
tables == <<record, mirror>>
vars == <<account, pos, orders, record, run, sync, mirror, mishaps>>

Callers == {"worker", "endpoint"}

\* A run in one of these steps has the event loop.
Holding == {"reserved", "answered"}

Idle == [step |-> "idle", signal |-> "none", answer |-> "none",
         ticket |-> "none", tries |-> 0]

\* The position in hand is sync.row.  sync.switched is history, read by no
\* step: the terminal changed its account after this cycle had looked at it.
IdleSync == [step |-> "idle", todo |-> {}, row |-> "none", switched |-> FALSE,
             marks |-> [s \in Signals |-> 0]]

\* What positions_get returns: the positions of the account the terminal is
\* logged in to, once the terminal has heard of them.
Listed ==
  {s \in Signals : pos[s].state = "open" /\ pos[s].shown /\ pos[s].account = account}

LoopFree == \A c \in Callers : run[c].step \notin Holding

Init ==
  /\ account = "demo"
  /\ pos = [s \in Signals |-> [state |-> "none", shown |-> FALSE, mark |-> 0,
                               account |-> "demo"]]
  /\ orders = [s \in Signals |-> 0]
  /\ record = [s \in Signals |-> [status |-> "none", ticket |-> "none"]]
  /\ run = [c \in Callers |-> Idle]
  /\ sync = IdleSync
  /\ mirror = [s \in Signals |-> [status |-> "none", mark |-> 0]]
  /\ mishaps = 0

-----------------------------------------------------------------------------
(* The broker and the terminal (external)                                  *)

\* The terminal learns of a position some time after order_send answered.
Show(s) ==
  /\ pos[s].state = "open" /\ ~pos[s].shown
  /\ pos' = [pos EXCEPT ![s].shown = TRUE]
  /\ UNCHANGED <<account, orders, tables, run, sync, mishaps>>

Reprice(s, m) ==
  /\ pos[s].state = "open" /\ pos[s].mark # m
  /\ pos' = [pos EXCEPT ![s].mark = m]
  /\ UNCHANGED <<account, orders, tables, run, sync, mishaps>>

\* Stop, target, or a person.
BrokerCloses(s) ==
  /\ pos[s].state = "open"
  /\ pos' = [pos EXCEPT ![s].state = "closed", ![s].shown = FALSE, ![s].mark = 0]
  /\ UNCHANGED <<account, orders, tables, run, sync, mishaps>>

\* Somebody logs the terminal in to another account.
SwitchAccount ==
  /\ mishaps < MaxMishaps /\ mishaps' = mishaps + 1
  /\ account' = IF account = "demo" THEN "real" ELSE "demo"
  /\ sync' = [sync EXCEPT !.switched = @ \/ sync.step = "list"]
  /\ UNCHANGED <<pos, orders, tables, run>>

-----------------------------------------------------------------------------
(* evaluate_and_execute                                                    *)

\* A run returns or raises; the worker then synchronizes, whatever happened.
Finish(c) ==
  /\ run' = [run EXCEPT ![c] = Idle]
  /\ sync' = IF c = "worker" THEN [sync EXCEPT !.step = "read"] ELSE sync

MayStart(c) ==
  /\ LoopFree /\ run[c].step = "idle"
  /\ c = "worker" => sync.step = "idle"

\* No demo account, no candles, no proposal, a risk rejection, a failing
\* database: nothing is recorded.  It is the risk engine that counts the
\* positions the terminal lists.
EvaluateToNothing(c) ==
  /\ MayStart(c)
  /\ Finish(c)
  /\ UNCHANGED <<broker, tables, mishaps>>

RiskAllows == Cardinality(Listed) < MaxOpenPositions

\* Mutant of Reserve: a record that a crash left pending is taken up again.
ReserveAgain(c, s) ==
  /\ MayStart(c) /\ account = "demo" /\ RiskAllows
  /\ record[s].status \in {"none", "pending"}
  /\ record' = [record EXCEPT ![s].status = "pending"]
  /\ run' = [run EXCEPT ![c] = [Idle EXCEPT !.step = "reserved", !.signal = s]]
  /\ UNCHANGED <<broker, sync, mirror, mishaps>>

\* The record is committed before anything is sent; the unique signal id
\* makes any second evaluation of the same signal end here.
Reserve(c, s) ==
  /\ MayStart(c) /\ account = "demo" /\ RiskAllows
  /\ record[s].status = "none"
  /\ record' = [record EXCEPT ![s].status = "pending"]
  /\ run' = [run EXCEPT ![c] = [Idle EXCEPT !.step = "reserved", !.signal = s]]
  /\ UNCHANGED <<broker, sync, mirror, mishaps>>

\* duplicate_blocked.
BlockDuplicate(c, s) ==
  /\ MayStart(c) /\ account = "demo" /\ RiskAllows
  /\ record[s].status # "none"
  /\ Finish(c)
  /\ UNCHANGED <<broker, tables, mishaps>>

\* _update_execution_record: a column it is given no value for stays.
Updated(s, status, ticket) ==
  [record EXCEPT ![s] = [status |-> status,
                         ticket |-> IF ticket = "none" THEN @.ticket ELSE ticket]]

\* The update commits, or raises and leaves the record alone.
Save(s, status, ticket) ==
  record' = Updated(s, status, ticket) \/ UNCHANGED record

\* order_check refuses, or has no result (order_check_failed, not told apart).
CheckFails(c) ==
  /\ run[c].step = "reserved"
  /\ Save(run[c].signal, "order_check_rejected", "none")
  /\ Finish(c)
  /\ UNCHANGED <<broker, mirror, mishaps>>

\* order_send.  The broker executes the order, or not; without an answer
\* nobody knows which.  The answer may name the position.
Send(c) ==
  LET s == run[c].signal IN
  /\ run[c].step = "reserved"
  /\ orders' = [orders EXCEPT ![s] = @ + 1]
  /\ \/ \E answer \in {"done", "lost"}, ticket \in {"none", s} :
          /\ answer = "lost" => ticket = "none"
          /\ pos' = [pos EXCEPT ![s] = [state |-> "open", shown |-> FALSE,
                                        mark |-> Entry[s], account |-> account]]
          /\ run' = [run EXCEPT ![c].step = "answered", ![c].answer = answer,
                                ![c].ticket = ticket]
     \/ \E answer \in {"rejected", "lost"} :
          /\ run' = [run EXCEPT ![c].step = "answered", ![c].answer = answer]
          /\ UNCHANGED pos
  /\ UNCHANGED <<account, tables, sync, mishaps>>

\* Mutant of RecordFailure: a lost answer is taken for a refused check.
RecordFailureAsCheck(c) ==
  /\ run[c].step = "answered" /\ run[c].answer # "done"
  /\ Save(run[c].signal, IF run[c].answer = "lost" THEN "order_check_rejected"
                                                   ELSE "broker_rejected", "none")
  /\ Finish(c)
  /\ UNCHANGED <<broker, mirror, mishaps>>

\* No answer, or a return code that is not a success.
RecordFailure(c) ==
  /\ run[c].step = "answered" /\ run[c].answer # "done"
  /\ Save(run[c].signal, IF run[c].answer = "lost" THEN "order_send_failed"
                                                   ELSE "broker_rejected", "none")
  /\ Finish(c)
  /\ UNCHANGED <<broker, mirror, mishaps>>

RecordSent(c) ==
  LET s == run[c].signal IN
  /\ run[c].step = "answered" /\ run[c].answer = "done"
  /\ \/ /\ record' = Updated(s, "sent", run[c].ticket)
        /\ run' = [run EXCEPT ![c].step = "verify", ![c].answer = "none"]
        /\ UNCHANGED sync
     \/ UNCHANGED record /\ Finish(c)
  /\ UNCHANGED <<broker, mirror, mishaps>>

-----------------------------------------------------------------------------
(* Verification                                                            *)

\* _find_matching_position: by the ticket of the answer, else by the comment
\* that carries the signal id, else the last of Raymond's positions of that
\* side (the order of the list is the terminal's).
Matches(s, ticket) ==
  CASE ticket # "none" /\ ticket \in Listed -> {ticket}
    [] ~(ticket # "none" /\ ticket \in Listed) /\ s \in Listed -> {s}
    [] OTHER -> {t \in Listed : Side[t] = Side[s]}

Verified(c) ==
  /\ run[c].step = "verify" /\ LoopFree
  /\ \E t \in Matches(run[c].signal, run[c].ticket) :
       Save(run[c].signal, "verified", t)
  /\ Finish(c)
  /\ UNCHANGED <<broker, mirror, mishaps>>

\* Mutant of LookAgain: the attempts are not counted.
LookForEver(c) ==
  /\ run[c].step = "verify" /\ LoopFree
  /\ Matches(run[c].signal, run[c].ticket) = {}
  /\ UNCHANGED vars

\* Not there yet: sleep and look again, at most Attempts times.
LookAgain(c) ==
  /\ run[c].step = "verify" /\ LoopFree
  /\ Matches(run[c].signal, run[c].ticket) = {}
  /\ run[c].tries + 1 < Attempts
  /\ run' = [run EXCEPT ![c].tries = @ + 1]
  /\ UNCHANGED <<broker, tables, sync, mishaps>>

Unverified(c) ==
  /\ run[c].step = "verify" /\ LoopFree
  /\ Matches(run[c].signal, run[c].ticket) = {}
  /\ run[c].tries + 1 >= Attempts
  /\ Save(run[c].signal, "sent_unverified", run[c].ticket)
  /\ Finish(c)
  /\ UNCHANGED <<broker, mirror, mishaps>>

-----------------------------------------------------------------------------
(* synchronize_demo_positions, in a thread of its own                      *)

\* Mutant of SyncCheck: whatever account the terminal is logged in to.
SyncCheckAnyAccount ==
  /\ sync.step = "read"
  /\ sync' = [sync EXCEPT !.step = "list"]
  /\ UNCHANGED <<broker, tables, run, mishaps>>

\* account_info: it must be a demo account.
SyncCheck ==
  /\ sync.step = "read" /\ account = "demo"
  /\ sync' = [sync EXCEPT !.step = "list"]
  /\ UNCHANGED <<broker, tables, run, mishaps>>

\* Not a demo account: run_once reports sync_error and the cycle is over.
SyncBlocked ==
  /\ sync.step = "read" /\ account # "demo"
  /\ sync' = IdleSync
  /\ UNCHANGED <<broker, tables, run, mishaps>>

\* positions_get, a call of its own: what it lists are the positions of the
\* account the terminal is logged in to by now.
SyncRead ==
  /\ sync.step = "list"
  /\ sync' = [sync EXCEPT !.step = "write", !.todo = Listed,
                          !.marks = [s \in Signals |-> IF s \in Listed THEN pos[s].mark ELSE 0]]
  /\ UNCHANGED <<broker, tables, run, mishaps>>

\* One position after the other.  A ticket without a row: create_position
\* commits one at the price of entry.
SyncCreate(s) ==
  /\ sync.step = "write" /\ s \in sync.todo /\ mirror[s].status = "none"
  /\ mirror' = [mirror EXCEPT ![s] = [status |-> "created", mark |-> Entry[s]]]
  /\ sync' = [sync EXCEPT !.step = "market", !.row = s]
  /\ UNCHANGED <<broker, record, run, mishaps>>

InHand(s) ==
  \/ sync.step = "market" /\ sync.row = s
  \/ sync.step = "write" /\ s \in sync.todo /\ mirror[s].status # "none"

\* Mutant of SyncMarket: a row that is synchronized is left alone.
SyncMarketOnce(s) ==
  /\ InHand(s)
  /\ mirror' = IF mirror[s].status = "synchronized" THEN mirror
               ELSE [mirror EXCEPT ![s].mark = sync.marks[s]]
  /\ sync' = [sync EXCEPT !.step = "manage", !.row = s]
  /\ UNCHANGED <<broker, record, run, mishaps>>

\* update_market, of a row just created or found, in a commit of its own ...
SyncMarket(s) ==
  /\ InHand(s)
  /\ mirror' = [mirror EXCEPT ![s].mark = sync.marks[s]]
  /\ sync' = [sync EXCEPT !.step = "manage", !.row = s]
  /\ UNCHANGED <<broker, record, run, mishaps>>

\* ... and update_management in another.
SyncManage ==
  /\ sync.step = "manage"
  /\ mirror' = [mirror EXCEPT ![sync.row].status = "synchronized"]
  /\ sync' = [sync EXCEPT !.step = "write", !.row = "none", !.todo = @ \ {sync.row}]
  /\ UNCHANGED <<broker, record, run, mishaps>>

\* upsert_account_snapshot ends the cycle; the account's figures are left out.
SyncAccount ==
  /\ sync.step = "write" /\ sync.todo = {}
  /\ sync' = IdleSync
  /\ UNCHANGED <<broker, tables, run, mishaps>>

\* The terminal or the database fails in between; what was committed stays.
SyncFails ==
  /\ sync.step # "idle"
  /\ mishaps < MaxMishaps /\ mishaps' = mishaps + 1
  /\ sync' = IdleSync
  /\ UNCHANGED <<broker, tables, run>>

-----------------------------------------------------------------------------

\* Every run and the synchronization die with the process.
Crash ==
  /\ mishaps < MaxMishaps /\ mishaps' = mishaps + 1
  /\ run' = [c \in Callers |-> Idle]
  /\ sync' = IdleSync
  /\ UNCHANGED <<broker, tables>>

Evaluate(c) ==
  \/ EvaluateToNothing(c)
  \/ \E s \in Signals : Reserve(c, s) \/ BlockDuplicate(c, s)

\* What the code itself goes on with once a run or a cycle has begun.
Proceed(c) ==
  \/ CheckFails(c) \/ Send(c) \/ RecordFailure(c) \/ RecordSent(c)
  \/ Verified(c) \/ LookAgain(c) \/ Unverified(c)

Synchronize ==
  \/ SyncCheck \/ SyncBlocked \/ SyncRead \/ SyncManage \/ SyncAccount
  \/ \E s \in Signals : SyncCreate(s) \/ SyncMarket(s)

Broker ==
  \/ SwitchAccount
  \/ \E s \in Signals :
       Show(s) \/ BrokerCloses(s) \/ \E m \in Marks[s] : Reprice(s, m)

Next ==
  \/ Broker \/ Synchronize \/ SyncFails \/ Crash
  \/ \E c \in Callers : Evaluate(c) \/ Proceed(c)

Spec == Init /\ [][Next]_vars

\* A run goes on once it has begun (asyncio.sleep ends), and the worker
\* begins one cycle after the other; the endpoint need never be called.
Fairness ==
  /\ \A c \in Callers : WF_vars(Proceed(c))
  /\ WF_vars(Evaluate("worker"))
  /\ WF_vars(Synchronize)

FairSpec == Spec /\ Fairness
=============================================================================
