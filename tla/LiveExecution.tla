---------------------------- MODULE LiveExecution ----------------------------
(***************************************************************************)
(* Live orders through LiveExecutionGateway.execute, the checks of the     *)
(* broker's positions they rest on, and the protection engine that moves   *)
(* stops at the same time.                                                 *)
(*                                                                         *)
(* All of it runs on one event loop; every call into MetaTrader is handed  *)
(* to a thread and awaited, without a lock.  So a step of a call here is   *)
(* the code from the resumption after one await to the next await, and a   *)
(* reading of the positions is three steps: asked for, taken by the thread *)
(* (TakeReading), and used when the coroutine resumes.  Between them       *)
(* anybody else may run.                                                   *)
(*                                                                         *)
(* The broker (external) executes what was put on the wire whenever it     *)
(* likes, even when the process that sent it is gone.  An order is its own *)
(* position ticket.                                                        *)
(***************************************************************************)
EXTENDS BrokerBook, FiniteSets

CONSTANTS
  Orders,             \* requests to POST /api/live-execution/order
  Terms,              \* Terms[o]: side, entry, volume, stop of request o
  Client,             \* Client[o]: its client_order_id
  Tasks,              \* what else runs: "worker", "run", "reconcile"
  Bids,               \* bids the engine may be quoted
  ProtectionEnabled,  \* RAYMOND_POSITION_PROTECTION_ENABLED
  Faults,             \* may calls into the broker fail
  MaxCrashes          \* bound of the model: process deaths

ASSUME LiveAssumption ==
  /\ Terms \in [Orders -> [side : Sides, entry : Nat \ {0},
                           volume : Nat \ {0}, stop : Nat \ {0}]]
  /\ \A o \in Orders : LET t == Terms[o] IN
       IF t.side = "buy" THEN t.stop < t.entry ELSE t.stop > t.entry
  /\ DOMAIN Client = Orders
  /\ Tasks \subseteq {"worker", "run", "reconcile"}
  /\ Bids \subseteq Nat \ {0}
  /\ ProtectionEnabled \in BOOLEAN /\ Faults \in BOOLEAN
  /\ MaxCrashes \in Nat

VARIABLES
  pos,         \* pos[o]: what the broker made of order o
  wire,        \* requests handed to the broker, not executed yet
  registry,    \* _live_registry
  reconciled,  \* _reconciliation_safe
  armed,       \* _armed of live_safety_gate
  authorized,  \* the selected account is verified and authorized (database)
  beating,     \* the gateway's heartbeat is younger than 15 seconds
  halted,      \* emergency stop of the application's safety_manager
  call,        \* call[o]: the execution of request o
  task,        \* task[a]: the cycle of a
  crashes

broker == <<pos, wire>>
gates == <<reconciled, armed, authorized, beating, halted>>
vars == <<pos, wire, registry, reconciled, armed, authorized, beating, halted,
          call, task, crashes>>

NoPosition == Position("none", "buy", 0, 0, 0)
Nothing == [o \in Orders |-> NoPosition]

\* A reading of the positions: asked for, taken, or failed.
Asked == [got |-> "no", at |-> Nothing]
Failed == [got |-> "error", at |-> Nothing]
Taken == [got |-> "yes", at |-> pos]

\* book is the registry as it was when a reading was asked for.
Call(step, book) == [step |-> step, book |-> book, seen |-> Asked]

Task(step, book) ==
  [step |-> step, book |-> book, seen |-> Asked, todo |-> {}, ticket |-> {},
   stop |-> 0, modified |-> FALSE]

IdleTask == Task("idle", <<>>)

ReadingCall == {"reconcile", "monitor", "final", "verify", "post", "settle"}
ReadingTask == {"monitor", "protect", "recheck", "reconcile"}

\* execute has returned or raised; "lost" when its process died first.
Over == {"refused", "rejected", "failed", "sent_unverified", "verified", "lost"}

OrderMessage(o) == [kind |-> "order", order |-> o, by |-> "gateway", stop |-> 0]
StopMessage(a, t, s) == [kind |-> "stop", order |-> t, by |-> a, stop |-> s]

Init ==
  /\ pos = Nothing /\ wire = {}
  /\ registry = <<>> /\ reconciled = FALSE
  /\ armed = FALSE /\ authorized = FALSE /\ beating = FALSE /\ halted = FALSE
  /\ call = [o \in Orders |-> Call("idle", <<>>)]
  /\ task = [a \in Tasks |-> IdleTask]
  /\ crashes = 0

To(o, step) == call' = [call EXCEPT ![o] = Call(step, <<>>)]

\* The steps that read the registry before they ask for the positions.
ToWith(o, step, book) == call' = [call EXCEPT ![o] = Call(step, book)]

Used(o) == call[o].seen.at
Read(o) == call[o].seen.got = "yes"
ReadFailed(o) == call[o].seen.got = "error"

-----------------------------------------------------------------------------
(* The owner: arming, authorization, the emergency stop                    *)

\* arm_live_trading and disarm_live_trading.
SetArmed(b) ==
  /\ armed # b /\ armed' = b
  /\ UNCHANGED <<broker, registry, reconciled, authorized, beating, halted,
                 call, task, crashes>>

\* authorize_live_trading and revoke_live_trading.
SetAuthorized(b) ==
  /\ authorized # b /\ authorized' = b
  /\ UNCHANGED <<broker, registry, reconciled, armed, beating, halted,
                 call, task, crashes>>

\* POST /api/admin/emergency-stop and its reset act on the application's
\* safety_manager; the gateway has an instance of its own.
SetHalted(b) ==
  /\ halted # b /\ halted' = b
  /\ UNCHANGED <<broker, registry, reconciled, armed, authorized, beating,
                 call, task, crashes>>

\* Fifteen seconds without a heartbeat.
HeartbeatAges ==
  /\ beating /\ beating' = FALSE
  /\ UNCHANGED <<broker, registry, reconciled, armed, authorized, halted,
                 call, task, crashes>>

\* POST /api/live-reconciliation/clear.
ClearReconciliation ==
  /\ reconciled /\ reconciled' = FALSE
  /\ UNCHANGED <<broker, registry, armed, authorized, beating, halted,
                 call, task, crashes>>

-----------------------------------------------------------------------------
(* LiveExecutionGateway.execute                                            *)

\* The gates before the first await: armed, and the selected account.
Submit(o) ==
  /\ call[o].step = "idle" /\ armed /\ authorized
  /\ To(o, "heartbeat")
  /\ UNCHANGED <<broker, registry, gates, task, crashes>>

\* A healthy heartbeat is recorded, so the gateway's own emergency stop
\* manager, which nobody activates, lets the order pass.
Heartbeat(o) ==
  /\ call[o].step = "heartbeat"
  /\ \/ To(o, "quote") /\ beating' = TRUE
     \/ Faults /\ To(o, "refused") /\ UNCHANGED beating
  /\ UNCHANGED <<broker, registry, reconciled, armed, authorized, halted, task,
                 crashes>>

\* Account, terminal, specification and tick, and the checks of the request
\* against them: four awaits that change nothing here.
Quote(o) ==
  /\ call[o].step = "quote"
  /\ \/ To(o, "reconcile")
     \/ Faults /\ To(o, "refused")
  /\ UNCHANGED <<broker, registry, gates, task, crashes>>

\* reconcile_live_positions reads the registry only now, after the await.
GateReconcile(o) ==
  /\ call[o].step = "reconcile" /\ Read(o)
  /\ reconciled' = ReconcileSafe(registry, Used(o))
  /\ IF reconciled' THEN ToWith(o, "monitor", registry) ELSE To(o, "refused")
  /\ UNCHANGED <<broker, registry, armed, authorized, beating, halted, task,
                 crashes>>

GateMonitor(o) ==
  /\ call[o].step = "monitor" /\ Read(o)
  /\ IF MonitorSafe(call[o].book, Used(o)) THEN To(o, "check") ELSE To(o, "refused")
  /\ UNCHANGED <<broker, registry, gates, task, crashes>>

\* order_check has answered; the last look at the arm and at the flag of
\* whichever reconciliation ended last.
OrderCheck(o) ==
  /\ call[o].step = "check"
  /\ \/ armed /\ reconciled /\ ToWith(o, "final", registry)
     \/ ~ (armed /\ reconciled) /\ To(o, "refused")
     \/ Faults /\ To(o, "refused")
  /\ UNCHANGED <<broker, registry, gates, task, crashes>>

\* The fresh monitor "immediately before order_send", then the heartbeat.
FinalMonitor(o) ==
  /\ call[o].step = "final" /\ Read(o)
  /\ IF MonitorSafe(call[o].book, Used(o)) /\ beating
       THEN To(o, "send") /\ wire' = wire \cup {OrderMessage(o)}
       ELSE To(o, "refused") /\ UNCHANGED wire
  /\ UNCHANGED <<pos, registry, gates, task, crashes>>

\* order_send has returned; without an answer nobody asks again.
OrderSent(o) ==
  /\ call[o].step = "send" /\ OrderMessage(o) \notin wire
  /\ \/ pos[o].status = "refused" /\ To(o, "rejected")
     \/ pos[o].status # "refused" /\ To(o, "verify")
     \/ Faults /\ To(o, "failed")
  /\ UNCHANGED <<broker, registry, gates, task, crashes>>

\* Mutant of NotFound: verification is repeated until the position shows.
LookAgain(o) == To(o, "verify")

\* No position of the side is found: the order may have executed, nothing is
\* registered, and nobody looks again.
NotFound(o) == To(o, "sent_unverified")

\* _verify_position: any position of the side will do, the closest in volume
\* first; its stop is checked and it is registered under this order's id,
\* with the volume of this order's deal.
Verify(o) ==
  /\ call[o].step = "verify" /\ Read(o)
  /\ LET found == Candidates(Used(o), Terms[o].side, Terms[o].volume) IN
     \/ found = {} /\ NotFound(o) /\ UNCHANGED registry
     \/ \E t \in found :
          IF ProtectionValid(Used(o)[t])
            THEN /\ registry' = Register(registry,
                      Record(Client[o], t, pos[o].volume, Used(o)[t].stop))
                 /\ ToWith(o, "post", registry')
            ELSE To(o, "failed") /\ UNCHANGED registry
  /\ UNCHANGED <<broker, gates, task, crashes>>

\* Mutant of PostMonitor: a registered position is reported at once.
PostChecksSkipped(o) ==
  /\ call[o].step = "post" /\ Read(o)
  /\ To(o, "verified")
  /\ UNCHANGED <<broker, registry, gates, task, crashes>>

PostMonitor(o) ==
  /\ call[o].step = "post" /\ Read(o)
  /\ IF MonitorSafe(call[o].book, Used(o)) THEN To(o, "settle") ELSE To(o, "failed")
  /\ UNCHANGED <<broker, registry, gates, task, crashes>>

PostReconcile(o) ==
  /\ call[o].step = "settle" /\ Read(o)
  /\ reconciled' = ReconcileSafe(registry, Used(o))
  /\ IF reconciled' THEN To(o, "verified") ELSE To(o, "failed")
  /\ UNCHANGED <<broker, registry, armed, authorized, beating, halted, task,
                 crashes>>

\* The positions could not be read.  A reconciliation that fails clears the
\* flag; after the order was sent the answer is an error of another kind.
CallReadFails(o) ==
  /\ call[o].step \in ReadingCall /\ ReadFailed(o)
  /\ reconciled' = (reconciled /\ call[o].step \notin {"reconcile", "settle"})
  /\ IF call[o].step \in {"reconcile", "monitor", "final"}
       THEN To(o, "refused") ELSE To(o, "failed")
  /\ UNCHANGED <<broker, registry, armed, authorized, beating, halted, task,
                 crashes>>

-----------------------------------------------------------------------------
(* The protection worker ("worker"), a run of the engine by hand ("run",   *)
(* POST /api/live-position-protection/run with dry_run false) and the      *)
(* reconciliation endpoint ("reconcile")                                   *)

ToTask(a, step, book) == task' = [task EXCEPT ![a] = Task(step, book)]

Ends(a) == task' = [task EXCEPT ![a] = IdleTask]

\* A reading asked for inside a cycle that remembers what it has modified.
AskAgain(a, step, book) ==
  task' = [task EXCEPT ![a] = [Task(step, book) EXCEPT !.modified = task[a].modified]]

TaskUsed(a) == task[a].seen.at
TaskRead(a) == task[a].seen.got = "yes"

\* Which positions reading a task begins with.
FirstStep == [worker |-> "monitor", run |-> "protect", reconcile |-> "reconcile"]

StartTask(a) ==
  /\ task[a].step = "idle"
  /\ a = "run" => ProtectionEnabled
  /\ ToTask(a, FirstStep[a], registry)
  /\ UNCHANGED <<broker, registry, gates, call, crashes>>

\* An unsafe monitor blocks the rest of the cycle, the engine included.
WorkerMonitor(a) ==
  /\ task[a].step = "monitor" /\ TaskRead(a)
  /\ IF MonitorSafe(task[a].book, TaskUsed(a))
       THEN ToTask(a, "protect", registry) ELSE Ends(a)
  /\ UNCHANGED <<broker, registry, gates, call, crashes>>

\* protect_live_positions goes through the tickets that are registered and
\* open, with the stops of this reading.
Protect(a) ==
  /\ task[a].step = "protect" /\ TaskRead(a)
  /\ task' = [task EXCEPT ![a].step = "walk",
                ![a].todo = {t \in Tickets(task[a].book) : IsOpen(TaskUsed(a)[t])}]
  /\ UNCHANGED <<broker, registry, gates, call, crashes>>

\* _protect_one_position: specification and tick are awaited, the new stop
\* is compared with the one READ, and a better one goes to the broker.  The
\* positions are independent, so their order is left open.
ProtectOne(a, t, bid) ==
  /\ task[a].step = "walk" /\ t \in task[a].todo
  /\ LET news == {s \in NewStops(TaskUsed(a)[t], bid) : ProtectionEnabled} IN
     \/ /\ news = {}
        /\ task' = [task EXCEPT ![a].todo = @ \ {t}]
        /\ UNCHANGED wire
     \/ \E s \in news :
          /\ task' = [task EXCEPT ![a].todo = @ \ {t}, ![a].step = "modify",
                                  ![a].ticket = {t}, ![a].stop = s]
          /\ wire' = wire \cup {StopMessage(a, t, s)}
  /\ UNCHANGED <<pos, registry, gates, call, crashes>>

\* order_send has returned.  The registry keeps the old stop.
StopSent(a) ==
  /\ task[a].step = "modify"
  /\ \A t \in task[a].ticket : StopMessage(a, t, task[a].stop) \notin wire
  /\ task' = [task EXCEPT ![a].step = "walk", ![a].ticket = {}, ![a].stop = 0]
  /\ UNCHANGED <<broker, registry, gates, call, crashes>>

\* The engine is through; the worker looks again if it changed anything.
ProtectEnds(a) ==
  /\ task[a].step = "walk" /\ task[a].todo = {}
  /\ IF a # "worker" THEN Ends(a)
     ELSE IF task[a].modified THEN AskAgain(a, "recheck", registry)
     ELSE AskAgain(a, "reconcile", <<>>)
  /\ UNCHANGED <<broker, registry, gates, call, crashes>>

WorkerRecheck(a) ==
  /\ task[a].step = "recheck" /\ TaskRead(a)
  /\ IF MonitorSafe(task[a].book, TaskUsed(a))
       THEN AskAgain(a, "reconcile", <<>>) ELSE Ends(a)
  /\ UNCHANGED <<broker, registry, gates, call, crashes>>

TaskReconcile(a) ==
  /\ task[a].step = "reconcile" /\ TaskRead(a)
  /\ reconciled' = ReconcileSafe(registry, TaskUsed(a))
  /\ Ends(a)
  /\ UNCHANGED <<broker, registry, armed, authorized, beating, halted, call,
                 crashes>>

\* The positions, or the tick of one of them, could not be read.
TaskFails(a) ==
  /\ \/ task[a].step \in ReadingTask /\ task[a].seen.got = "error"
     \/ Faults /\ task[a].step = "walk" /\ task[a].todo # {}
  /\ reconciled' = (reconciled /\ task[a].step # "reconcile")
  /\ Ends(a)
  /\ UNCHANGED <<broker, registry, armed, authorized, beating, halted, call,
                 crashes>>

-----------------------------------------------------------------------------
(* The threads and the broker                                              *)

Readings == {Taken} \cup (IF Faults THEN {Failed} ELSE {})

\* A thread's mt5.positions_get, for a call and for a task.
TakeReading(o) ==
  /\ call[o].step \in ReadingCall /\ call[o].seen.got = "no"
  /\ \E r \in Readings : call' = [call EXCEPT ![o].seen = r]
  /\ UNCHANGED <<broker, registry, gates, task, crashes>>

TakeTaskReading(a) ==
  /\ task[a].step \in ReadingTask /\ task[a].seen.got = "no"
  /\ \E r \in Readings : task' = [task EXCEPT ![a].seen = r]
  /\ UNCHANGED <<broker, registry, gates, call, crashes>>

\* The broker fills an order, in part perhaps, with its stop or without.
Fill(o) ==
  /\ OrderMessage(o) \in wire
  /\ wire' = wire \ {OrderMessage(o)}
  /\ \E v \in 1 .. Terms[o].volume,
        s \in {Terms[o].stop} \cup (IF Faults THEN {0} ELSE {}) :
       pos' = [pos EXCEPT ![o] =
                 Position("open", Terms[o].side, Terms[o].entry, v, s)]
  /\ UNCHANGED <<registry, gates, call, task, crashes>>

Refuse(o) ==
  /\ OrderMessage(o) \in wire
  /\ wire' = wire \ {OrderMessage(o)}
  /\ pos' = [pos EXCEPT ![o].status = "refused"]
  /\ UNCHANGED <<registry, gates, call, task, crashes>>

\* A stop or target is hit, or the owner closes the position.
Close(o) ==
  /\ IsOpen(pos[o])
  /\ pos' = [pos EXCEPT ![o].status = "closed"]
  /\ UNCHANGED <<wire, registry, gates, call, task, crashes>>

\* The task that sent message m still waits for its answer.
Awaited(m) ==
  /\ task[m.by].step = "modify" /\ task[m.by].ticket = {m.order}
  /\ task[m.by].stop = m.stop

\* A stop is moved or refused; a move whose answer is lost is not counted.
MoveStop(m, moved) ==
  /\ m \in wire /\ m.kind = "stop" /\ wire' = wire \ {m}
  /\ moved => IsOpen(pos[m.order])
  /\ pos' = IF moved THEN [pos EXCEPT ![m.order].stop = m.stop] ELSE pos
  /\ \/ moved /\ Awaited(m) /\ task' = [task EXCEPT ![m.by].modified = TRUE]
     \/ ~ (moved /\ Awaited(m) /\ ~ Faults) /\ UNCHANGED task
  /\ UNCHANGED <<registry, gates, call, crashes>>

\* The process dies: registry, arm and flags live in its memory only.
Crash ==
  /\ crashes < MaxCrashes /\ crashes' = crashes + 1
  /\ registry' = <<>> /\ reconciled' = FALSE /\ armed' = FALSE
  /\ beating' = FALSE /\ halted' = FALSE
  /\ call' = [o \in Orders |-> IF call[o].step = "idle" THEN call[o]
                               ELSE Call("lost", <<>>)]
  /\ task' = [a \in Tasks |-> IdleTask]
  /\ UNCHANGED <<broker, authorized>>

-----------------------------------------------------------------------------

\* What the event loop and its threads do for a call, and for a task.
CallStep(o) ==
  \/ Heartbeat(o) \/ Quote(o) \/ GateReconcile(o) \/ GateMonitor(o)
  \/ OrderCheck(o) \/ FinalMonitor(o) \/ OrderSent(o) \/ Verify(o)
  \/ PostMonitor(o) \/ PostReconcile(o) \/ CallReadFails(o) \/ TakeReading(o)

TaskStep(a) ==
  \/ WorkerMonitor(a) \/ Protect(a) \/ StopSent(a) \/ ProtectEnds(a)
  \/ \E t \in Orders, bid \in Bids : ProtectOne(a, t, bid)
  \/ WorkerRecheck(a) \/ TaskReconcile(a) \/ TaskFails(a) \/ TakeTaskReading(a)

OrderExecuted(o) == Fill(o) \/ Refuse(o)

StopExecuted(a) == \E m \in wire, moved \in BOOLEAN : m.by = a /\ MoveStop(m, moved)

Next ==
  \/ \E b \in BOOLEAN : SetArmed(b) \/ SetAuthorized(b) \/ SetHalted(b)
  \/ HeartbeatAges \/ ClearReconciliation
  \/ \E o \in Orders : Submit(o) \/ CallStep(o) \/ OrderExecuted(o) \/ Close(o)
  \/ \E a \in Tasks : StartTask(a) \/ TaskStep(a) \/ StopExecuted(a)
  \/ Crash

Spec == Init /\ [][Next]_vars

\* Every await returns: the loop resumes each call and each task, a thread
\* takes each reading, the broker answers what it was sent; and the worker's
\* loop goes on.  Nothing is assumed of the owner, of the endpoints, or of
\* what the market does to a position.
FairSpec ==
  /\ Spec
  /\ \A o \in Orders : WF_vars(CallStep(o)) /\ WF_vars(OrderExecuted(o))
  /\ \A a \in Tasks : WF_vars(TaskStep(a)) /\ WF_vars(StopExecuted(a))
  /\ \A a \in Tasks \cap {"worker"} : WF_vars(StartTask(a))
=============================================================================
