------------------------ MODULE LiveExecution_proofs ------------------------
(***************************************************************************)
(* Proofs about live orders: types, that the registry and the broker       *)
(* cannot drift apart unnoticed, and that a single engine only tightens    *)
(* stops, for any number of orders, tasks, faults and process deaths.      *)
(***************************************************************************)
EXTENDS LiveRequirements, SequenceTheorems, TLAPS

\* The client_order_id is the request's own, as the default uuid is.
DistinctIds == \A o, p \in Orders : Client[o] = Client[p] => o = p

Opened(p) == p.status \in {"open", "closed"} /\ p.volume > 0

\* The steps of a call before its order is handed to the broker, and those
\* after the broker has been seen to fill it.
BeforeSend == {"idle", "heartbeat", "quote", "reconcile", "monitor", "check", "final"}
AfterFill == {"verify", "post", "settle", "verified"}

\* An order goes onto the wire once, and is executed once.
SentOnce ==
  \A o \in Orders :
    /\ OrderMessage(o) \in wire => pos[o].status = "none" /\ call[o].step \in {"send", "lost"}
    /\ call[o].step \in BeforeSend => pos[o].status = "none"
    /\ call[o].step = "send" /\ OrderMessage(o) \notin wire =>
         pos[o].status = "refused" \/ Opened(pos[o])
    /\ call[o].step \in AfterFill => Opened(pos[o])
    /\ pos[o].status \in {"open", "closed"} => Opened(pos[o])

\* What a call has read was true of the broker: a position it saw open has
\* been opened, and one it saw protected still is.
ReadingsTrue ==
  \A o, t \in Orders : LET s == call[o].seen.at[t] IN
    IsOpen(s) => /\ pos[t].status \in {"open", "closed"}
                 /\ s.stop > 0 => pos[t].stop > 0

StopsPositive == \A m \in wire : m.kind = "stop" => m.stop > 0

\* A call's copy of the registry is not ahead of the registry.
BooksBehind ==
  \A o \in Orders :
    /\ Tickets(call[o].book) \subseteq Tickets(registry)
    /\ call[o].step = "idle" => Tickets(call[o].book) = {}

\* A call that has not registered anything yet finds its id unused.
IdsFresh ==
  \A o \in Orders : call[o].step \in BeforeSend \cup {"send", "verify"} =>
    Client[o] \notin Clients(registry)

\* The readings of a call after its order was filled show the position.
OwnPositionSeen ==
  \A o \in Orders :
    call[o].step = "post" /\ call[o].seen.got = "yes" /\ IsOpen(pos[o]) =>
      IsOpen(call[o].seen.at[o])

SettledOnRecord ==
  \A o \in Orders :
    call[o].step \in {"settle", "verified"} /\ IsOpen(pos[o]) => o \in Tickets(registry)

\* Without assumptions on the ids.
BrokerInv == TypeOK /\ SentOnce /\ ReadingsTrue /\ StopsPositive /\ RegisteredIsProtected

\* With ids of their own.
RegistryInv == BooksBehind /\ IdsFresh /\ OwnPositionSeen /\ SettledOnRecord

-----------------------------------------------------------------------------
(* What a step does to the broker, the registry and the calls              *)

Quiet == UNCHANGED <<pos, wire, registry, call>>

\* A call goes on, or ends, without touching the broker or the registry.
CallMoves(o) ==
  \E s \in CallSteps, b \in {<<>>, registry} :
    /\ call' = [call EXCEPT ![o] = Call(s, b)]
    /\ UNCHANGED <<pos, wire, registry>>
    /\ \/ call[o].step \in BeforeSend /\ s \in (BeforeSend \ {"idle"}) \cup {"refused"}
       \/ /\ call[o].step = "send" /\ OrderMessage(o) \notin wire
          /\ s = "verify" => pos[o].status # "refused"
          /\ s \in {"rejected", "failed", "verify"}
       \/ call[o].step \in {"verify", "post", "settle"} /\ s \in {"failed", "sent_unverified"}
       \/ /\ call[o].step = "post" /\ Read(o) /\ s = "settle"
          /\ MonitorSafe(call[o].book, Used(o))
       \/ call[o].step = "settle" /\ s = "verified"

Leaves(o) ==
  /\ call[o].step = "final" /\ Read(o) /\ MonitorSafe(call[o].book, Used(o))
  /\ To(o, "send") /\ wire' = wire \cup {OrderMessage(o)}
  /\ UNCHANGED <<pos, registry>>

Registers(o) ==
  /\ call[o].step = "verify"
  /\ \E t \in Orders :
       /\ IsOpen(Used(o)[t]) /\ ProtectionValid(Used(o)[t])
       /\ registry' = Register(registry,
                        Record(Client[o], t, pos[o].volume, Used(o)[t].stop))
  /\ ToWith(o, "post", registry')
  /\ UNCHANGED <<pos, wire>>

StopAsked ==
  /\ \E m \in Messages : m.kind = "stop" /\ m.stop > 0 /\ wire' = wire \cup {m}
  /\ UNCHANGED <<pos, registry, call>>

StopMoved ==
  /\ \E m \in wire :
       /\ m.kind = "stop" /\ wire' = wire \ {m}
       /\ \/ pos' = pos
          \/ IsOpen(pos[m.order]) /\ pos' = [pos EXCEPT ![m.order].stop = m.stop]
  /\ UNCHANGED <<registry, call>>

Effect ==
  \/ Quiet \/ StopAsked \/ StopMoved \/ Crash
  \/ \E o \in Orders : \/ CallMoves(o) \/ Leaves(o) \/ Registers(o) \/ TakeReading(o)
                       \/ Fill(o) \/ Refuse(o) \/ Close(o)

-----------------------------------------------------------------------------
(* Operators                                                               *)

LEMMA TermsTyped ==
  ASSUME NEW o \in Orders
  PROVE  /\ Terms[o].side \in Sides /\ Terms[o].entry \in Nat
         /\ Terms[o].volume \in Nat \ {0} /\ Terms[o].stop \in Nat
BY LiveAssumption

LEMMA NothingTyped == Nothing \in [Orders -> Positions]
BY DEF Nothing, NoPosition, Position, Positions, Sides

\* The engine never asks the broker for a stop that is not a price.
LEMMA NewStopsPositive ==
  ASSUME NEW p \in Positions, NEW bid \in Nat
  PROVE  \A s \in NewStops(p, bid) : s \in Nat /\ s > 0
<1>1. BreakEvenStop(p) \in Int /\ TrailingStop(p, bid) \in Int
  BY EngineAssumption DEF BreakEvenStop, TrailingStop, Ask, Positions
<1>2. \A s \in Proposed(p, bid) : s \in Int /\ s > 0
  BY <1>1 DEF Proposed, IsBetterStop
<1> QED  BY <1>2 DEF NewStops

LEMMA CallTyped ==
  ASSUME TypeOK, NEW o \in Orders, NEW s \in CallSteps, NEW b \in Seq(Records)
  PROVE  [call EXCEPT ![o] = Call(s, b)] \in [Orders -> Calls]
BY NothingTyped DEF TypeOK, Calls, Call, Asked, SeenAt

LEMMA TaskTyped ==
  ASSUME TypeOK, NEW a \in Tasks, NEW s \in ReadingTask \cup {"idle"},
         NEW b \in Seq(Records), NEW m \in BOOLEAN
  PROVE  /\ [task EXCEPT ![a] = Task(s, b)] \in [Tasks -> Cycles]
         /\ [task EXCEPT ![a] = [Task(s, b) EXCEPT !.modified = m]] \in [Tasks -> Cycles]
<1>1. Task(s, b) \in Cycles /\ [Task(s, b) EXCEPT !.modified = m] \in Cycles
  BY NothingTyped DEF Cycles, Task, Asked, SeenAt, ReadingTask
<1> QED  BY <1>1 DEF TypeOK

LEMMA CycleTyped == TypeOK => \A a \in Tasks : task[a] \in Cycles
BY DEF TypeOK

LEMMA CycleReplaced ==
  ASSUME TypeOK, NEW a \in Tasks, NEW c \in Cycles, task' = [task EXCEPT ![a] = c]
  PROVE  task' \in [Tasks -> Cycles]
BY DEF TypeOK

\* What register_live_position does to the keys and to the tickets.
LEMMA RegisterEffect ==
  ASSUME NEW book \in Seq(Records), NEW r \in Records
  PROVE  /\ Register(book, r) \in Seq(Records)
         /\ Tickets(Register(book, r)) \subseteq Tickets(book) \cup {r.ticket}
         /\ Clients(Register(book, r)) \subseteq Clients(book) \cup {r.client}
         /\ r.client \notin Clients(book) =>
              Tickets(Register(book, r)) = Tickets(book) \cup {r.ticket}
<1>1. CASE r.client \in Clients(book)
  <2> DEFINE new == [i \in DOMAIN book |-> IF book[i].client = r.client THEN r ELSE book[i]]
  <2>1. Register(book, r) = new
    BY <1>1 DEF Register
  <2>2. new \in Seq(Records)
    BY DEF new
  <2>3. DOMAIN new = DOMAIN book
    OBVIOUS
  <2> QED  BY <1>1, <2>1, <2>2, <2>3 DEF Tickets, Clients
<1>2. CASE r.client \notin Clients(book)
  <2>1. Register(book, r) = Append(book, r)
    BY <1>2 DEF Register
  <2>2. /\ Append(book, r) \in Seq(Records)
        /\ DOMAIN Append(book, r) = 1 .. Len(book) + 1
        /\ DOMAIN book = 1 .. Len(book) /\ Len(book) \in Nat
        /\ \A i \in 1 .. Len(book) : Append(book, r)[i] = book[i]
        /\ Append(book, r)[Len(book) + 1] = r
    OBVIOUS
  <2>3. Tickets(Append(book, r)) = Tickets(book) \cup {r.ticket}
    BY <2>2 DEF Tickets
  <2>4. Clients(Append(book, r)) = Clients(book) \cup {r.client}
    BY <2>2 DEF Clients
  <2> QED  BY <1>2, <2>1, <2>2, <2>3, <2>4
<1> QED  BY <1>1, <1>2

LEMMA TicketsAreOrders ==
  ASSUME NEW book \in Seq(Records)
  PROVE  Tickets(book) \subseteq Orders
<1>1. \A i \in DOMAIN book : book[i] \in Records
  OBVIOUS
<1> QED  BY <1>1 DEF Tickets, Records

LEMMA EmptyBook == <<>> \in Seq(Records) /\ Tickets(<<>>) = {} /\ Clients(<<>>) = {}
BY DEF Tickets, Clients

-----------------------------------------------------------------------------
(* Types                                                                   *)

\* What a call, and a task, may become at any step.
CallTurns(o) ==
  \E s \in CallSteps, b \in {<<>>, registry, registry'} :
    call' = [call EXCEPT ![o] = Call(s, b)]

TaskTurns(a) ==
  \E s \in ReadingTask \cup {"idle"}, b \in {<<>>, registry} :
    \/ task' = [task EXCEPT ![a] = Task(s, b)]
    \/ task' = [task EXCEPT ![a] = [Task(s, b) EXCEPT !.modified = task[a].modified]]

LEMMA CallTurnsTyped ==
  ASSUME TypeOK, NEW o \in Orders, CallTurns(o), registry' \in Seq(Records)
  PROVE  call' \in [Orders -> Calls]
<1>1. PICK s \in CallSteps, b \in {<<>>, registry, registry'} :
        call' = [call EXCEPT ![o] = Call(s, b)]
  BY DEF CallTurns
<1>2. b \in Seq(Records)
  BY <1>1, EmptyBook DEF TypeOK
<1> QED  BY <1>1, <1>2, CallTyped

LEMMA TaskTurnsTyped ==
  ASSUME TypeOK, NEW a \in Tasks, TaskTurns(a)
  PROVE  task' \in [Tasks -> Cycles]
<1>1. PICK s \in ReadingTask \cup {"idle"}, b \in {<<>>, registry} :
        \/ task' = [task EXCEPT ![a] = Task(s, b)]
        \/ task' = [task EXCEPT ![a] = [Task(s, b) EXCEPT !.modified = task[a].modified]]
  BY DEF TaskTurns
<1>2. b \in Seq(Records)
  BY <1>1, EmptyBook DEF TypeOK
<1>3. task[a].modified \in BOOLEAN
  BY DEF TypeOK, Cycles
<1>4. /\ [task EXCEPT ![a] = Task(s, b)] \in [Tasks -> Cycles]
      /\ [task EXCEPT ![a] = [Task(s, b) EXCEPT !.modified = task[a].modified]]
           \in [Tasks -> Cycles]
  BY <1>1, <1>2, <1>3, TaskTyped
<1> QED  BY <1>1, <1>4

\* The steps of a call that leave the broker and the tasks alone.
LEMMA CallStepsTyped ==
  ASSUME TypeOK, NEW o \in Orders,
         Submit(o) \/ Heartbeat(o) \/ Quote(o) \/ GateReconcile(o)
           \/ GateMonitor(o) \/ OrderCheck(o) \/ OrderSent(o) \/ PostMonitor(o)
           \/ PostReconcile(o) \/ CallReadFails(o)
  PROVE  TypeOK'
<1> USE DEF CallTurns, To, ToWith, CallSteps, Over, ReadingCall
<1>1. registry' = registry
  BY DEF Submit, Heartbeat, Quote, GateReconcile, GateMonitor, OrderCheck,
         OrderSent, PostMonitor, PostReconcile, CallReadFails, gates
<1>2. CallTurns(o)
  <2>1. CASE Submit(o)         BY <2>1 DEF Submit
  <2>2. CASE Heartbeat(o)      BY <2>2 DEF Heartbeat
  <2>3. CASE Quote(o)          BY <2>3 DEF Quote
  <2>4. CASE GateReconcile(o)  BY <2>4 DEF GateReconcile
  <2>5. CASE GateMonitor(o)    BY <2>5 DEF GateMonitor
  <2>6. CASE OrderCheck(o)     BY <2>6 DEF OrderCheck
  <2>7. CASE OrderSent(o)      BY <2>7 DEF OrderSent
  <2>8. CASE PostMonitor(o)    BY <2>8 DEF PostMonitor
  <2>9. CASE PostReconcile(o)  BY <2>9 DEF PostReconcile
  <2>10. CASE CallReadFails(o) BY <2>10 DEF CallReadFails
  <2> QED  BY <2>1, <2>2, <2>3, <2>4, <2>5, <2>6, <2>7, <2>8, <2>9, <2>10
<1>3. call' \in [Orders -> Calls]
  BY <1>1, <1>2, CallTurnsTyped DEF TypeOK
<1>4. /\ UNCHANGED <<pos, wire, task, crashes>>
      /\ <<reconciled, armed, authorized, beating, halted>>' \in
           BOOLEAN \X BOOLEAN \X BOOLEAN \X BOOLEAN \X BOOLEAN
  BY DEF TypeOK, Submit, Heartbeat, Quote, GateReconcile, GateMonitor, OrderCheck,
         OrderSent, PostMonitor, PostReconcile, CallReadFails, gates, broker,
         ReconcileSafe
<1> QED  BY <1>1, <1>3, <1>4 DEF TypeOK

\* Verification, with what it registers.
LEMMA VerifyTyped ==
  ASSUME TypeOK, NEW o \in Orders, Verify(o), call[o].step = "verify" => pos[o].volume > 0
  PROVE  TypeOK'
<1>1. CASE registry' = registry /\ CallTurns(o)
  <2>1. call' \in [Orders -> Calls]
    BY <1>1, CallTurnsTyped DEF TypeOK
  <2> QED  BY <1>1, <2>1 DEF TypeOK, Verify, broker, gates
<1>2. ASSUME NEW t \in Orders, ProtectionValid(Used(o)[t]), ToWith(o, "post", registry'),
             registry' = Register(registry, Record(Client[o], t, pos[o].volume, Used(o)[t].stop))
      PROVE  TypeOK'
  <2>1. Used(o)[t] \in Positions /\ Used(o)[t].stop > 0
    BY <1>2 DEF TypeOK, Calls, SeenAt, Used, ProtectionValid
  <2>2. pos[o].volume \in Nat /\ pos[o].volume > 0
    BY DEF TypeOK, Positions, Verify
  <2>3. Record(Client[o], t, pos[o].volume, Used(o)[t].stop) \in Records
    BY <2>1, <2>2 DEF Record, Records, Positions
  <2>4. registry' \in Seq(Records)
    BY <1>2, <2>3, RegisterEffect DEF TypeOK
  <2>5. CallTurns(o)
    BY <1>2 DEF CallTurns, ToWith, CallSteps, ReadingCall
  <2>6. call' \in [Orders -> Calls]
    BY <2>4, <2>5, CallTurnsTyped
  <2> QED  BY <2>4, <2>6 DEF TypeOK, Verify, broker, gates
<1>3. \A t \in Candidates(Used(o), Terms[o].side, Terms[o].volume) : t \in Orders
  BY DEF Candidates, Used, TypeOK, Calls, SeenAt
<1> QED
  BY <1>1, <1>2, <1>3
  DEF Verify, CallTurns, NotFound, To, CallSteps, Over

\* A reading, by the thread of a call or of a task.
LEMMA ReadingTyped == TypeOK => \A r \in Readings : r \in SeenAt
BY NothingTyped DEF TypeOK, Readings, Taken, Failed, SeenAt

LEMMA TakeReadingTyped ==
  ASSUME TypeOK, NEW o \in Orders, TakeReading(o)
  PROVE  TypeOK'
<1>1. PICK r \in SeenAt : call' = [call EXCEPT ![o].seen = r]
  BY ReadingTyped DEF TakeReading
<1>2. call' \in [Orders -> Calls]
  BY <1>1 DEF TypeOK, Calls
<1> QED  BY <1>2 DEF TypeOK, TakeReading, broker, gates

LEMMA TakeTaskReadingTyped ==
  ASSUME TypeOK, NEW a \in Tasks, TakeTaskReading(a)
  PROVE  TypeOK'
<1>1. PICK r \in SeenAt : task' = [task EXCEPT ![a] = [task[a] EXCEPT !.seen = r]]
  BY ReadingTyped DEF TakeTaskReading
<1>2. task' \in [Tasks -> Cycles]
  <2>1. [task[a] EXCEPT !.seen = r] \in Cycles
    BY CycleTyped DEF Cycles
  <2> QED  BY <1>1, <2>1, CycleReplaced
<1> QED  BY <1>2 DEF TypeOK, TakeTaskReading, broker, gates

\* The steps of a task that begin or end a reading.
LEMMA TaskStepsTyped ==
  ASSUME TypeOK, NEW a \in Tasks,
         StartTask(a) \/ WorkerMonitor(a) \/ ProtectEnds(a) \/ WorkerRecheck(a)
           \/ TaskReconcile(a) \/ TaskFails(a)
  PROVE  TypeOK'
<1> USE DEF TaskTurns, ToTask, Ends, AskAgain, IdleTask, ReadingTask
<1>1. a \in {"worker", "run", "reconcile"}
  BY LiveAssumption
<1>2. TaskTurns(a)
  <2>1. CASE StartTask(a)
    <3>1. FirstStep[a] \in ReadingTask
      BY <1>1 DEF FirstStep
    <3> QED  BY <2>1, <3>1 DEF StartTask
  <2>2. CASE WorkerMonitor(a)  BY <2>2 DEF WorkerMonitor
  <2>3. CASE ProtectEnds(a)    BY <2>3 DEF ProtectEnds
  <2>4. CASE WorkerRecheck(a)  BY <2>4 DEF WorkerRecheck
  <2>5. CASE TaskReconcile(a)  BY <2>5 DEF TaskReconcile
  <2>6. CASE TaskFails(a)      BY <2>6 DEF TaskFails
  <2> QED  BY <2>1, <2>2, <2>3, <2>4, <2>5, <2>6
<1>3. task' \in [Tasks -> Cycles]
  BY <1>2, TaskTurnsTyped
<1>4. /\ UNCHANGED <<pos, wire, registry, call, crashes>>
      /\ <<reconciled, armed, authorized, beating, halted>>' \in
           BOOLEAN \X BOOLEAN \X BOOLEAN \X BOOLEAN \X BOOLEAN
  BY DEF TypeOK, StartTask, WorkerMonitor, ProtectEnds, WorkerRecheck, TaskReconcile,
         TaskFails, gates, broker, ReconcileSafe
<1> QED  BY <1>3, <1>4 DEF TypeOK

\* The walk of the engine through the positions.
LEMMA WalkTyped ==
  ASSUME TypeOK, NEW a \in Tasks,
         Protect(a) \/ StopSent(a)
           \/ \E t \in Orders, bid \in Bids : ProtectOne(a, t, bid)
  PROVE  TypeOK'
<1>1. CASE Protect(a)
  <2> DEFINE todo == {t \in Tickets(task[a].book) : IsOpen(TaskUsed(a)[t])}
  <2>1. task[a].book \in Seq(Records)
    BY CycleTyped DEF Cycles
  <2>2. todo \in SUBSET Orders
    BY <2>1, TicketsAreOrders
  <2>3. task' = [task EXCEPT ![a] = [task[a] EXCEPT !.step = "walk", !.todo = todo]]
    BY <1>1 DEF Protect
  <2>4. task' \in [Tasks -> Cycles]
    <3> HIDE DEF todo
    <3>1. [task[a] EXCEPT !.step = "walk", !.todo = todo] \in Cycles
      BY <2>2, CycleTyped DEF Cycles
    <3> QED  BY <2>3, <3>1, CycleReplaced
  <2> QED  BY <1>1, <2>4 DEF Protect, TypeOK, broker, gates
<1>2. CASE StopSent(a)
  <2>1. task' = [task EXCEPT ![a] = [task[a] EXCEPT !.step = "walk", !.ticket = {}, !.stop = 0]]
    BY <1>2 DEF StopSent
  <2>2. [task[a] EXCEPT !.step = "walk", !.ticket = {}, !.stop = 0] \in Cycles
    BY CycleTyped DEF Cycles
  <2>3. task' \in [Tasks -> Cycles]
    BY <2>1, <2>2, CycleReplaced
  <2> QED  BY <1>2, <2>3 DEF StopSent, TypeOK, broker, gates
<1>3. ASSUME NEW t \in Orders, NEW bid \in Bids, ProtectOne(a, t, bid)
      PROVE  TypeOK'
  <2>1. TaskUsed(a)[t] \in Positions /\ bid \in Nat
    BY LiveAssumption DEF TypeOK, Cycles, SeenAt, TaskUsed
  <2>2. \A s \in NewStops(TaskUsed(a)[t], bid) : s \in Nat
    BY <2>1, NewStopsPositive
  <2> DEFINE left == task[a].todo \ {t}
  <2>3. left \in SUBSET Orders
    BY CycleTyped DEF Cycles
  <2>4. CASE UNCHANGED wire /\ task' = [task EXCEPT ![a] = [task[a] EXCEPT !.todo = left]]
    <3> HIDE DEF left
    <3>1. [task[a] EXCEPT !.todo = left] \in Cycles
      BY <2>3, CycleTyped DEF Cycles
    <3>2. task' \in [Tasks -> Cycles]
      BY <2>4, <3>1, CycleReplaced
    <3> QED  BY <1>3, <2>4, <3>2 DEF ProtectOne, TypeOK, gates
  <2>5. ASSUME NEW s \in NewStops(TaskUsed(a)[t], bid),
               wire' = wire \cup {StopMessage(a, t, s)},
               task' = [task EXCEPT ![a] = [task[a] EXCEPT !.todo = left, !.step = "modify",
                                             !.ticket = {t}, !.stop = s]]
        PROVE  TypeOK'
    <3>1. s \in Nat /\ {t} \in SUBSET Orders
      BY <2>2
    <3> HIDE DEF left
    <3> DEFINE c == [task[a] EXCEPT !.todo = left, !.step = "modify", !.ticket = {t},
                                    !.stop = s]
    <3>2. task' \in [Tasks -> Cycles]
      <4>1. c \in Cycles
        BY <2>3, <3>1, CycleTyped DEF Cycles
      <4> QED  BY <2>5, <4>1, CycleReplaced
    <3>3. StopMessage(a, t, s) \in Messages
      BY <3>1 DEF StopMessage, Messages
    <3> QED  BY <1>3, <2>5, <3>2, <3>3 DEF ProtectOne, TypeOK, gates
  <2> DEFINE news == {s \in NewStops(TaskUsed(a)[t], bid) : ProtectionEnabled}
  <2>6. \/ task' = [task EXCEPT ![a].todo = left] /\ UNCHANGED wire
        \/ \E s \in news :
             /\ task' = [task EXCEPT ![a].todo = left, ![a].step = "modify",
                                     ![a].ticket = {t}, ![a].stop = s]
             /\ wire' = wire \cup {StopMessage(a, t, s)}
    BY <1>3 DEF ProtectOne
  <2>7. CASE task' = [task EXCEPT ![a].todo = left] /\ UNCHANGED wire
    BY <2>4, <2>7
  <2>8. ASSUME NEW s \in news, wire' = wire \cup {StopMessage(a, t, s)},
               task' = [task EXCEPT ![a].todo = left, ![a].step = "modify",
                                    ![a].ticket = {t}, ![a].stop = s]
        PROVE  TypeOK'
    <3>1. s \in NewStops(TaskUsed(a)[t], bid)
      OBVIOUS
    <3>2. task' = [task EXCEPT ![a] = [task[a] EXCEPT !.todo = left, !.step = "modify",
                                        !.ticket = {t}, !.stop = s]]
      BY <2>8
    <3> QED  BY <2>5, <2>8, <3>1, <3>2
  <2> QED  BY <2>6, <2>7, <2>8
<1> QED  BY <1>1, <1>2, <1>3

\* The broker.
LEMMA BrokerTyped ==
  ASSUME TypeOK,
         \/ \E o \in Orders : Fill(o) \/ Refuse(o) \/ Close(o)
         \/ \E m \in wire, moved \in BOOLEAN : m.by \in Tasks /\ MoveStop(m, moved)
  PROVE  TypeOK'
<1>1. ASSUME NEW o \in Orders, Fill(o)
      PROVE  TypeOK'
  <2>1. PICK v \in 1 .. Terms[o].volume, s \in {Terms[o].stop, 0} :
          pos' = [pos EXCEPT ![o] = Position("open", Terms[o].side, Terms[o].entry, v, s)]
    BY <1>1 DEF Fill
  <2>2. Position("open", Terms[o].side, Terms[o].entry, v, s) \in Positions
    BY <2>1, TermsTyped DEF Position, Positions
  <2>3. pos' \in [Orders -> Positions]
    BY <2>1, <2>2 DEF TypeOK
  <2> QED  BY <1>1, <2>3 DEF Fill, TypeOK, gates
<1>2. ASSUME NEW o \in Orders, Refuse(o) \/ Close(o)
      PROVE  TypeOK'
  <2>1. pos[o] \in Positions /\ pos \in [Orders -> Positions]
    BY DEF TypeOK
  <2>2. PICK w \in {"refused", "closed"} : pos' = [pos EXCEPT ![o] = [pos[o] EXCEPT !.status = w]]
    BY <1>2 DEF Refuse, Close
  <2>3. [pos[o] EXCEPT !.status = w] \in Positions
    BY <2>1 DEF Positions
  <2>4. pos' \in [Orders -> Positions]
    BY <2>1, <2>2, <2>3
  <2> QED  BY <1>2, <2>4 DEF Refuse, Close, TypeOK, gates
<1>3. ASSUME NEW m \in wire, NEW moved \in BOOLEAN, m.by \in Tasks, MoveStop(m, moved)
      PROVE  TypeOK'
  <2>1. m \in Messages
    BY DEF TypeOK
  <2>2. pos' \in [Orders -> Positions]
    <3>1. m.order \in Orders /\ m.stop \in Nat
      BY <2>1 DEF Messages
    <3>2. pos[m.order] \in Positions /\ pos \in [Orders -> Positions]
      BY <3>1 DEF TypeOK
    <3>3. [pos[m.order] EXCEPT !.stop = m.stop] \in Positions
      BY <3>1, <3>2 DEF Positions
    <3>4. \/ pos' = pos
          \/ pos' = [pos EXCEPT ![m.order] = [pos[m.order] EXCEPT !.stop = m.stop]]
      BY <1>3 DEF MoveStop
    <3> QED  BY <3>1, <3>2, <3>3, <3>4
  <2>3. task' \in [Tasks -> Cycles]
    <3>1. \/ task' = task
          \/ task' = [task EXCEPT ![m.by] = [task[m.by] EXCEPT !.modified = TRUE]]
      BY <1>3 DEF MoveStop
    <3>2. task[m.by] \in Cycles /\ [task[m.by] EXCEPT !.modified = TRUE] \in Cycles
      BY <1>3, CycleTyped DEF Cycles
    <3> QED  BY <1>3, <3>1, <3>2, CycleReplaced DEF TypeOK
  <2> QED  BY <1>3, <2>2, <2>3 DEF MoveStop, TypeOK, gates
<1> QED  BY <1>1, <1>2, <1>3

LEMMA StepTyped ==
  ASSUME TypeOK, [Next]_vars,
         \A o \in Orders : call[o].step = "verify" => pos[o].volume > 0
  PROVE  TypeOK'
<1>1. ASSUME NEW b \in BOOLEAN, SetArmed(b) \/ SetAuthorized(b) \/ SetHalted(b)
      PROVE  TypeOK'
  BY <1>1 DEF TypeOK, SetArmed, SetAuthorized, SetHalted, broker
<1>2. CASE HeartbeatAges \/ ClearReconciliation
  BY <1>2 DEF TypeOK, HeartbeatAges, ClearReconciliation, broker
<1>3. ASSUME NEW o \in Orders, Submit(o) \/ CallStep(o)
      PROVE  TypeOK'
  <2>1. CASE Submit(o)        BY <2>1, CallStepsTyped
  <2>2. CASE FinalMonitor(o)
    <3>1. CallTurns(o) /\ registry' = registry
      BY <2>2 DEF FinalMonitor, CallTurns, To, CallSteps, Over
    <3>2. call' \in [Orders -> Calls]
      BY <3>1, CallTurnsTyped DEF TypeOK
    <3>3. wire' \subseteq Messages
      BY <2>2 DEF FinalMonitor, TypeOK, Messages, OrderMessage
    <3> QED  BY <2>2, <3>2, <3>3 DEF FinalMonitor, TypeOK, gates
  <2>3. CASE Verify(o)        BY <2>3, VerifyTyped
  <2>4. CASE TakeReading(o)   BY <2>4, TakeReadingTyped
  <2> QED  BY <1>3, <2>1, <2>2, <2>3, <2>4, CallStepsTyped DEF CallStep
<1>4. ASSUME NEW o \in Orders, OrderExecuted(o) \/ Close(o)
      PROVE  TypeOK'
  BY <1>4, BrokerTyped DEF OrderExecuted
<1>5. ASSUME NEW a \in Tasks, StartTask(a) \/ TaskStep(a)
      PROVE  TypeOK'
  BY <1>5, TaskStepsTyped, WalkTyped, TakeTaskReadingTyped DEF TaskStep
<1>6. ASSUME NEW a \in Tasks, StopExecuted(a)
      PROVE  TypeOK'
  BY <1>6, BrokerTyped DEF StopExecuted
<1>7. CASE Crash
  <2>1. Call("lost", <<>>) \in Calls
    BY NothingTyped, EmptyBook DEF Calls, Call, Asked, SeenAt, CallSteps, Over
  <2>2. call' \in [Orders -> Calls]
    BY <1>7, <2>1 DEF Crash, TypeOK
  <2>3. IdleTask \in Cycles
    BY NothingTyped, EmptyBook DEF IdleTask, Task, Cycles, Asked, SeenAt
  <2>4. task' \in [Tasks -> Cycles]
    BY <1>7, <2>3 DEF Crash
  <2>5. crashes' \in 0 .. MaxCrashes
    BY <1>7, LiveAssumption DEF Crash, TypeOK
  <2> QED  BY <1>7, <2>2, <2>4, <2>5, EmptyBook DEF Crash, TypeOK, broker
<1>8. CASE UNCHANGED vars
  BY <1>8 DEF vars, TypeOK
<1> QED  BY <1>1, <1>2, <1>3, <1>4, <1>5, <1>6, <1>7, <1>8 DEF Next

LEMMA InitTyped == Init => TypeOK
<1>1. Call("idle", <<>>) \in Calls
  BY NothingTyped, EmptyBook DEF Calls, Call, Asked, SeenAt, CallSteps
<1>2. IdleTask \in Cycles
  BY NothingTyped, EmptyBook DEF IdleTask, Task, Cycles, Asked, SeenAt
<1> SUFFICES ASSUME Init
             PROVE  TypeOK
  OBVIOUS
<1>3. call \in [Orders -> Calls] /\ task \in [Tasks -> Cycles]
  BY <1>1, <1>2 DEF Init
<1>4. crashes \in 0 .. MaxCrashes
  BY LiveAssumption DEF Init
<1>5. pos \in [Orders -> Positions] /\ wire \subseteq Messages /\ registry \in Seq(Records)
  BY NothingTyped, EmptyBook DEF Init
<1>6. <<reconciled, armed, authorized, beating, halted>> \in
        BOOLEAN \X BOOLEAN \X BOOLEAN \X BOOLEAN \X BOOLEAN
  BY DEF Init
<1> QED  BY <1>3, <1>4, <1>5, <1>6 DEF TypeOK

-----------------------------------------------------------------------------
(* Every step has one of the effects                                       *)

LEMMA StepHasEffect ==
  ASSUME TypeOK, StopsPositive, [Next]_vars
  PROVE  Effect
<1> USE DEF broker, gates
<1>1. ASSUME NEW b \in BOOLEAN, SetArmed(b) \/ SetAuthorized(b) \/ SetHalted(b)
      PROVE  Quiet
  BY <1>1 DEF Quiet, SetArmed, SetAuthorized, SetHalted
<1>2. CASE HeartbeatAges \/ ClearReconciliation
  BY <1>2 DEF Effect, Quiet, HeartbeatAges, ClearReconciliation
<1>3. ASSUME NEW o \in Orders, Submit(o) \/ CallStep(o)
      PROVE  CallMoves(o) \/ Leaves(o) \/ Registers(o) \/ TakeReading(o)
  <2> USE DEF CallMoves, To, ToWith, BeforeSend, CallSteps, Over, ReadingCall
  <2>1. CASE Submit(o)         BY <2>1 DEF Submit
  <2>2. CASE Heartbeat(o)      BY <2>2 DEF Heartbeat
  <2>3. CASE Quote(o)          BY <2>3 DEF Quote
  <2>4. CASE GateReconcile(o)  BY <2>4 DEF GateReconcile
  <2>5. CASE GateMonitor(o)    BY <2>5 DEF GateMonitor
  <2>6. CASE OrderCheck(o)     BY <2>6 DEF OrderCheck
  <2>7. CASE FinalMonitor(o)   BY <2>7 DEF FinalMonitor, Leaves
  <2>8. CASE OrderSent(o)      BY <2>8 DEF OrderSent
  <2>9. CASE Verify(o)
    <3>1. \A t \in Candidates(Used(o), Terms[o].side, Terms[o].volume) :
            t \in Orders /\ IsOpen(Used(o)[t])
      BY DEF Candidates, Used, TypeOK, Calls, SeenAt
    <3> QED  BY <2>9, <3>1 DEF Verify, NotFound, Registers
  <2>10. CASE PostMonitor(o)   BY <2>10 DEF PostMonitor
  <2>11. CASE PostReconcile(o) BY <2>11 DEF PostReconcile
  <2>12. CASE CallReadFails(o) BY <2>12 DEF CallReadFails
  <2> QED
    BY <1>3, <2>1, <2>2, <2>3, <2>4, <2>5, <2>6, <2>7, <2>8, <2>9, <2>10, <2>11, <2>12
    DEF CallStep
<1>4. ASSUME NEW o \in Orders, OrderExecuted(o) \/ Close(o)
      PROVE  Fill(o) \/ Refuse(o) \/ Close(o)
  BY <1>4 DEF OrderExecuted
<1>5. ASSUME NEW a \in Tasks, StartTask(a) \/ TaskStep(a)
      PROVE  Quiet \/ StopAsked
  <2>1. ASSUME NEW t \in Orders, NEW bid \in Bids, ProtectOne(a, t, bid)
        PROVE  Quiet \/ StopAsked
    <3>1. TaskUsed(a)[t] \in Positions /\ bid \in Nat
      BY LiveAssumption DEF TypeOK, Cycles, SeenAt, TaskUsed
    <3>2. \A s \in NewStops(TaskUsed(a)[t], bid) : s \in Nat /\ s > 0
      BY <3>1, NewStopsPositive
    <3>3. \A s \in Nat : StopMessage(a, t, s) \in Messages
      BY DEF StopMessage, Messages
    <3>4. UNCHANGED <<pos, registry, call>>
      BY <2>1 DEF ProtectOne
    <3>5. \/ UNCHANGED wire
          \/ \E s \in NewStops(TaskUsed(a)[t], bid) : wire' = wire \cup {StopMessage(a, t, s)}
      BY <2>1 DEF ProtectOne
    <3> QED  BY <3>2, <3>3, <3>4, <3>5 DEF Quiet, StopAsked, StopMessage
  <2> QED
    BY <1>5, <2>1
    DEF Quiet, TaskStep, StartTask, WorkerMonitor, Protect, StopSent, ProtectEnds,
        WorkerRecheck, TaskReconcile, TaskFails, TakeTaskReading
<1>6. ASSUME NEW a \in Tasks, StopExecuted(a)
      PROVE  StopMoved
  BY <1>6 DEF StopExecuted, MoveStop, StopMoved
<1>7. CASE UNCHANGED vars
  BY <1>7 DEF vars, Effect, Quiet
<1> QED  BY <1>1, <1>2, <1>3, <1>4, <1>5, <1>6, <1>7 DEF Next, Effect

-----------------------------------------------------------------------------
(* The broker's side: orders are executed once, readings stay true         *)

LEMMA MessagesApart ==
  ASSUME NEW o \in Orders, NEW p \in Orders, OrderMessage(o) = OrderMessage(p)
  PROVE  o = p
BY DEF OrderMessage

\* A moved stop changes a position's stop, to a price, and nothing else.
LEMMA StopMovedEffect ==
  ASSUME TypeOK, StopsPositive, StopMoved, NEW o \in Orders
  PROVE  /\ pos'[o].status = pos[o].status /\ pos'[o].volume = pos[o].volume
         /\ pos[o].stop > 0 => pos'[o].stop > 0
<1>1. PICK m \in wire :
        /\ m.kind = "stop"
        /\ \/ pos' = pos
           \/ pos' = [pos EXCEPT ![m.order] = [pos[m.order] EXCEPT !.stop = m.stop]]
  BY DEF StopMoved
<1>2. m.stop > 0 /\ m.order \in Orders
  BY <1>1 DEF StopsPositive, TypeOK, Messages
<1>3. pos[m.order] \in Positions /\ pos \in [Orders -> Positions]
  BY <1>2 DEF TypeOK
<1>4. CASE o = m.order
  <2>1. pos'[o] = pos[o] \/ pos'[o] = [pos[o] EXCEPT !.stop = m.stop]
    BY <1>1, <1>3, <1>4
  <2> QED  BY <1>2, <1>3, <1>4, <2>1 DEF Positions
<1>5. CASE o # m.order
  BY <1>1, <1>3, <1>5
<1> QED  BY <1>4, <1>5

LEMMA SentOnceKept ==
  ASSUME TypeOK, SentOnce, StopsPositive, Effect
  PROVE  SentOnce'
<1> USE DEF BeforeSend, AfterFill, Opened
<1>1. CASE Quiet
  BY <1>1 DEF Quiet, SentOnce, OrderMessage
<1>2. CASE StopAsked
  <2>1. PICK m : m.kind = "stop" /\ wire' = wire \cup {m}
    BY <1>2 DEF StopAsked
  <2>2. \A o \in Orders : OrderMessage(o) \in wire' <=> OrderMessage(o) \in wire
    BY <2>1 DEF OrderMessage
  <2>3. UNCHANGED <<pos, call>>
    BY <1>2 DEF StopAsked
  <2> QED  BY <2>2, <2>3 DEF SentOnce
<1>3. CASE StopMoved
  <2>1. PICK m \in wire : m.kind = "stop" /\ wire' = wire \ {m}
    BY <1>3 DEF StopMoved
  <2>2. \A o \in Orders : OrderMessage(o) \in wire' <=> OrderMessage(o) \in wire
    BY <2>1 DEF OrderMessage
  <2>3. \A o \in Orders : pos'[o].status = pos[o].status /\ pos'[o].volume = pos[o].volume
    BY <1>3, StopMovedEffect
  <2>4. call' = call
    BY <1>3 DEF StopMoved
  <2> QED  BY <2>2, <2>3, <2>4 DEF SentOnce
<1>4. CASE Crash
  <2>1. \A o \in Orders : call'[o].step = IF call[o].step = "idle" THEN "idle" ELSE "lost"
    BY <1>4 DEF Crash, Call
  <2> QED  BY <1>4, <2>1 DEF Crash, broker, SentOnce, OrderMessage
<1>5. ASSUME NEW o \in Orders, CallMoves(o)
      PROVE  SentOnce'
  <2>1. PICK s \in CallSteps, b \in {<<>>, registry} : CallMoves(o)!(s, b)
    BY <1>5 DEF CallMoves
  <2>2. call'[o].step = s /\ \A p \in Orders \ {o} : call'[p] = call[p]
    BY <2>1 DEF Call, TypeOK
  <2>3. UNCHANGED <<pos, wire>>
    BY <2>1
  <2>4. \A p \in Orders : OrderMessage(p) \in wire' <=> OrderMessage(p) \in wire
    BY <2>3 DEF OrderMessage
  <2>5. s # "send" /\ s # "lost"
    BY <2>1
  <2>6. OrderMessage(o) \notin wire
    BY <2>1 DEF SentOnce
  <2>7. /\ s \in BeforeSend => pos[o].status = "none"
        /\ s \in AfterFill => Opened(pos[o])
    BY <2>1 DEF SentOnce
  <2> QED  BY <2>2, <2>3, <2>4, <2>5, <2>6, <2>7 DEF SentOnce
<1>6. ASSUME NEW o \in Orders, Leaves(o)
      PROVE  SentOnce'
  <2>1. call'[o].step = "send" /\ \A p \in Orders \ {o} : call'[p] = call[p]
    BY <1>6 DEF Leaves, To, Call, TypeOK
  <2>2. \A p \in Orders \ {o} : OrderMessage(p) \in wire' <=> OrderMessage(p) \in wire
    BY <1>6, MessagesApart DEF Leaves
  <2>3. OrderMessage(o) \in wire' /\ pos' = pos /\ call[o].step = "final"
    BY <1>6 DEF Leaves
  <2> QED  BY <2>1, <2>2, <2>3 DEF SentOnce
<1>7. ASSUME NEW o \in Orders, Registers(o)
      PROVE  SentOnce'
  <2>1. call'[o].step = "post" /\ \A p \in Orders \ {o} : call'[p] = call[p]
    BY <1>7 DEF Registers, ToWith, Call, TypeOK
  <2> QED  BY <1>7, <2>1 DEF Registers, SentOnce, OrderMessage
<1>8. ASSUME NEW o \in Orders, TakeReading(o)
      PROVE  SentOnce'
  <2>1. \A p \in Orders : call'[p].step = call[p].step
    BY <1>8 DEF TakeReading, TypeOK, Calls
  <2> QED  BY <1>8, <2>1 DEF TakeReading, broker, SentOnce, OrderMessage
<1>9. ASSUME NEW o \in Orders, Fill(o) \/ Refuse(o)
      PROVE  SentOnce'
  <2>1. \A p \in Orders \ {o} : pos'[p] = pos[p]
    BY <1>9 DEF Fill, Refuse, TypeOK
  <2>2. call' = call /\ OrderMessage(o) \in wire /\ wire' = wire \ {OrderMessage(o)}
    BY <1>9 DEF Fill, Refuse
  <2>3. \A p \in Orders \ {o} : OrderMessage(p) \in wire' <=> OrderMessage(p) \in wire
    BY <2>2, MessagesApart
  <2>4. pos'[o].status = "refused" \/ Opened(pos'[o])
    <3>1. CASE Refuse(o)
      BY <3>1 DEF Refuse, TypeOK, Positions
    <3>2. CASE Fill(o)
      BY <3>2, TermsTyped DEF Fill, TypeOK, Position
    <3> QED  BY <1>9, <3>1, <3>2
  <2>5. call[o].step \in {"send", "lost"}
    BY <2>2 DEF SentOnce
  <2> QED  BY <2>1, <2>2, <2>3, <2>4, <2>5 DEF SentOnce
<1>10. ASSUME NEW o \in Orders, Close(o)
       PROVE  SentOnce'
  <2>1. /\ pos[o].status = "open" /\ pos'[o].status = "closed"
        /\ pos'[o].volume = pos[o].volume
        /\ \A p \in Orders \ {o} : pos'[p] = pos[p]
    BY <1>10 DEF Close, IsOpen, TypeOK, Positions
  <2>2. UNCHANGED <<wire, call>>
    BY <1>10 DEF Close
  <2>3. Opened(pos[o])
    BY <2>1 DEF SentOnce
  <2> QED  BY <2>1, <2>2, <2>3 DEF SentOnce, OrderMessage
<1> QED  BY <1>1, <1>2, <1>3, <1>4, <1>5, <1>6, <1>7, <1>8, <1>9, <1>10 DEF Effect

\* What a step may do to a position that has been opened.
OpenedStays ==
  \A t \in Orders : pos[t].status \in {"open", "closed"} =>
    /\ pos'[t].status \in {"open", "closed"}
    /\ pos[t].stop > 0 => pos'[t].stop > 0

LEMMA OpenedKept ==
  ASSUME TypeOK, SentOnce, StopsPositive, Effect
  PROVE  OpenedStays
<1>1. CASE UNCHANGED pos
  BY <1>1 DEF OpenedStays
<1>2. CASE StopMoved
  BY <1>2, StopMovedEffect DEF OpenedStays
<1>3. ASSUME NEW o \in Orders, Fill(o) \/ Refuse(o)
      PROVE  OpenedStays
  <2>1. pos[o].status = "none"
    BY <1>3 DEF Fill, Refuse, SentOnce
  <2>2. \A p \in Orders \ {o} : pos'[p] = pos[p]
    BY <1>3 DEF Fill, Refuse, TypeOK
  <2> QED  BY <2>1, <2>2 DEF OpenedStays
<1>4. ASSUME NEW o \in Orders, Close(o)
      PROVE  OpenedStays
  BY <1>4 DEF Close, OpenedStays, TypeOK, Positions
<1> QED
  BY <1>1, <1>2, <1>3, <1>4
  DEF Effect, Quiet, StopAsked, Crash, CallMoves, Leaves, Registers, TakeReading, broker

\* The readings of a call after a step: as before, the positions, or none.
LEMMA ReadingAfter ==
  ASSUME TypeOK, Effect, NEW o \in Orders
  PROVE  call'[o].seen \in {call[o].seen, Taken, Failed, Asked}
<1>1. CASE UNCHANGED call
  BY <1>1
<1>2. CASE Crash
  BY <1>2 DEF Crash, Call
<1>3. ASSUME NEW p \in Orders, CallMoves(p) \/ Leaves(p) \/ Registers(p)
      PROVE  call'[o].seen \in {call[o].seen, Asked}
  <2>1. \E s \in CallSteps, b \in {<<>>, registry, registry'} : call' = [call EXCEPT ![p] = Call(s, b)]
    BY <1>3 DEF CallMoves, Leaves, Registers, To, ToWith, CallSteps, ReadingCall
  <2> QED  BY <2>1 DEF Call, TypeOK
<1>4. ASSUME NEW p \in Orders, TakeReading(p)
      PROVE  call'[o].seen \in {call[o].seen, Taken, Failed}
  BY <1>4 DEF TakeReading, Readings, TypeOK, Calls
<1> QED
  BY <1>1, <1>2, <1>3, <1>4
  DEF Effect, Quiet, StopAsked, StopMoved, Fill, Refuse, Close

LEMMA ReadingsTrueKept ==
  ASSUME TypeOK, SentOnce, StopsPositive, ReadingsTrue, Effect
  PROVE  ReadingsTrue'
<1> SUFFICES ASSUME NEW o \in Orders, NEW t \in Orders, IsOpen(call'[o].seen.at[t])
             PROVE  /\ pos'[t].status \in {"open", "closed"}
                    /\ call'[o].seen.at[t].stop > 0 => pos'[t].stop > 0
  BY DEF ReadingsTrue, IsOpen
<1>1. OpenedStays
  BY OpenedKept
<1>2. CASE call'[o].seen = call[o].seen
  BY <1>1, <1>2 DEF ReadingsTrue, OpenedStays
<1>3. CASE call'[o].seen = Taken
  BY <1>1, <1>3 DEF Taken, IsOpen, OpenedStays
<1>4. CASE call'[o].seen \in {Failed, Asked}
  <2>1. ~ IsOpen(Nothing[t])
    BY DEF Nothing, NoPosition, Position, IsOpen
  <2> QED  BY <1>4, <2>1 DEF Failed, Asked
<1> QED  BY <1>2, <1>3, <1>4, ReadingAfter

LEMMA RegisteredKept ==
  ASSUME TypeOK, SentOnce, StopsPositive, ReadingsTrue, RegisteredIsProtected, Effect
  PROVE  RegisteredIsProtected'
<1>1. OpenedStays
  BY OpenedKept
<1>2. Tickets(registry) \subseteq Orders
  BY TicketsAreOrders DEF TypeOK
<1>3. CASE UNCHANGED registry
  BY <1>1, <1>2, <1>3 DEF RegisteredIsProtected, OpenedStays
<1>4. CASE Crash
  BY <1>4, EmptyBook DEF Crash, RegisteredIsProtected
<1>5. ASSUME NEW o \in Orders, Registers(o)
      PROVE  RegisteredIsProtected'
  <2>1. PICK t \in Orders :
          /\ IsOpen(Used(o)[t]) /\ ProtectionValid(Used(o)[t])
          /\ registry' = Register(registry,
                            Record(Client[o], t, pos[o].volume, Used(o)[t].stop))
    BY <1>5 DEF Registers
  <2> DEFINE r == Record(Client[o], t, pos[o].volume, Used(o)[t].stop)
  <2>2. call[o].step = "verify" /\ UNCHANGED pos
    BY <1>5 DEF Registers
  <2>3. r \in Records /\ r.ticket = t
    <3>1. Used(o)[t] \in Positions /\ Used(o)[t].stop > 0
      BY <2>1 DEF TypeOK, Calls, SeenAt, Used, ProtectionValid
    <3>2. pos[o].volume \in Nat /\ pos[o].volume > 0
      BY <2>2 DEF TypeOK, Positions, SentOnce, AfterFill, Opened
    <3> QED  BY <3>1, <3>2 DEF Record, Records, Positions
  <2>4. Tickets(registry') \subseteq Tickets(registry) \cup {t}
    BY <2>1, <2>3, RegisterEffect DEF TypeOK
  <2>5. pos[t].status \in {"open", "closed"} /\ pos[t].stop > 0
    BY <2>1 DEF ReadingsTrue, Used, ProtectionValid
  <2> QED  BY <2>2, <2>4, <2>5 DEF RegisteredIsProtected
<1> QED
  BY <1>3, <1>4, <1>5
  DEF Effect, Quiet, StopAsked, StopMoved, CallMoves, Leaves, TakeReading, Fill, Refuse, Close

LEMMA StopsPositiveKept ==
  ASSUME StopsPositive, Effect
  PROVE  StopsPositive'
<1>1. ASSUME NEW o \in Orders
      PROVE  OrderMessage(o).kind = "order"
  BY DEF OrderMessage
<1> QED
  BY <1>1
  DEF StopsPositive, Effect, Quiet, StopAsked, StopMoved, Crash, broker, CallMoves, Leaves,
      Registers, TakeReading, Fill, Refuse, Close

LEMMA BrokerInvariant == Spec => []BrokerInv
<1>1. Init => BrokerInv
  <2>1. Init => \A o, t \in Orders : /\ pos[o].status = "none" /\ call[o].step = "idle"
                                     /\ ~ IsOpen(call[o].seen.at[t])
    BY DEF Init, Nothing, NoPosition, Position, Call, Asked, IsOpen
  <2> QED
    BY <2>1, InitTyped, EmptyBook
    DEF Init, BrokerInv, SentOnce, BeforeSend, AfterFill, ReadingsTrue, StopsPositive,
        RegisteredIsProtected
<1>2. BrokerInv /\ [Next]_vars => BrokerInv'
  <2> SUFFICES ASSUME BrokerInv, [Next]_vars
               PROVE  BrokerInv'
    OBVIOUS
  <2>1. Effect
    BY StepHasEffect DEF BrokerInv
  <2>2. \A o \in Orders : call[o].step = "verify" => pos[o].volume > 0
    BY DEF BrokerInv, SentOnce, AfterFill, Opened
  <2>3. TypeOK'
    BY <2>2, StepTyped DEF BrokerInv
  <2>4. SentOnce'
    BY <2>1, SentOnceKept DEF BrokerInv
  <2>5. ReadingsTrue'
    BY <2>1, ReadingsTrueKept DEF BrokerInv
  <2>6. StopsPositive'
    BY <2>1, StopsPositiveKept DEF BrokerInv
  <2>7. RegisteredIsProtected'
    BY <2>1, RegisteredKept DEF BrokerInv
  <2> QED  BY <2>3, <2>4, <2>5, <2>6, <2>7 DEF BrokerInv
<1> QED  BY <1>1, <1>2, PTL DEF Spec

\* The broker, the registry, the gates and every call and cycle keep their
\* types (LiveExecutionGateway.execute with its dictionary of positions).
THEOREM LiveTypeCorrect == Spec => []TypeOK
<1>1. BrokerInv => TypeOK
  BY DEF BrokerInv
<1> QED  BY <1>1, BrokerInvariant, PTL

\* A position that execute has registered had its stop when it was read and
\* keeps one: no verification, stop move, fault or process death leaves a
\* ticket on record whose position has none.
THEOREM RegisteredProtected == Spec => []RegisteredIsProtected
<1>1. BrokerInv => RegisteredIsProtected
  BY DEF BrokerInv
<1> QED  BY <1>1, BrokerInvariant, PTL

-----------------------------------------------------------------------------
(* The registry's side                                                     *)

\* A registration under an unused id adds to the registry.
LEMMA Registration ==
  ASSUME TypeOK, SentOnce, IdsFresh, NEW o \in Orders, Registers(o)
  PROVE  /\ Tickets(registry) \subseteq Tickets(registry')
         /\ Clients(registry') \subseteq Clients(registry) \cup {Client[o]}
<1>1. PICK t \in Orders :
        /\ ProtectionValid(Used(o)[t])
        /\ registry' = Register(registry, Record(Client[o], t, pos[o].volume, Used(o)[t].stop))
  BY DEF Registers
<1> DEFINE r == Record(Client[o], t, pos[o].volume, Used(o)[t].stop)
<1>2. r \in Records /\ r.client = Client[o]
  <2>1. Used(o)[t] \in Positions /\ Used(o)[t].stop > 0
    BY <1>1 DEF TypeOK, Calls, SeenAt, Used, ProtectionValid
  <2>2. pos[o].volume \in Nat /\ pos[o].volume > 0
    BY DEF TypeOK, Positions, SentOnce, AfterFill, Opened, Registers
  <2> QED  BY <2>1, <2>2 DEF Record, Records, Positions
<1>3. r.client \notin Clients(registry)
  BY <1>2 DEF IdsFresh, Registers
<1> HIDE DEF r
<1> QED  BY <1>1, <1>2, <1>3, RegisterEffect DEF TypeOK, r

\* How the registry changes.
LEMMA RegistryAfter ==
  ASSUME Effect
  PROVE  UNCHANGED registry \/ Crash \/ \E o \in Orders : Registers(o)
BY DEF Effect, Quiet, StopAsked, StopMoved, CallMoves, Leaves, TakeReading, Fill, Refuse, Close

\* How a call's step and its copy of the registry change.
LEMMA CallAfter ==
  ASSUME TypeOK, Effect, ~ Crash, NEW o \in Orders
  PROVE  \/ call'[o].step = call[o].step /\ call'[o].book = call[o].book
         \/ /\ CallMoves(o) \/ Leaves(o) \/ Registers(o)
            /\ call'[o].book \in {<<>>, registry, registry'}
            /\ call'[o].step # "idle"
<1>1. CASE UNCHANGED call
  BY <1>1
<1>2. ASSUME NEW p \in Orders, CallMoves(p) \/ Leaves(p) \/ Registers(p)
      PROVE  \/ call'[o] = call[o]
             \/ /\ p = o /\ call'[o].book \in {<<>>, registry, registry'}
                /\ call'[o].step # "idle"
  <2>1. \E s \in CallSteps \ {"idle"}, b \in {<<>>, registry, registry'} :
          call' = [call EXCEPT ![p] = Call(s, b)]
    BY <1>2
    DEF CallMoves, Leaves, Registers, To, ToWith, CallSteps, ReadingCall, BeforeSend
  <2> QED  BY <2>1 DEF Call, TypeOK
<1>3. ASSUME NEW p \in Orders, TakeReading(p)
      PROVE  call'[o].step = call[o].step /\ call'[o].book = call[o].book
  BY <1>3 DEF TakeReading, TypeOK, Calls
<1> QED
  BY <1>1, <1>2, <1>3
  DEF Effect, Quiet, StopAsked, StopMoved, Fill, Refuse, Close

LEMMA AfterCrash ==
  ASSUME Crash, NEW o \in Orders
  PROVE  /\ registry' = <<>>
         /\ \/ call[o].step = "idle" /\ call'[o] = call[o]
            \/ call'[o].step = "lost" /\ call'[o].book = <<>>
BY DEF Crash, Call

LEMMA BooksBehindKept ==
  ASSUME TypeOK, SentOnce, IdsFresh, BooksBehind, Effect
  PROVE  BooksBehind'
<1>1. CASE Crash
  BY <1>1, AfterCrash, EmptyBook DEF BooksBehind
<1>2. CASE ~ Crash
  <2>1. Tickets(registry) \subseteq Tickets(registry')
    BY <1>2, RegistryAfter, Registration
  <2>2. ASSUME NEW o \in Orders
        PROVE  /\ Tickets(call'[o].book) \subseteq Tickets(registry')
               /\ call'[o].step = "idle" => Tickets(call'[o].book) = {}
    BY <1>2, <2>1, CallAfter, EmptyBook DEF BooksBehind
  <2> QED  BY <2>2 DEF BooksBehind, Tickets
<1> QED  BY <1>1, <1>2

LEMMA IdsFreshKept ==
  ASSUME DistinctIds, TypeOK, SentOnce, IdsFresh, Effect
  PROVE  IdsFresh'
<1> DEFINE Early == BeforeSend \cup {"send", "verify"}
<1> SUFFICES ASSUME NEW o \in Orders, call'[o].step \in Early
             PROVE  Client[o] \notin Clients(registry')
  BY DEF IdsFresh, BeforeSend, Clients
<1>1. CASE Crash
  BY <1>1, AfterCrash, EmptyBook
<1>2. CASE ~ Crash
  <2>1. call[o].step \in Early /\ ~ Registers(o)
    <3>1. CASE call'[o].step = call[o].step /\ ~ Registers(o)
      BY <3>1
    <3>2. CASE CallMoves(o)
      <4>1. PICK s \in CallSteps, b \in {<<>>, registry} : CallMoves(o)!(s, b)
        BY <3>2 DEF CallMoves
      <4>2. call'[o].step = s
        BY <4>1 DEF Call, TypeOK
      <4> QED  BY <4>1, <4>2 DEF BeforeSend, Registers
    <3>3. CASE Leaves(o)
      BY <3>3 DEF Leaves, BeforeSend, Registers
    <3>4. ~ Registers(o)
      <4>1. Registers(o) => call'[o].step = "post"
        BY DEF Registers, ToWith, Call, TypeOK
      <4> QED  BY <4>1 DEF BeforeSend
    <3> QED  BY <1>2, <3>1, <3>2, <3>3, <3>4, CallAfter
  <2>2. Client[o] \notin Clients(registry)
    BY <2>1 DEF IdsFresh
  <2>3. ASSUME NEW p \in Orders, Registers(p)
        PROVE  Client[o] \notin Clients(registry')
    BY <2>1, <2>2, <2>3, Registration DEF DistinctIds
  <2> QED  BY <1>2, <2>2, <2>3, RegistryAfter
<1> QED  BY <1>1, <1>2

\* A position once executed is open only if it was open before.
LEMMA OpenBefore ==
  ASSUME TypeOK, SentOnce, StopsPositive, Effect, NEW o \in Orders,
         Opened(pos[o]), IsOpen(pos'[o])
  PROVE  IsOpen(pos[o])
<1>1. CASE UNCHANGED pos
  BY <1>1 DEF IsOpen
<1>2. CASE StopMoved
  BY <1>2, StopMovedEffect DEF IsOpen
<1>3. ASSUME NEW p \in Orders, Fill(p) \/ Refuse(p)
      PROVE  IsOpen(pos[o])
  <2>1. p # o
    BY <1>3 DEF Fill, Refuse, SentOnce, Opened
  <2>2. pos'[o] = pos[o]
    BY <1>3, <2>1 DEF Fill, Refuse, TypeOK
  <2> QED  BY <2>2 DEF IsOpen
<1>4. ASSUME NEW p \in Orders, Close(p)
      PROVE  IsOpen(pos[o])
  <2>1. p # o
    BY <1>4 DEF Close, IsOpen, TypeOK, Positions
  <2>2. pos'[o] = pos[o]
    BY <1>4, <2>1 DEF Close, TypeOK
  <2> QED  BY <2>2 DEF IsOpen
<1> QED
  BY <1>1, <1>2, <1>3, <1>4
  DEF Effect, Quiet, StopAsked, Crash, broker, CallMoves, Leaves, Registers, TakeReading

LEMMA OwnPositionSeenKept ==
  ASSUME TypeOK, SentOnce, StopsPositive, OwnPositionSeen, Effect
  PROVE  OwnPositionSeen'
<1> SUFFICES ASSUME NEW o \in Orders, call'[o].step = "post", call'[o].seen.got = "yes",
                    IsOpen(pos'[o])
             PROVE  IsOpen(call'[o].seen.at[o])
  BY DEF OwnPositionSeen, IsOpen
<1>1. ASSUME NEW p \in Orders, CallMoves(p) \/ Leaves(p) \/ Registers(p)
      PROVE  p # o /\ UNCHANGED pos /\ call'[o] = call[o]
  <2>1. \E s \in CallSteps, b \in {<<>>, registry, registry'} :
          call' = [call EXCEPT ![p] = Call(s, b)]
    BY <1>1 DEF CallMoves, Leaves, Registers, To, ToWith, CallSteps, ReadingCall
  <2>2. call'[p].seen.got = "no"
    BY <2>1 DEF Call, Asked, TypeOK
  <2> QED
    BY <1>1, <2>1, <2>2 DEF TypeOK, CallMoves, Leaves, Registers
<1>2. ASSUME NEW p \in Orders, TakeReading(p)
      PROVE  IsOpen(call'[o].seen.at[o])
  <2>1. UNCHANGED pos
    BY <1>2 DEF TakeReading, broker
  <2>2. CASE p = o
    <3>1. call'[o].seen \in {Taken, Failed}
      BY <1>2, <2>2 DEF TakeReading, Readings, TypeOK, Calls
    <3> QED  BY <2>1, <3>1 DEF Taken, Failed, IsOpen
  <2>3. CASE p # o
    <3>1. call'[o] = call[o]
      BY <1>2, <2>3 DEF TakeReading, TypeOK
    <3> QED  BY <2>1, <3>1 DEF OwnPositionSeen, IsOpen
  <2> QED  BY <2>2, <2>3
<1>3. CASE Crash
  BY <1>3, AfterCrash
<1>4. CASE UNCHANGED <<pos, call>>
  BY <1>4 DEF OwnPositionSeen, IsOpen
<1>5. CASE UNCHANGED call
  <2>1. Opened(pos[o])
    BY <1>5 DEF SentOnce, AfterFill
  <2> QED  BY <1>5, <2>1, OpenBefore DEF OwnPositionSeen
<1> QED
  BY <1>1, <1>2, <1>3, <1>4, <1>5
  DEF Effect, Quiet, StopAsked, StopMoved, Fill, Refuse, Close, OwnPositionSeen, IsOpen

LEMMA SettledOnRecordKept ==
  ASSUME TypeOK, SentOnce, StopsPositive, BooksBehind, IdsFresh, OwnPositionSeen,
         SettledOnRecord, Effect
  PROVE  SettledOnRecord'
<1> DEFINE Settled == {"settle", "verified"}
<1> SUFFICES ASSUME NEW o \in Orders, call'[o].step \in Settled, IsOpen(pos'[o])
             PROVE  o \in Tickets(registry')
  BY DEF SettledOnRecord, IsOpen, Tickets
<1>1. ~ Crash
  BY AfterCrash
<1>2. Tickets(registry) \subseteq Tickets(registry')
  BY <1>1, RegistryAfter, Registration
<1>3. CASE call[o].step \in Settled
  <2>1. Opened(pos[o])
    BY <1>3 DEF SentOnce, AfterFill
  <2>2. IsOpen(pos[o])
    BY <2>1, OpenBefore
  <2> QED  BY <1>2, <1>3, <2>2 DEF SettledOnRecord
<1>4. CASE call[o].step \notin Settled
  <2>1. CallMoves(o)
    <3>1. Registers(o) => call'[o].step = "post"
      BY DEF Registers, ToWith, Call, TypeOK
    <3>2. Leaves(o) => call'[o].step = "send"
      BY DEF Leaves, To, Call, TypeOK
    <3> QED  BY <1>1, <1>4, <3>1, <3>2, CallAfter
  <2>2. PICK s \in CallSteps, b \in {<<>>, registry} : CallMoves(o)!(s, b)
    BY <2>1 DEF CallMoves
  <2>3. call'[o].step = s
    BY <2>2 DEF Call, TypeOK
  <2>4. /\ call[o].step = "post" /\ Read(o) /\ MonitorSafe(call[o].book, Used(o))
        /\ UNCHANGED <<pos, registry>>
    BY <1>4, <2>2, <2>3 DEF BeforeSend
  <2>5. IsOpen(Used(o)[o])
    BY <2>4 DEF OwnPositionSeen, Read, Used, IsOpen
  <2>6. DOMAIN Used(o) = Orders
    BY DEF TypeOK, Calls, SeenAt, Used
  <2>7. o \in Tickets(call[o].book)
    BY <2>4, <2>5, <2>6 DEF MonitorSafe
  <2> QED  BY <1>2, <2>7 DEF BooksBehind
<1> QED  BY <1>3, <1>4

LEMMA RegistryInvariant == DistinctIds => (Spec => []RegistryInv)
<1> SUFFICES ASSUME DistinctIds
             PROVE  Spec => []RegistryInv
  OBVIOUS
<1>1. Init => RegistryInv
  <2>1. Init => registry = <<>> /\ \A o \in Orders : call[o] = Call("idle", <<>>)
    BY DEF Init
  <2> QED
    BY <2>1, EmptyBook
    DEF RegistryInv, BooksBehind, IdsFresh, OwnPositionSeen, SettledOnRecord, Call
<1>2. BrokerInv /\ RegistryInv /\ [Next]_vars => RegistryInv'
  <2> SUFFICES ASSUME BrokerInv, RegistryInv, [Next]_vars
               PROVE  RegistryInv'
    OBVIOUS
  <2>1. Effect
    BY StepHasEffect DEF BrokerInv
  <2>2. BooksBehind'
    BY <2>1, BooksBehindKept DEF BrokerInv, RegistryInv
  <2>3. IdsFresh'
    BY <2>1, IdsFreshKept DEF BrokerInv, RegistryInv
  <2>4. OwnPositionSeen'
    BY <2>1, OwnPositionSeenKept DEF BrokerInv, RegistryInv
  <2>5. SettledOnRecord'
    BY <2>1, SettledOnRecordKept DEF BrokerInv, RegistryInv
  <2> QED  BY <2>2, <2>3, <2>4, <2>5 DEF RegistryInv
<1> QED  BY <1>1, <1>2, BrokerInvariant, PTL DEF Spec

\* Where every request has an id of its own, an order that execute reports
\* as verified has its own position on record for as long as it is open,
\* whichever position its verification took for it.
THEOREM VerifiedOnRecord == DistinctIds => (Spec => []VerifiedIsOnRecord)
<1>1. RegistryInv => VerifiedIsOnRecord
  BY DEF RegistryInv, SettledOnRecord, VerifiedIsOnRecord
<1> QED  BY <1>1, RegistryInvariant, PTL

\* The step that sends an order rests on the reading of that call.
LEMMA SendFollowsLook ==
  ASSUME TypeOK, BooksBehind, StopsPositive, [Next]_vars, NEW o \in Orders, Sends(o)
  PROVE  \A t \in Unregistered : ~ IsOpen(call[o].seen.at[t])
<1>1. Effect
  BY StepHasEffect
<1>2. Leaves(o)
  <2>1. ASSUME NEW p \in Orders, Leaves(p)
        PROVE  p = o
    BY <2>1, MessagesApart DEF Leaves, Sends
  <2>2. ~ StopAsked
    BY DEF StopAsked, Sends, OrderMessage
  <2> QED
    BY <1>1, <2>1, <2>2
    DEF Effect, Quiet, StopMoved, Crash, broker, CallMoves, Registers, TakeReading, Fill,
        Refuse, Close, Sends
<1>3. MonitorSafe(call[o].book, Used(o)) /\ DOMAIN Used(o) = Orders
  BY <1>2 DEF Leaves, TypeOK, Calls, SeenAt, Used
<1>4. \A t \in Orders : IsOpen(Used(o)[t]) => t \in Tickets(registry)
  BY <1>3 DEF MonitorSafe, BooksBehind
<1> QED  BY <1>4 DEF Unregistered, Used

\* Where every request has an id of its own, no order is sent past an open
\* position that is not on record and was open at the order's last look.
THEOREM OrphansBlock == DistinctIds => (Spec => NoSendPastOrphan)
<1> SUFFICES ASSUME DistinctIds
             PROVE  Spec => NoSendPastOrphan
  OBVIOUS
<1>1. BrokerInv /\ RegistryInv /\ [Next]_vars =>
        [\A o \in Orders : Sends(o) =>
           \A t \in Unregistered : ~ IsOpen(call[o].seen.at[t])]_vars
  BY SendFollowsLook DEF BrokerInv, RegistryInv
<1> QED  BY <1>1, BrokerInvariant, RegistryInvariant, PTL DEF Spec, NoSendPastOrphan

-----------------------------------------------------------------------------
(* One engine at a time only tightens stops                                *)

\* The tasks that may send stops; a run by hand beside the worker would be a
\* second one.
EngineTasks == Tasks \ {"reconcile"}

OneEngine == \A a, b \in EngineTasks : a = b

\* t is a stop nearer to the price than s.
Tightens(side, s, t) == IF side = "buy" THEN t > s ELSE t < s

StopsFor(t) == {m \in wire : m.kind = "stop" /\ m.order = t}

\* No call and no record leads to position t any more, and none will while
\* it is open: whoever sends an order must have seen it.
OutOfBooks(t) ==
  /\ t \notin Tickets(registry)
  /\ \A o \in Orders :
       /\ call[o].step \notin {"send", "verify"}
       /\ call[o].step = "final" =>
            /\ t \notin Tickets(call[o].book)
            /\ Read(o) => IsOpen(Used(o)[t])

OutOfTasks(t) ==
  \A a \in Tasks : t \notin Tickets(task[a].book) \cup task[a].todo \cup task[a].ticket

\* A stop on its way to the broker betters the position's; its engine waits
\* for the answer, or it was left behind by a dead process, which the
\* position has been an orphan of ever since.  It is the only one.
MessagesTighten ==
  \A m \in wire : m.kind = "stop" =>
    /\ m.by \in EngineTasks
    /\ pos[m.order].status \in {"open", "closed"}
    /\ IsOpen(pos[m.order]) =>
         /\ Tightens(pos[m.order].side, pos[m.order].stop, m.stop)
         /\ Awaited(m) \/ (OutOfBooks(m.order) /\ OutOfTasks(m.order))
         /\ StopsFor(m.order) = {m}

\* The positions the engine has yet to deal with.
Serving(a) ==
  IF task[a].step = "protect"
    THEN {t \in Tickets(task[a].book) : TaskRead(a) /\ IsOpen(TaskUsed(a)[t])}
    ELSE task[a].todo

\* What a task has read of them is still so.
ServedAsRead ==
  \A a \in Tasks :
    /\ a = "reconcile" => task[a].step \in {"idle", "reconcile"}
    /\ task[a].step \notin {"walk", "modify"} => task[a].todo = {}
    /\ task[a].step # "modify" => task[a].ticket = {}
    /\ \A t \in Serving(a) :
         /\ pos[t].status \in {"open", "closed"} /\ t \notin task[a].ticket
         /\ IsOpen(pos[t]) => /\ TaskUsed(a)[t].stop = pos[t].stop
                              /\ TaskUsed(a)[t].side = pos[t].side
                              /\ StopsFor(t) = {}

EngineInv == MessagesTighten /\ ServedAsRead

\* What a step does to a task, to the stops under way and to the positions.
Others(a) == \A x \in Tasks \ {a} : task'[x] = task[x]

SameCycle(a) ==
  /\ task'[a].step = task[a].step /\ task'[a].book = task[a].book
  /\ task'[a].seen = task[a].seen /\ task'[a].todo = task[a].todo
  /\ task'[a].ticket = task[a].ticket /\ task'[a].stop = task[a].stop

Elsewhere ==
  /\ UNCHANGED task
  /\ \A m \in wire \cup wire' : m.kind = "stop" => (m \in wire <=> m \in wire')
  /\ \A t \in Orders : pos[t].status \in {"open", "closed"} =>
       /\ pos'[t].status \in {"open", "closed"}
       /\ IsOpen(pos'[t]) => pos'[t] = pos[t]

Begins(a) ==
  /\ Others(a) /\ UNCHANGED <<pos, wire>>
  /\ task[a].step # "modify"
  /\ task'[a].step \in ReadingTask \cup {"idle"}
  /\ a = "reconcile" /\ task[a].step \in {"idle", "reconcile"} =>
       task'[a].step \in {"idle", "reconcile"}
  /\ task'[a].book \in {<<>>, registry} /\ task'[a].seen = Asked
  /\ task'[a].todo = {} /\ task'[a].ticket = {}

Looks(a) ==
  /\ Others(a) /\ UNCHANGED <<pos, wire>>
  /\ task[a].step \in ReadingTask /\ task'[a].step = task[a].step
  /\ task'[a].book = task[a].book
  /\ task'[a].todo = task[a].todo /\ task'[a].ticket = task[a].ticket
  /\ task'[a].seen.got = "yes" => task'[a].seen = Taken

Plans(a) ==
  /\ Others(a) /\ UNCHANGED <<pos, wire>>
  /\ task[a].step = "protect" /\ TaskRead(a) /\ task'[a].step = "walk"
  /\ task'[a].todo = {t \in Tickets(task[a].book) : IsOpen(TaskUsed(a)[t])}
  /\ task'[a].book = task[a].book /\ task'[a].seen = task[a].seen
  /\ task'[a].ticket = task[a].ticket

Passes(a) ==
  /\ Others(a) /\ UNCHANGED <<pos, wire>>
  /\ task[a].step \in {"walk", "modify"} /\ task'[a].step = "walk"
  /\ task'[a].todo \subseteq task[a].todo
  /\ task'[a].book = task[a].book /\ task'[a].seen = task[a].seen
  /\ task[a].step = "walk" => task'[a].ticket = task[a].ticket
  /\ task[a].step = "modify" =>
       /\ task'[a].ticket = {}
       /\ \A t \in task[a].ticket : StopMessage(a, t, task[a].stop) \notin wire

AsksFor(a, t, s) ==
  /\ Others(a) /\ UNCHANGED pos
  /\ wire' = wire \cup {StopMessage(a, t, s)}
  /\ task[a].step = "walk" /\ t \in task[a].todo
  /\ task'[a].step = "modify" /\ task'[a].todo = task[a].todo \ {t}
  /\ task'[a].ticket = {t} /\ task'[a].stop = s
  /\ task'[a].book = task[a].book /\ task'[a].seen = task[a].seen
  /\ Tightens(TaskUsed(a)[t].side, TaskUsed(a)[t].stop, s)

Executes(m) ==
  /\ m \in wire /\ m.kind = "stop" /\ wire' = wire \ {m}
  /\ \/ pos' = pos
     \/ /\ IsOpen(pos[m.order])
        /\ pos' = [pos EXCEPT ![m.order] = [pos[m.order] EXCEPT !.stop = m.stop]]
  /\ \A a \in Tasks : SameCycle(a)

EngineEffect ==
  \/ Elsewhere \/ Crash
  \/ \E a \in Tasks : \/ Begins(a) \/ Looks(a) \/ Plans(a) \/ Passes(a)
                      \/ \E t \in Orders, s \in Nat : AsksFor(a, t, s)
  \/ \E m \in wire : Executes(m)

\* The engine asks for stops that better the one it has read.
LEMMA NewStopsTighten ==
  ASSUME NEW p \in Positions, NEW bid \in Nat, NEW s \in NewStops(p, bid)
  PROVE  s \in Nat /\ Tightens(p.side, p.stop, s)
<1>1. s \in Nat
  BY NewStopsPositive
<1>2. p.stop > 0 /\ IsBetterStop(p.side, p.stop, s)
  BY DEF NewStops, Proposed, Positions
<1> QED  BY <1>1, <1>2 DEF IsBetterStop, Tightens, Positions, Sides

LEMMA TaskStepEffect ==
  ASSUME TypeOK, NEW a \in Tasks, StartTask(a) \/ TaskStep(a)
  PROVE  \/ Begins(a) \/ Looks(a) \/ Plans(a) \/ Passes(a)
         \/ \E t \in Orders, s \in Nat : AsksFor(a, t, s)
<1> USE DEF broker
<1>1. CASE StartTask(a) \/ WorkerMonitor(a) \/ ProtectEnds(a) \/ WorkerRecheck(a)
             \/ TaskReconcile(a) \/ TaskFails(a)
  <2>1. PICK s \in ReadingTask \cup {"idle"}, b \in {<<>>, registry} :
          /\ \/ task' = [task EXCEPT ![a] = Task(s, b)]
             \/ task' = [task EXCEPT ![a] = [Task(s, b) EXCEPT !.modified = task[a].modified]]
          /\ a = "reconcile" /\ task[a].step \in {"idle", "reconcile"} =>
               s \in {"idle", "reconcile"}
    <3> USE DEF ToTask, Ends, AskAgain, IdleTask, ReadingTask
    <3>1. CASE StartTask(a)
      <4>1. FirstStep[a] \in ReadingTask /\ (a = "reconcile" => FirstStep[a] = "reconcile")
        BY LiveAssumption DEF FirstStep
      <4> QED  BY <3>1, <4>1 DEF StartTask
    <3>2. CASE WorkerMonitor(a)  BY <3>2 DEF WorkerMonitor
    <3>3. CASE ProtectEnds(a)    BY <3>3 DEF ProtectEnds
    <3>4. CASE WorkerRecheck(a)  BY <3>4 DEF WorkerRecheck
    <3>5. CASE TaskReconcile(a)  BY <3>5 DEF TaskReconcile
    <3>6. CASE TaskFails(a)      BY <3>6 DEF TaskFails
    <3> QED  BY <1>1, <3>1, <3>2, <3>3, <3>4, <3>5, <3>6
  <2>2. /\ Others(a)
        /\ task'[a].step = s /\ task'[a].book = b /\ task'[a].seen = Asked
        /\ task'[a].todo = {} /\ task'[a].ticket = {}
    <3>1. CASE task' = [task EXCEPT ![a] = Task(s, b)]
      <4>1. Others(a) /\ task'[a] = Task(s, b)
        BY <3>1 DEF TypeOK, Others
      <4> QED  BY <4>1 DEF Task
    <3>2. CASE task' = [task EXCEPT ![a] =
                          [Task(s, b) EXCEPT !.modified = task[a].modified]]
      <4>1. /\ Others(a)
            /\ task'[a] = [Task(s, b) EXCEPT !.modified = task[a].modified]
        BY <3>2 DEF TypeOK, Others
      <4> QED  BY <4>1 DEF Task
    <3> QED  BY <2>1, <3>1, <3>2
  <2>3. UNCHANGED <<pos, wire>> /\ task[a].step # "modify"
    BY <1>1 DEF StartTask, WorkerMonitor, ProtectEnds, WorkerRecheck, TaskReconcile,
                TaskFails, ReadingTask
  <2> QED  BY <2>1, <2>2, <2>3 DEF Begins
<1>2. CASE TakeTaskReading(a)
  <2>1. PICK r \in Readings : task' = [task EXCEPT ![a] = [task[a] EXCEPT !.seen = r]]
    BY <1>2 DEF TakeTaskReading
  <2>2. Others(a) /\ task'[a] = [task[a] EXCEPT !.seen = r]
    BY <2>1 DEF TypeOK, Others
  <2>3. r.got = "yes" => r = Taken
    BY DEF Readings, Failed
  <2> QED  BY <1>2, <2>2, <2>3, CycleTyped DEF TakeTaskReading, Looks, Cycles
<1>3. CASE Protect(a)
  <2> DEFINE todo == {t \in Tickets(task[a].book) : IsOpen(TaskUsed(a)[t])}
  <2>1. task' = [task EXCEPT ![a] = [task[a] EXCEPT !.step = "walk", !.todo = todo]]
    BY <1>3 DEF Protect
  <2>2. Others(a) /\ task'[a] = [task[a] EXCEPT !.step = "walk", !.todo = todo]
    <3> HIDE DEF todo
    <3> QED  BY <2>1 DEF TypeOK, Others
  <2>3. /\ task'[a].step = "walk" /\ task'[a].todo = todo
        /\ task'[a].book = task[a].book /\ task'[a].seen = task[a].seen
        /\ task'[a].ticket = task[a].ticket
    <3> HIDE DEF todo
    <3> QED  BY <2>2, CycleTyped DEF Cycles
  <2> QED  BY <1>3, <2>2, <2>3 DEF Protect, Plans
<1>4. CASE StopSent(a)
  <2>1. task' = [task EXCEPT ![a] = [task[a] EXCEPT !.step = "walk", !.ticket = {}, !.stop = 0]]
    BY <1>4 DEF StopSent
  <2>2. Others(a) /\ task'[a] = [task[a] EXCEPT !.step = "walk", !.ticket = {}, !.stop = 0]
    BY <2>1 DEF TypeOK, Others
  <2>3. /\ task'[a].step = "walk" /\ task'[a].ticket = {}
        /\ task'[a].book = task[a].book /\ task'[a].seen = task[a].seen
        /\ task'[a].todo = task[a].todo
    BY <2>2, CycleTyped DEF Cycles
  <2>4. /\ task[a].step = "modify" /\ UNCHANGED <<pos, wire>>
        /\ \A t \in task[a].ticket : StopMessage(a, t, task[a].stop) \notin wire
    BY <1>4 DEF StopSent
  <2>5. Passes(a)
    BY <2>2, <2>3, <2>4 DEF Passes
  <2> QED  BY <2>5
<1>5. ASSUME NEW t \in Orders, NEW bid \in Bids, ProtectOne(a, t, bid)
      PROVE  Passes(a) \/ \E s \in Nat : AsksFor(a, t, s)
  <2>1. TaskUsed(a)[t] \in Positions /\ bid \in Nat
    BY LiveAssumption DEF TypeOK, Cycles, SeenAt, TaskUsed
  <2>2. task[a].step = "walk" /\ t \in task[a].todo /\ UNCHANGED pos
    BY <1>5 DEF ProtectOne
  <2>3. CASE UNCHANGED wire /\ task' = [task EXCEPT ![a].todo = @ \ {t}]
    <3>1. task' = [task EXCEPT ![a] = [task[a] EXCEPT !.todo = task[a].todo \ {t}]]
      BY <2>3
    <3>2. Others(a) /\ task'[a] = [task[a] EXCEPT !.todo = task[a].todo \ {t}]
      BY <3>1 DEF TypeOK, Others
    <3> QED  BY <2>2, <2>3, <3>2, CycleTyped DEF Passes, Cycles
  <2>4. ASSUME NEW s \in NewStops(TaskUsed(a)[t], bid),
               task' = [task EXCEPT ![a].todo = @ \ {t}, ![a].step = "modify",
                                    ![a].ticket = {t}, ![a].stop = s],
               wire' = wire \cup {StopMessage(a, t, s)}
        PROVE  s \in Nat /\ AsksFor(a, t, s)
    <3> DEFINE c == [task[a] EXCEPT !.todo = task[a].todo \ {t}, !.step = "modify",
                                    !.ticket = {t}, !.stop = s]
    <3>1. task' = [task EXCEPT ![a] = c]
      BY <2>4
    <3>2. Others(a) /\ task'[a] = c
      <4> HIDE DEF c
      <4> QED  BY <3>1 DEF TypeOK, Others
    <3>3. s \in Nat /\ Tightens(TaskUsed(a)[t].side, TaskUsed(a)[t].stop, s)
      BY <2>1, NewStopsTighten
    <3>4. /\ c.todo = task[a].todo \ {t} /\ c.step = "modify" /\ c.ticket = {t}
          /\ c.stop = s /\ c.book = task[a].book /\ c.seen = task[a].seen
      BY CycleTyped DEF Cycles
    <3> HIDE DEF c
    <3> QED  BY <2>2, <2>4, <3>2, <3>3, <3>4 DEF AsksFor
  <2> QED  BY <1>5, <2>3, <2>4 DEF ProtectOne
<1> QED  BY <1>1, <1>2, <1>3, <1>4, <1>5 DEF TaskStep

LEMMA MoveExecutes ==
  ASSUME TypeOK, NEW m \in wire, NEW moved \in BOOLEAN, m.by \in Tasks, MoveStop(m, moved)
  PROVE  Executes(m)
<1>1. \A a \in Tasks : SameCycle(a)
  <2>1. CASE UNCHANGED task
    BY <2>1 DEF SameCycle
  <2>2. CASE task' = [task EXCEPT ![m.by].modified = TRUE]
    <3>1. task' = [task EXCEPT ![m.by] = [task[m.by] EXCEPT !.modified = TRUE]]
      BY <2>2
    <3>2. /\ \A a \in Tasks \ {m.by} : task'[a] = task[a]
          /\ task'[m.by] = [task[m.by] EXCEPT !.modified = TRUE]
      BY <3>1 DEF TypeOK
    <3> QED  BY <3>2, CycleTyped DEF SameCycle, Cycles
  <2> QED  BY <2>1, <2>2 DEF MoveStop
<1>2. \/ pos' = pos
      \/ /\ IsOpen(pos[m.order])
         /\ pos' = [pos EXCEPT ![m.order] = [pos[m.order] EXCEPT !.stop = m.stop]]
  BY DEF MoveStop
<1> QED  BY <1>1, <1>2 DEF MoveStop, Executes

LEMMA StepHasEngineEffect ==
  ASSUME BrokerInv, [Next]_vars
  PROVE  EngineEffect
<1> USE DEF broker, gates
<1>1. TypeOK /\ SentOnce
  BY DEF BrokerInv
<1>2. ASSUME UNCHANGED <<pos, task>>,
             UNCHANGED wire \/ \E o \in Orders : wire' = wire \cup {OrderMessage(o)}
      PROVE  Elsewhere
  BY <1>2 DEF Elsewhere, OrderMessage
<1>3. ASSUME NEW b \in BOOLEAN, SetArmed(b) \/ SetAuthorized(b) \/ SetHalted(b)
      PROVE  Elsewhere
  BY <1>2, <1>3 DEF SetArmed, SetAuthorized, SetHalted
<1>4. CASE HeartbeatAges \/ ClearReconciliation
  BY <1>2, <1>4 DEF EngineEffect, HeartbeatAges, ClearReconciliation
<1>5. ASSUME NEW o \in Orders, Submit(o) \/ CallStep(o)
      PROVE  Elsewhere
  BY <1>2, <1>5
  DEF Submit, CallStep, Heartbeat, Quote, GateReconcile, GateMonitor, OrderCheck,
      FinalMonitor, OrderSent, Verify, PostMonitor, PostReconcile, CallReadFails, TakeReading
<1>6. ASSUME NEW o \in Orders, Fill(o) \/ Refuse(o)
      PROVE  Elsewhere
  <2>1. pos[o].status = "none" /\ UNCHANGED task
    BY <1>1, <1>6 DEF Fill, Refuse, SentOnce
  <2>2. \A t \in Orders \ {o} : pos'[t] = pos[t]
    BY <1>1, <1>6 DEF Fill, Refuse, TypeOK
  <2>3. wire' = wire \ {OrderMessage(o)}
    BY <1>6 DEF Fill, Refuse
  <2> QED  BY <2>1, <2>2, <2>3 DEF Elsewhere, OrderMessage
<1>7. ASSUME NEW o \in Orders, Close(o)
      PROVE  Elsewhere
  <2>1. UNCHANGED <<wire, task>> /\ pos'[o].status = "closed"
    BY <1>1, <1>7 DEF Close, TypeOK, Positions
  <2>2. \A t \in Orders \ {o} : pos'[t] = pos[t]
    BY <1>1, <1>7 DEF Close, TypeOK
  <2> QED  BY <2>1, <2>2 DEF Elsewhere, IsOpen
<1>8. ASSUME NEW a \in Tasks, StopExecuted(a)
      PROVE  \E m \in wire : Executes(m)
  BY <1>1, <1>8, MoveExecutes DEF StopExecuted
<1>9. CASE UNCHANGED vars
  BY <1>2, <1>9 DEF vars, EngineEffect
<1> QED
  BY <1>1, <1>3, <1>4, <1>5, <1>6, <1>7, <1>8, <1>9, TaskStepEffect
  DEF Next, OrderExecuted, EngineEffect

\* An open orphan stays one: no call that saw it is let past the monitor.
LEMMA OutOfBooksKept ==
  ASSUME TypeOK, Effect, NEW t \in Orders, IsOpen(pos[t]), OutOfBooks(t)
  PROVE  OutOfBooks(t)'
<1> USE DEF Read, Used
<1>1. CASE UNCHANGED <<registry, call>>
  BY <1>1 DEF OutOfBooks
<1>2. CASE Crash
  <2>1. \A o \in Orders : call'[o].step \in {"idle", "lost"}
    BY <1>2 DEF Crash, Call
  <2> QED  BY <1>2, <2>1, EmptyBook DEF Crash, OutOfBooks
<1>3. ASSUME NEW o \in Orders, CallMoves(o)
      PROVE  OutOfBooks(t)'
  <2>1. PICK s \in CallSteps, b \in {<<>>, registry} : CallMoves(o)!(s, b)
    BY <1>3 DEF CallMoves
  <2>2. /\ call'[o].step = s /\ call'[o].book = b /\ call'[o].seen.got = "no"
        /\ \A p \in Orders \ {o} : call'[p] = call[p]
    BY <2>1 DEF Call, Asked, TypeOK
  <2>3. s \notin {"send", "verify"}
    BY <2>1 DEF OutOfBooks, BeforeSend
  <2>4. t \notin Tickets(b) /\ registry' = registry
    BY <2>1, EmptyBook DEF OutOfBooks
  <2> QED  BY <2>2, <2>3, <2>4 DEF OutOfBooks
<1>4. ASSUME NEW o \in Orders
      PROVE  ~ Leaves(o)
  BY DEF Leaves, OutOfBooks, MonitorSafe, TypeOK, Calls, SeenAt
<1>5. ASSUME NEW o \in Orders
      PROVE  ~ Registers(o)
  BY DEF Registers, OutOfBooks
<1>6. ASSUME NEW o \in Orders, TakeReading(o)
      PROVE  OutOfBooks(t)'
  <2>1. PICK r \in Readings : call' = [call EXCEPT ![o] = [call[o] EXCEPT !.seen = r]]
    BY <1>6 DEF TakeReading
  <2>2. /\ call'[o].step = call[o].step /\ call'[o].book = call[o].book
        /\ call'[o].seen = r
        /\ \A p \in Orders \ {o} : call'[p] = call[p]
    BY <2>1 DEF TypeOK, Calls
  <2>3. r.got = "yes" => IsOpen(r.at[t])
    BY DEF Readings, Taken, Failed
  <2>4. registry' = registry
    BY <1>6 DEF TakeReading
  <2> QED  BY <2>2, <2>3, <2>4 DEF OutOfBooks
<1> QED
  BY <1>1, <1>2, <1>3, <1>4, <1>5, <1>6
  DEF Effect, Quiet, StopAsked, StopMoved, Fill, Refuse, Close

LEMMA OutOfTasksKept ==
  ASSUME EngineEffect, NEW t \in Orders, OutOfBooks(t), OutOfTasks(t)
  PROVE  OutOfTasks(t)'
<1>1. t \notin Tickets(registry) /\ t \notin Tickets(<<>>)
  BY EmptyBook DEF OutOfBooks
<1>2. CASE Elsewhere
  BY <1>2 DEF Elsewhere, OutOfTasks
<1>3. CASE Crash
  BY <1>1, <1>3 DEF Crash, OutOfTasks, IdleTask, Task
<1>4. ASSUME NEW a \in Tasks, Begins(a) \/ Looks(a) \/ Passes(a)
      PROVE  OutOfTasks(t)'
  <2>1. t \notin Tickets(task'[a].book) \cup task'[a].todo \cup task'[a].ticket
    BY <1>1, <1>4 DEF Begins, Looks, Passes, OutOfTasks
  <2> QED  BY <1>4, <2>1 DEF Begins, Looks, Passes, Others, OutOfTasks
<1>5. ASSUME NEW a \in Tasks, Plans(a)
      PROVE  OutOfTasks(t)'
  <2>1. t \notin Tickets(task'[a].book) \cup task'[a].todo \cup task'[a].ticket
    BY <1>5 DEF Plans, OutOfTasks
  <2> QED  BY <1>5, <2>1 DEF Plans, Others, OutOfTasks
<1>6. ASSUME NEW a \in Tasks, NEW u \in Orders, NEW s \in Nat, AsksFor(a, u, s)
      PROVE  OutOfTasks(t)'
  <2>1. t \notin Tickets(task'[a].book) \cup task'[a].todo \cup task'[a].ticket
    BY <1>6 DEF AsksFor, OutOfTasks
  <2> QED  BY <1>6, <2>1 DEF AsksFor, Others, OutOfTasks
<1>7. ASSUME NEW m \in wire, Executes(m)
      PROVE  OutOfTasks(t)'
  BY <1>7 DEF Executes, SameCycle, OutOfTasks
<1> QED  BY <1>2, <1>3, <1>4, <1>5, <1>6, <1>7 DEF EngineEffect

\* The cycle a position is served in reads it when no stop is under way.
LEMMA QuietWhileServed ==
  ASSUME TypeOK, OneEngine, EngineInv, NEW a \in EngineTasks, task[a].step # "modify",
         NEW t \in Orders, IsOpen(pos[t]), ~ OutOfTasks(t)
  PROVE  StopsFor(t) = {}
<1> SUFFICES ASSUME NEW m \in wire, m.kind = "stop", m.order = t
             PROVE  FALSE
  BY DEF StopsFor
<1>1. m.by \in EngineTasks /\ (Awaited(m) \/ OutOfTasks(t))
  BY DEF EngineInv, MessagesTighten
<1>2. m.by = a
  BY <1>1 DEF OneEngine
<1> QED  BY <1>1, <1>2 DEF Awaited

\* Stops for a position, after a step.
LEMMA StopsAfter ==
  ASSUME UNCHANGED wire, NEW t
  PROVE  StopsFor(t)' = StopsFor(t)
BY DEF StopsFor

LEMMA ServedKept ==
  ASSUME TypeOK, OneEngine, EngineInv, EngineEffect
  PROVE  ServedAsRead'
<1> DEFINE Fine(a) ==
             /\ a = "reconcile" => task[a].step \in {"idle", "reconcile"}
             /\ task[a].step \notin {"walk", "modify"} => task[a].todo = {}
             /\ task[a].step # "modify" => task[a].ticket = {}
             /\ \A t \in Serving(a) :
                  /\ pos[t].status \in {"open", "closed"} /\ t \notin task[a].ticket
                  /\ IsOpen(pos[t]) => /\ TaskUsed(a)[t].stop = pos[t].stop
                                       /\ TaskUsed(a)[t].side = pos[t].side
                                       /\ StopsFor(t) = {}
<1>1. \A a \in Tasks : Fine(a)
  BY DEF EngineInv, ServedAsRead
<1>2. \A a \in Tasks : Serving(a) \subseteq Orders /\ task[a].todo \subseteq Orders
  <2> SUFFICES ASSUME NEW a \in Tasks
               PROVE  Serving(a) \subseteq Orders /\ task[a].todo \subseteq Orders
    OBVIOUS
  <2>1. task[a].book \in Seq(Records) /\ task[a].todo \subseteq Orders
    BY CycleTyped DEF Cycles
  <2> QED  BY <2>1, TicketsAreOrders DEF Serving
<1>3. ASSUME NEW a \in Tasks, task'[a] = task[a], UNCHANGED <<pos, wire>>
      PROVE  Fine(a)'
  <2>1. Serving(a)' = Serving(a)
    BY <1>3 DEF Serving, TaskRead, TaskUsed
  <2> QED  BY <1>1, <1>3, <2>1, StopsAfter DEF TaskUsed
<1>4. CASE Elsewhere
  <2>1. ASSUME NEW a \in Tasks
        PROVE  Fine(a)'
    <3>1. Serving(a)' = Serving(a) /\ task' = task
      BY <1>4 DEF Elsewhere, Serving, TaskRead, TaskUsed
    <3>2. \A t : StopsFor(t)' = StopsFor(t)
      BY <1>4 DEF Elsewhere, StopsFor
    <3>3. ASSUME NEW t \in Serving(a)
          PROVE  /\ pos'[t].status \in {"open", "closed"}
                 /\ IsOpen(pos'[t]) => pos'[t] = pos[t]
      BY <1>1, <1>2, <1>4 DEF Elsewhere
    <3> QED  BY <1>1, <3>1, <3>2, <3>3 DEF TaskUsed
  <2> QED  BY <2>1 DEF ServedAsRead
<1>5. CASE Crash
  BY <1>5 DEF Crash, ServedAsRead, Serving, IdleTask, Task
<1>6. ASSUME NEW a \in Tasks, Begins(a)
      PROVE  ServedAsRead'
  <2>1. Fine(a)'
    <3>1. Serving(a)' = {}
      BY <1>6 DEF Begins, Serving, TaskRead, Asked
    <3> QED  BY <1>1, <1>6, <3>1 DEF Begins, ReadingTask
  <2> QED  BY <1>3, <1>6, <2>1 DEF Begins, Others, ServedAsRead
<1>7. ASSUME NEW a \in Tasks, Looks(a)
      PROVE  ServedAsRead'
  <2>1. /\ a = "reconcile" => task'[a].step \in {"idle", "reconcile"}
        /\ task'[a].todo = {} /\ task'[a].ticket = {} /\ task'[a].step = task[a].step
        /\ task[a].step \notin {"walk", "modify"}
    BY <1>1, <1>7 DEF Looks, ReadingTask
  <2>2. ASSUME NEW t \in Serving(a)'
        PROVE  /\ IsOpen(pos[t]) /\ TaskUsed(a)'[t] = pos[t] /\ StopsFor(t) = {}
    <3>1. /\ task[a].step = "protect" /\ t \in Tickets(task[a].book)
          /\ task'[a].seen.got = "yes" /\ IsOpen(task'[a].seen.at[t])
      BY <1>7, <2>1, <2>2 DEF Serving, TaskRead, TaskUsed, Looks
    <3>2. task'[a].seen = Taken
      BY <1>7, <3>1 DEF Looks
    <3>3. IsOpen(pos[t]) /\ TaskUsed(a)'[t] = pos[t]
      BY <3>1, <3>2 DEF Taken, TaskUsed
    <3>4. t \in Orders
      BY <3>1, CycleTyped, TicketsAreOrders DEF Cycles
    <3>5. ~ OutOfTasks(t)
      BY <3>1 DEF OutOfTasks
    <3>6. a \in EngineTasks
      BY <1>1, <3>1 DEF EngineTasks
    <3>7. StopsFor(t) = {}
      BY <3>1, <3>3, <3>4, <3>5, <3>6, QuietWhileServed
    <3> QED  BY <3>3, <3>7
  <2>3. UNCHANGED <<pos, wire>>
    BY <1>7 DEF Looks
  <2>4. Fine(a)'
    BY <2>1, <2>2, <2>3, StopsAfter DEF IsOpen
  <2> QED  BY <1>3, <1>7, <2>4 DEF Looks, Others, ServedAsRead
<1>8. ASSUME NEW a \in Tasks, Plans(a)
      PROVE  ServedAsRead'
  <2>1. Serving(a)' = Serving(a)
    BY <1>8 DEF Plans, Serving, TaskRead, TaskUsed
  <2>2. /\ a # "reconcile" /\ task'[a].step = "walk" /\ task'[a].ticket = {}
        /\ task[a].ticket = {} /\ task'[a].seen = task[a].seen /\ UNCHANGED <<pos, wire>>
    BY <1>1, <1>8 DEF Plans
  <2>3. Fine(a)'
    BY <1>1, <2>1, <2>2, StopsAfter DEF TaskUsed
  <2> QED  BY <1>3, <1>8, <2>3 DEF Plans, Others, ServedAsRead
<1>9. ASSUME NEW a \in Tasks, Passes(a)
      PROVE  ServedAsRead'
  <2>1. Serving(a)' \subseteq Serving(a)
    BY <1>9 DEF Passes, Serving
  <2>2. /\ a # "reconcile" /\ task'[a].step = "walk" /\ task'[a].ticket = {}
        /\ task'[a].seen = task[a].seen /\ UNCHANGED <<pos, wire>>
    BY <1>1, <1>9 DEF Passes
  <2>3. Fine(a)'
    BY <1>1, <2>1, <2>2, StopsAfter DEF TaskUsed
  <2> QED  BY <1>3, <1>9, <2>3 DEF Passes, Others, ServedAsRead
<1>10. ASSUME NEW a \in Tasks, NEW u \in Orders, NEW s \in Nat, AsksFor(a, u, s)
       PROVE  ServedAsRead'
  <2>1. /\ a # "reconcile" /\ a \in EngineTasks
        /\ Serving(a) = task[a].todo /\ Serving(a)' = task[a].todo \ {u}
        /\ task'[a].step = "modify" /\ task'[a].ticket = {u}
        /\ task'[a].seen = task[a].seen /\ UNCHANGED pos
    BY <1>1, <1>10 DEF AsksFor, Serving, EngineTasks
  <2>2. ASSUME NEW t \in Orders, t # u
        PROVE  StopsFor(t)' = StopsFor(t)
    BY <1>10, <2>2 DEF AsksFor, StopsFor, StopMessage
  <2>3. Fine(a)'
    <3>1. \A t \in Serving(a)' : t \in Orders /\ t # u /\ t \in Serving(a)
      BY <1>2, <2>1
    <3> QED  BY <1>1, <2>1, <2>2, <3>1 DEF TaskUsed
  <2>4. ASSUME NEW x \in Tasks, x # a
        PROVE  Fine(x)'
    <3>1. x = "reconcile" /\ task'[x] = task[x]
      BY <1>10, <2>1, <2>4 DEF OneEngine, EngineTasks, AsksFor, Others
    <3>2. task[x].step \in {"idle", "reconcile"} /\ task[x].todo = {}
      BY <1>1, <3>1
    <3>3. Serving(x)' = {}
      BY <3>1, <3>2 DEF Serving
    <3> QED  BY <1>1, <3>1, <3>3
  <2> QED  BY <2>3, <2>4 DEF ServedAsRead
<1>11. ASSUME NEW m \in wire, Executes(m)
       PROVE  ServedAsRead'
  <2> SUFFICES ASSUME NEW a \in Tasks
               PROVE  Fine(a)'
    BY DEF ServedAsRead
  <2>1. SameCycle(a) /\ wire' \subseteq wire
    BY <1>11 DEF Executes
  <2>2. Serving(a)' = Serving(a)
    BY <2>1 DEF SameCycle, Serving, TaskRead, TaskUsed
  <2>3. ASSUME NEW t \in Serving(a)
        PROVE  /\ pos'[t].status = pos[t].status
               /\ IsOpen(pos[t]) => pos'[t] = pos[t] /\ StopsFor(t)' = {}
    <3>1. m.order \in Orders /\ t \in Orders
      BY <1>2, <2>3 DEF TypeOK, Messages
    <3>2. IsOpen(pos[t]) => m.order # t
      BY <1>1, <1>11 DEF Executes, StopsFor
    <3>3. t # m.order => pos'[t] = pos[t]
      BY <1>11, <3>1 DEF Executes, TypeOK
    <3>4. t = m.order => pos'[t].status = pos[t].status
      BY <1>11, <3>1 DEF Executes, TypeOK, Positions
    <3>5. StopsFor(t)' \subseteq StopsFor(t)
      BY <2>1 DEF StopsFor
    <3> QED  BY <1>1, <3>2, <3>3, <3>4, <3>5
  <2> QED  BY <1>1, <2>1, <2>2, <2>3 DEF SameCycle, TaskUsed, IsOpen
<1> QED
  BY <1>4, <1>5, <1>6, <1>7, <1>8, <1>9, <1>10, <1>11 DEF EngineEffect

LEMMA MessagesKept ==
  ASSUME BrokerInv, OneEngine, EngineInv, Effect, EngineEffect
  PROVE  MessagesTighten'
<1> DEFINE Shut(t) == OutOfBooks(t) /\ OutOfTasks(t)
           Good(m) ==
             /\ m.by \in EngineTasks
             /\ pos[m.order].status \in {"open", "closed"}
             /\ IsOpen(pos[m.order]) =>
                  /\ Tightens(pos[m.order].side, pos[m.order].stop, m.stop)
                  /\ Awaited(m) \/ Shut(m.order)
                  /\ StopsFor(m.order) = {m}
<1>1. TypeOK /\ \A m \in wire : m.kind = "stop" => m.order \in Orders /\ Good(m)
  BY DEF BrokerInv, EngineInv, MessagesTighten, TypeOK, Messages
<1>2. ASSUME NEW t \in Orders, IsOpen(pos[t]), Shut(t)
      PROVE  Shut(t)'
  BY <1>1, <1>2, OutOfBooksKept, OutOfTasksKept
<1>3. ASSUME NEW m \in wire, m.kind = "stop", UNCHANGED <<pos, wire>>,
             Awaited(m) => Awaited(m)'
      PROVE  Good(m)'
  BY <1>1, <1>2, <1>3, StopsAfter
<1>4. CASE Elsewhere
  <2>1. ASSUME NEW m \in wire', m.kind = "stop"
        PROVE  Good(m)'
    <3>1. m \in wire /\ m.order \in Orders /\ Good(m)
      BY <1>1, <1>4, <2>1 DEF Elsewhere
    <3>2. /\ pos'[m.order].status \in {"open", "closed"}
          /\ IsOpen(pos'[m.order]) => pos'[m.order] = pos[m.order]
      BY <1>4, <3>1 DEF Elsewhere
    <3>3. Awaited(m)' = Awaited(m) /\ StopsFor(m.order)' = StopsFor(m.order)
      BY <1>4 DEF Elsewhere, Awaited, StopsFor
    <3> QED  BY <1>2, <3>1, <3>2, <3>3
  <2> QED  BY <2>1 DEF MessagesTighten
<1>5. CASE Crash
  <2>1. ASSUME NEW t \in Orders
        PROVE  Shut(t)'
    <3>1. \A o \in Orders : call'[o].step \in {"idle", "lost"}
      BY <1>5 DEF Crash, Call
    <3> QED
      BY <1>5, <3>1, EmptyBook DEF Crash, OutOfBooks, OutOfTasks, IdleTask, Task
  <2> QED
    BY <1>1, <1>5, <2>1, StopsAfter DEF Crash, broker, MessagesTighten
<1>6. ASSUME NEW a \in Tasks, Begins(a) \/ Looks(a) \/ Plans(a)
      PROVE  MessagesTighten'
  <2>1. task[a].step # "modify" /\ Others(a) /\ UNCHANGED <<pos, wire>>
    BY <1>6 DEF Begins, Looks, Plans, ReadingTask
  <2>2. ASSUME NEW m \in wire, m.kind = "stop", Awaited(m)
        PROVE  Awaited(m)'
    BY <1>1, <2>1, <2>2 DEF Awaited, Others, EngineTasks
  <2> QED  BY <1>3, <2>1, <2>2 DEF MessagesTighten
<1>7. ASSUME NEW a \in Tasks, Passes(a)
      PROVE  MessagesTighten'
  <2>1. Others(a) /\ UNCHANGED <<pos, wire>>
    BY <1>7 DEF Passes
  <2>2. ASSUME NEW m \in wire, m.kind = "stop", Awaited(m)
        PROVE  Awaited(m)'
    <3>1. m.by \in Tasks /\ (m.by # a => task'[m.by] = task[m.by])
      BY <1>1, <2>1, <2>2 DEF Others, EngineTasks
    <3>2. m = StopMessage(m.by, m.order, m.stop)
      BY <1>1, <2>2 DEF TypeOK, Messages, StopMessage
    <3>3. m.by # a
      BY <1>7, <2>2, <3>2 DEF Passes, Awaited
    <3> QED  BY <2>2, <3>1, <3>3 DEF Awaited
  <2> QED  BY <1>3, <2>1, <2>2 DEF MessagesTighten
<1>8. ASSUME NEW a \in Tasks, NEW u \in Orders, NEW s \in Nat, AsksFor(a, u, s)
      PROVE  MessagesTighten'
  <2> DEFINE new == StopMessage(a, u, s)
  <2>1. /\ u \in Serving(a) /\ a \in EngineTasks /\ UNCHANGED pos
        /\ wire' = wire \cup {new} /\ Others(a)
    BY <1>8 DEF AsksFor, Serving, EngineInv, ServedAsRead, EngineTasks
  <2>2. /\ pos[u].status \in {"open", "closed"}
        /\ IsOpen(pos[u]) => /\ TaskUsed(a)[u].stop = pos[u].stop
                             /\ TaskUsed(a)[u].side = pos[u].side
                             /\ StopsFor(u) = {}
    BY <2>1 DEF EngineInv, ServedAsRead
  <2>3. /\ new.kind = "stop" /\ new.by = a /\ new.order = u /\ new.stop = s
    BY DEF StopMessage
  <2>4. StopsFor(u)' = StopsFor(u) \cup {new}
    BY <2>1, <2>3 DEF StopsFor
  <2>5. Awaited(new)'
    BY <1>8, <2>3 DEF AsksFor, Awaited
  <2>6. IsOpen(pos[u]) => Tightens(pos[u].side, pos[u].stop, s)
    BY <1>8, <2>2 DEF AsksFor
  <2> HIDE DEF new
  <2>7. Good(new)'
    BY <2>1, <2>2, <2>3, <2>4, <2>5, <2>6
  <2>8. ASSUME NEW m \in wire, m.kind = "stop"
        PROVE  Good(m)'
    <3>1. m.order \in Orders /\ Good(m)
      BY <1>1, <2>8
    <3>2. Awaited(m) => Awaited(m)'
      BY <1>8, <3>1 DEF Awaited, AsksFor, Others, EngineTasks
    <3>3. IsOpen(pos[m.order]) => m.order # u
      BY <2>2, <2>8 DEF StopsFor
    <3>4. m.order # u => StopsFor(m.order)' = StopsFor(m.order)
      BY <2>1, <2>3 DEF StopsFor
    <3> QED  BY <1>2, <2>1, <3>1, <3>2, <3>3, <3>4
  <2> QED  BY <2>1, <2>7, <2>8 DEF MessagesTighten
<1>9. ASSUME NEW n \in wire, Executes(n)
      PROVE  MessagesTighten'
  <2>1. ASSUME NEW m \in wire', m.kind = "stop"
        PROVE  Good(m)'
    <3>1. m \in wire /\ m # n /\ n.kind = "stop" /\ wire' = wire \ {n}
      BY <1>9 DEF Executes
    <3>2. m.order \in Orders /\ n.order \in Orders /\ Good(m)
      BY <1>1, <2>1, <3>1
    <3>3. IsOpen(pos[m.order]) => m.order # n.order
      BY <2>1, <3>1, <3>2 DEF StopsFor
    <3>4. m.order # n.order => pos'[m.order] = pos[m.order]
      BY <1>1, <1>9, <3>2 DEF Executes, TypeOK
    <3>5. pos'[m.order].status = pos[m.order].status
      BY <1>1, <1>9, <3>2 DEF Executes, TypeOK, Positions
    <3>6. StopsFor(m.order)' = StopsFor(m.order) \ {n}
      BY <3>1 DEF StopsFor
    <3>7. Awaited(m)' = Awaited(m)
      BY <1>9, <3>2 DEF Executes, SameCycle, Awaited, EngineTasks
    <3>8. IsOpen(pos'[m.order]) = IsOpen(pos[m.order])
      BY <3>5 DEF IsOpen
    <3>9. CASE IsOpen(pos[m.order])
      BY <1>2, <3>1, <3>2, <3>3, <3>4, <3>6, <3>7, <3>9
    <3>10. CASE ~ IsOpen(pos[m.order])
      BY <3>2, <3>5, <3>8, <3>10
    <3> QED  BY <3>9, <3>10
  <2> QED  BY <2>1 DEF MessagesTighten
<1> QED  BY <1>4, <1>5, <1>6, <1>7, <1>8, <1>9 DEF EngineEffect

LEMMA EngineInvariant == OneEngine => (Spec => []EngineInv)
<1> SUFFICES ASSUME OneEngine
             PROVE  Spec => []EngineInv
  OBVIOUS
<1>1. Init => EngineInv
  BY DEF Init, EngineInv, MessagesTighten, ServedAsRead, Serving, IdleTask, Task
<1>2. BrokerInv /\ EngineInv /\ [Next]_vars => EngineInv'
  <2> SUFFICES ASSUME BrokerInv, EngineInv, [Next]_vars
               PROVE  EngineInv'
    OBVIOUS
  <2>1. Effect /\ EngineEffect
    BY StepHasEffect, StepHasEngineEffect DEF BrokerInv
  <2> QED  BY <2>1, MessagesKept, ServedKept DEF BrokerInv, EngineInv
<1> QED  BY <1>1, <1>2, BrokerInvariant, PTL DEF Spec

\* Where one engine runs, no stop of an open position is ever moved away
\* from the price: neither by what the engine read before it waited nor by
\* a message a dead process left on its way (_is_better_stop compares with
\* the stop that was read).
THEOREM StopsOnlyTighten == OneEngine => (Spec => StopNeverWidened)
<1> SUFFICES ASSUME OneEngine
             PROVE  Spec => StopNeverWidened
  OBVIOUS
<1> DEFINE Tighter(o) ==
             IF pos[o].side = "buy" THEN pos'[o].stop >= pos[o].stop
                                    ELSE pos'[o].stop <= pos[o].stop
<1>1. BrokerInv /\ EngineInv /\ [Next]_vars =>
        [\A o \in Orders : IsOpen(pos[o]) /\ IsOpen(pos'[o]) => Tighter(o)]_vars
  <2> SUFFICES ASSUME BrokerInv, EngineInv, [Next]_vars, NEW o \in Orders,
                      IsOpen(pos[o]), IsOpen(pos'[o])
               PROVE  Tighter(o)
    OBVIOUS
  <2>1. TypeOK /\ EngineEffect /\ pos[o].stop \in Nat
    BY StepHasEngineEffect DEF BrokerInv, TypeOK, Positions
  <2>2. CASE pos'[o] = pos[o]
    BY <2>1, <2>2
  <2>3. ASSUME NEW m \in wire, Executes(m)
        PROVE  Tighter(o)
    <3>1. m.order \in Orders /\ m.stop \in Nat
      BY <2>1 DEF TypeOK, Messages
    <3>2. CASE pos' = [pos EXCEPT ![o] = [pos[o] EXCEPT !.stop = m.stop]] /\ m.order = o
      <4>1. pos'[o].stop = m.stop
        BY <2>1, <3>2 DEF TypeOK, Positions
      <4>2. Tightens(pos[o].side, pos[o].stop, m.stop)
        BY <2>3, <3>2 DEF Executes, EngineInv, MessagesTighten
      <4> QED  BY <2>1, <3>1, <4>1, <4>2 DEF Tightens
    <3>3. CASE pos'[o] = pos[o]
      BY <2>2, <3>3
    <3> QED  BY <2>1, <2>3, <3>1, <3>2, <3>3 DEF Executes, TypeOK
  <2>4. Elsewhere \/ UNCHANGED pos => pos'[o] = pos[o]
    BY DEF Elsewhere, IsOpen
  <2> QED
    BY <2>1, <2>2, <2>3, <2>4
    DEF EngineEffect, Crash, broker, Begins, Looks, Plans, Passes, AsksFor
<1> QED  BY <1>1, BrokerInvariant, EngineInvariant, PTL DEF Spec, StopNeverWidened

=============================================================================
