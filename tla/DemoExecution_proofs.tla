------------------------ MODULE DemoExecution_proofs ------------------------
(***************************************************************************)
(* Proofs about the demo orders, for any number of signals, verification   *)
(* attempts and mishaps: what a record tells of the order behind it, where *)
(* the canonical rows come from, and that the executor is the idempotent   *)
(* ledger of SignalLedger.                                                 *)
(***************************************************************************)
EXTENDS DemoRequirements, TLAPS

USE DemoAssumption

\* What a run stands for is in its record, and in the orders sent.
RunsTell ==
  \A c \in Callers : LET s == run[c].signal IN
    /\ run[c].step # "idle" => s \in Signals
    /\ run[c].step = "reserved" => record[s].status = "pending" /\ orders[s] = 0
    /\ run[c].step = "answered" => record[s].status = "pending" /\ orders[s] = 1
    /\ run[c].step = "verify" =>
         record[s].status \in {"sent", "sent_unverified", "verified"} /\ orders[s] = 1

\* The event loop has one owner.
OneHolds ==
  \A c, d \in Callers : run[c].step \in Holding /\ run[d].step \in Holding => c = d

\* A signal is ordered once at most, and nothing stands without an order.
OrderedOnce ==
  \A s \in Signals :
    /\ orders[s] \in {0, 1}
    /\ orders[s] = 0 => pos[s].state = "none"
    /\ pos[s].state = "open" => pos[s].mark \in Marks[s]

Writing == {"write", "market", "manage"}

\* What the synchronization has seen of the account and read of the broker.
ReadingsReal ==
  /\ sync.step = "list" => account = "demo" \/ sync.switched
  /\ sync.step \in Writing => \A s \in sync.todo :
       /\ pos[s].state # "none" /\ sync.marks[s] \in Marks[s]
       /\ pos[s].account = "demo" \/ sync.switched
  /\ sync.step \in {"market", "manage"} => sync.row \in sync.todo
  /\ sync.step = "manage" => mirror[sync.row].mark \in Marks[sync.row]

IInv ==
  /\ TypeOK
  /\ RunsTell /\ OneHolds /\ OrderedOnce /\ RecordsTellOrders
  /\ ReadingsReal

Rows == [status : {"none", "created", "synchronized"}, mark : Nat]

SyncStates == [step : {"idle", "read", "list", "write", "market", "manage"},
               todo : SUBSET Signals, row : Tickets, switched : BOOLEAN,
               marks : [Signals -> Nat]]

LEMMA MarksAreNat == \A s \in Signals : Marks[s] \subseteq Nat
OBVIOUS

LEMMA IdleIsRun == Idle \in Runs /\ Idle.step = "idle" /\ Idle.signal = "none" /\ Idle.ticket = "none"
BY DEF Idle, Runs, Tickets

LEMMA IdleSyncType == IdleSync \in SyncStates /\ IdleSync.step = "idle"
BY DEF IdleSync, SyncStates, Tickets

LEMMA ListedAreSignals == Listed \subseteq Signals
BY DEF Listed

LEMMA MatchesAreSignals ==
  ASSUME NEW s \in Signals, NEW ticket, NEW t \in Matches(s, ticket)
  PROVE  t \in Signals
<1>1. CASE ticket # "none" /\ ticket \in Listed
  BY <1>1, ListedAreSignals DEF Matches
<1>2. CASE ~(ticket # "none" /\ ticket \in Listed) /\ s \in Listed
  BY <1>2, ListedAreSignals DEF Matches
<1>3. CASE ~(ticket # "none" /\ ticket \in Listed) /\ s \notin Listed
  BY <1>3, ListedAreSignals DEF Matches
<1> QED BY <1>1, <1>2, <1>3

LEMMA InitIInv == Init => IInv
<1> SUFFICES ASSUME Init PROVE IInv
  OBVIOUS
<1>1. TypeOK
  BY IdleIsRun, IdleSyncType DEF Init, TypeOK, SyncStates, Positions, Tickets, Statuses
<1>2. RunsTell /\ OneHolds
  BY IdleIsRun DEF Init, RunsTell, OneHolds, Holding
<1>3. OrderedOnce /\ RecordsTellOrders
  BY DEF Init, OrderedOnce, RecordsTellOrders
<1>4. ReadingsReal
  BY IdleSyncType DEF Init, ReadingsReal, Writing
<1> QED BY <1>1, <1>2, <1>3, <1>4 DEF IInv

-----------------------------------------------------------------------------
(* What steps have in common                                               *)

LEMMA Frame ==
  ASSUME IInv
  PROVE  /\ UNCHANGED <<run, record, orders>> => RunsTell'
         /\ UNCHANGED run => OneHolds'
         /\ UNCHANGED <<record, orders>> => RecordsTellOrders'
         /\ UNCHANGED <<orders, pos>> => OrderedOnce'
         /\ UNCHANGED <<sync, pos, account, mirror>> => ReadingsReal'
BY DEF IInv, RunsTell, OneHolds, RecordsTellOrders, OrderedOnce, ReadingsReal

LEMMA Finished ==
  ASSUME IInv, NEW c \in Callers, Finish(c)
  PROVE  /\ run' \in [Callers -> Runs] /\ sync' \in SyncStates
         /\ \A d \in Callers : run'[d] = IF d = c THEN Idle ELSE run[d]
         /\ OneHolds'
         /\ UNCHANGED <<pos, account, mirror>> => ReadingsReal'
<1>1. run' \in [Callers -> Runs] /\ \A d \in Callers : run'[d] = IF d = c THEN Idle ELSE run[d]
  BY IdleIsRun DEF Finish, IInv, TypeOK
<1>2. sync' \in SyncStates /\ (sync' = sync \/ sync'.step = "read")
  BY DEF Finish, IInv, TypeOK, SyncStates
<1>3. OneHolds'
  BY <1>1, IdleIsRun DEF IInv, OneHolds, Holding
<1>4. UNCHANGED <<pos, account, mirror>> => ReadingsReal'
  BY <1>2, Frame DEF ReadingsReal, Writing
<1> QED BY <1>1, <1>2, <1>3, <1>4

LEMMA Saved ==
  ASSUME IInv, NEW s \in Signals, NEW status \in Statuses, NEW ticket \in Tickets,
         Save(s, status, ticket)
  PROVE  /\ record' \in [Signals -> [status : Statuses, ticket : Tickets]]
         /\ \A t \in Signals : t # s => record'[t] = record[t]
         /\ record'[s].status \in {record[s].status, status}
<1>1. CASE UNCHANGED record
  BY <1>1 DEF IInv, TypeOK
<1>2. CASE record' = Updated(s, status, ticket)
  BY <1>2 DEF Updated, IInv, TypeOK
<1> QED BY <1>1, <1>2 DEF Save

\* A run ends with a status that says as much as it knows of its order.
LEMMA Settled ==
  ASSUME IInv, NEW c \in Callers, NEW status, NEW ticket \in Tickets,
         \/ run[c].step = "reserved" /\ status = "order_check_rejected"
         \/ run[c].step = "answered" /\ status \in {"order_send_failed", "broker_rejected"}
         \/ run[c].step = "verify" /\ status \in {"verified", "sent_unverified"},
         Save(run[c].signal, status, ticket), Finish(c),
         UNCHANGED <<broker, mirror, mishaps>>
  PROVE  IInv'
<1> DEFINE s == run[c].signal
<1>1. s \in Signals
  BY DEF IInv, RunsTell
<1>2. status \in Statuses
  BY DEF Statuses
<1>3. /\ record' \in [Signals -> [status : Statuses, ticket : Tickets]]
      /\ \A t \in Signals : t # s => record'[t] = record[t]
      /\ record'[s].status \in {record[s].status, status}
  BY <1>1, <1>2, Saved
<1>4. UNCHANGED <<account, pos, orders, mirror, mishaps>>
  BY DEF broker
<1>5. TypeOK'
  BY <1>3, <1>4, Finished DEF IInv, TypeOK, SyncStates
<1>6. RunsTell'
  <2> SUFFICES ASSUME NEW d \in Callers, d # c
               PROVE  LET t == run[d].signal IN
                      /\ run[d].step # "idle" => t \in Signals
                      /\ run[d].step = "reserved" => record'[t].status = "pending" /\ orders[t] = 0
                      /\ run[d].step = "answered" => record'[t].status = "pending" /\ orders[t] = 1
                      /\ run[d].step = "verify" =>
                           record'[t].status \in {"sent", "sent_unverified", "verified"}
                             /\ orders[t] = 1
    BY <1>4, Finished, IdleIsRun DEF RunsTell
  <2>1. CASE run[d].step = "verify"
    BY <1>1, <1>3, <2>1 DEF IInv, RunsTell
  <2>2. CASE run[d].step \in Holding
    <3>1. run[c].step = "verify"
      BY <2>2 DEF IInv, OneHolds, Holding
    <3>2. run[d].signal # s
      BY <2>2, <3>1 DEF IInv, RunsTell, Holding
    <3> QED BY <1>3, <2>2, <3>2 DEF IInv, RunsTell, Holding
  <2>3. CASE run[d].step = "idle"
    BY <2>3
  <2> QED BY <2>1, <2>2, <2>3 DEF IInv, TypeOK, Runs, Holding
<1>7. RecordsTellOrders'
  BY <1>1, <1>3, <1>4 DEF IInv, RunsTell, RecordsTellOrders
<1> QED BY <1>4, <1>5, <1>6, <1>7, Finished, Frame DEF IInv

-----------------------------------------------------------------------------
(* Each action preserves the invariant                                     *)

LEMMA BrokerKeeps ==
  ASSUME IInv, Broker
  PROVE  IInv'
<1>1. CASE SwitchAccount
  <2>0. sync \in SyncStates /\ UNCHANGED <<pos, orders, record, mirror, run>>
    BY <1>1 DEF SwitchAccount, tables, IInv, TypeOK, SyncStates
  <2>1. /\ sync' \in SyncStates /\ sync'.step = sync.step /\ sync'.todo = sync.todo
        /\ sync'.row = sync.row /\ sync'.marks = sync.marks
        /\ sync'.switched = (sync.switched \/ sync.step = "list")
    BY <1>1, <2>0 DEF SwitchAccount, SyncStates
  <2>2. TypeOK'
    <3>1. account' \in {"demo", "real"}
      BY <1>1 DEF SwitchAccount
    <3>2. mishaps' \in 0..MaxMishaps
      BY <1>1, DemoAssumption DEF SwitchAccount, IInv, TypeOK
    <3> QED BY <2>0, <2>1, <3>1, <3>2 DEF IInv, TypeOK, SyncStates
  <2>3. ReadingsReal'
    BY <2>0, <2>1 DEF IInv, ReadingsReal, Writing
  <2> QED BY <2>0, <2>2, <2>3, Frame DEF IInv
<1>2. ASSUME NEW s \in Signals, Show(s)
      PROVE  IInv'
  <2> DEFINE q == [pos[s] EXCEPT !.shown = TRUE]
  <2>0. q \in Positions /\ q.state = pos[s].state /\ q.mark = pos[s].mark
    <3>1. pos[s] \in Positions
      BY DEF IInv, TypeOK
    <3> QED BY <3>1 DEF Positions
  <2>4. pos' = [pos EXCEPT ![s] = q]
    BY <1>2 DEF Show
  <2>1. TypeOK' /\ OrderedOnce'
    BY <1>2, <2>0, <2>4 DEF Show, tables, IInv, TypeOK, OrderedOnce
  <2>2. ReadingsReal'
    BY <1>2 DEF Show, tables, IInv, TypeOK, Positions, ReadingsReal, Writing
  <2> QED BY <1>2, <2>1, <2>2, Frame DEF Show, tables, IInv
<1>3. ASSUME NEW s \in Signals, NEW m \in Marks[s], Reprice(s, m)
      PROVE  IInv'
  <2> DEFINE q == [pos[s] EXCEPT !.mark = m]
  <2>0. q \in Positions /\ q.state = pos[s].state /\ q.mark \in Marks[s]
    <3>1. pos[s] \in Positions /\ m \in Nat
      BY MarksAreNat DEF IInv, TypeOK
    <3> QED BY <3>1 DEF Positions
  <2>4. pos' = [pos EXCEPT ![s] = q]
    BY <1>3 DEF Reprice
  <2>1. TypeOK' /\ OrderedOnce'
    BY <1>3, <2>0, <2>4 DEF Reprice, tables, IInv, TypeOK, OrderedOnce
  <2>2. ReadingsReal'
    BY <1>3 DEF Reprice, tables, IInv, TypeOK, Positions, ReadingsReal, Writing
  <2> QED BY <1>3, <2>1, <2>2, Frame DEF Reprice, tables, IInv
<1>4. ASSUME NEW s \in Signals, BrokerCloses(s)
      PROVE  IInv'
  <2>1. TypeOK' /\ OrderedOnce'
    BY <1>4 DEF BrokerCloses, tables, IInv, TypeOK, Positions, OrderedOnce
  <2>2. ReadingsReal'
    BY <1>4 DEF BrokerCloses, tables, IInv, TypeOK, Positions, ReadingsReal, Writing
  <2> QED BY <1>4, <2>1, <2>2, Frame DEF BrokerCloses, tables, IInv
<1> QED BY <1>1, <1>2, <1>3, <1>4 DEF Broker

LEMMA EvaluateKeeps ==
  ASSUME IInv, NEW c \in Callers, Evaluate(c)
  PROVE  IInv'
<1>1. ASSUME Finish(c), MayStart(c), UNCHANGED <<broker, tables, mishaps>>
      PROVE  IInv'
  <2>1. TypeOK'
    BY <1>1, Finished DEF broker, tables, IInv, TypeOK, SyncStates
  <2>2. RunsTell'
    BY <1>1, Finished, IdleIsRun DEF broker, tables, IInv, RunsTell
  <2> QED BY <1>1, <2>1, <2>2, Finished, Frame DEF broker, tables, IInv
<1>2. ASSUME NEW s \in Signals, Reserve(c, s)
      PROVE  IInv'
  <2> DEFINE new == [Idle EXCEPT !.step = "reserved", !.signal = s]
  <2>0. UNCHANGED <<account, pos, orders, sync, mirror, mishaps>>
    BY <1>2 DEF Reserve, broker
  <2>1. new \in Runs /\ new.step = "reserved" /\ new.signal = s
    BY IdleIsRun DEF Runs, Tickets
  <2>2. run' \in [Callers -> Runs] /\ \A d \in Callers : run'[d] = IF d = c THEN new ELSE run[d]
    BY <1>2, <2>1 DEF Reserve, IInv, TypeOK
  <2>3. /\ record' \in [Signals -> [status : Statuses, ticket : Tickets]]
        /\ \A t \in Signals : t # s => record'[t] = record[t]
        /\ record[s].status = "none" /\ record'[s].status = "pending" /\ orders[s] = 0
    BY <1>2 DEF Reserve, IInv, TypeOK, Statuses, RecordsTellOrders
  <2>4. TypeOK'
    BY <2>0, <2>2, <2>3 DEF IInv, TypeOK
  <2>5. RunsTell'
    <3>1. ASSUME NEW d \in Callers, d # c
          PROVE  run[d].signal # s \/ run[d].step = "idle"
      BY <2>3 DEF IInv, RunsTell, TypeOK, Runs
    <3>2. run'[c].step = "reserved" /\ run'[c].signal = s
      BY <2>1, <2>2
    <3>3. ASSUME NEW d \in Callers, d # c
          PROVE  /\ run'[d] = run[d]
                 /\ run[d].step # "idle" => record'[run[d].signal] = record[run[d].signal]
      BY <2>2, <2>3, <3>1, <3>3 DEF IInv, RunsTell
    <3> QED BY <2>0, <2>3, <3>2, <3>3 DEF IInv, RunsTell
  <2>6. OneHolds'
    BY <1>2, <2>2 DEF Reserve, MayStart, LoopFree, OneHolds
  <2>7. RecordsTellOrders'
    BY <2>0, <2>3 DEF IInv, RecordsTellOrders
  <2> QED BY <2>0, <2>4, <2>5, <2>6, <2>7, Frame DEF IInv
<1> QED BY <1>1, <1>2 DEF Evaluate, EvaluateToNothing, BlockDuplicate

\* After order_send the run knows an answer, and is otherwise what it was.
LEMMA SendAnswers ==
  ASSUME IInv, NEW c \in Callers, Send(c)
  PROVE  /\ run' \in [Callers -> Runs]
         /\ \A d \in Callers : d # c => run'[d] = run[d]
         /\ run'[c].step = "answered" /\ run'[c].signal = run[c].signal
<1> DEFINE s == run[c].signal
<1>0. s \in Signals
  BY DEF Send, IInv, RunsTell
<1>1. PICK answer \in {"done", "lost", "rejected"}, ticket \in {"none", s} :
        \/ run' = [run EXCEPT ![c].step = "answered", ![c].answer = answer, ![c].ticket = ticket]
        \/ run' = [run EXCEPT ![c].step = "answered", ![c].answer = answer]
  BY DEF Send
<1>2. run[c] \in Runs
  BY DEF IInv, TypeOK
<1>3. /\ [run[c] EXCEPT !.step = "answered", !.answer = answer, !.ticket = ticket] \in Runs
      /\ [run[c] EXCEPT !.step = "answered", !.answer = answer] \in Runs
  BY <1>0, <1>2 DEF Runs, Tickets
<1> DEFINE q1 == [run[c] EXCEPT !.step = "answered", !.answer = answer, !.ticket = ticket]
           q2 == [run[c] EXCEPT !.step = "answered", !.answer = answer]
<1>4. /\ q1.step = "answered" /\ q1.signal = s
      /\ q2.step = "answered" /\ q2.signal = s
  BY <1>2 DEF Runs
<1>5. run' = [run EXCEPT ![c] = q1] \/ run' = [run EXCEPT ![c] = q2]
  BY <1>1
<1>6. run \in [Callers -> Runs]
  BY DEF IInv, TypeOK
<1> HIDE DEF q1, q2
<1>7. CASE run' = [run EXCEPT ![c] = q1]
  BY <1>3, <1>4, <1>6, <1>7 DEF q1
<1>8. CASE run' = [run EXCEPT ![c] = q2]
  BY <1>3, <1>4, <1>6, <1>8 DEF q2
<1> QED BY <1>5, <1>7, <1>8

\* While c holds the event loop before its outcome is recorded, any other run
\* waits for verification of another signal.
LEMMA OthersElsewhere ==
  ASSUME IInv, NEW c \in Callers, run[c].step \in Holding,
         NEW d \in Callers, d # c, run[d].step # "idle"
  PROVE  run[d].step = "verify" /\ run[d].signal # run[c].signal
<1>1. run[d].step \in {"idle", "reserved", "answered", "verify"}
  BY DEF IInv, TypeOK, Runs
<1>2. run[d].step \notin Holding
  BY DEF IInv, OneHolds
<1>3. run[d].step = "verify"
  BY <1>1, <1>2 DEF Holding
<1>4. record[run[c].signal].status = "pending"
  BY DEF IInv, RunsTell, Holding
<1>5. record[run[d].signal].status # "pending"
  BY <1>3 DEF IInv, RunsTell
<1> QED BY <1>3, <1>4, <1>5

LEMMA SendKeeps ==
  ASSUME IInv, NEW c \in Callers, Send(c)
  PROVE  IInv'
<1> DEFINE s == run[c].signal
<1>1. s \in Signals /\ record[s].status = "pending" /\ orders[s] = 0 /\ pos[s].state = "none"
  BY DEF Send, IInv, RunsTell, OrderedOnce
<1>2. UNCHANGED <<account, record, mirror, sync, mishaps>>
  BY DEF Send, tables
<1>3. /\ orders' \in [Signals -> Nat] /\ orders'[s] = 1
      /\ \A t \in Signals : t # s => orders'[t] = orders[t]
  BY <1>1 DEF Send, IInv, TypeOK
<1>4. /\ run' \in [Callers -> Runs]
      /\ \A d \in Callers : d # c => run'[d] = run[d]
      /\ run'[c].step = "answered" /\ run'[c].signal = s
  BY SendAnswers
<1>5. /\ pos' \in [Signals -> Positions]
      /\ \A t \in Signals : t # s => pos'[t] = pos[t]
      /\ pos'[s].state = "open" => pos'[s].mark \in Marks[s]
  <2>1. CASE UNCHANGED pos
    BY <1>1, <2>1 DEF IInv, TypeOK
  <2>2. ASSUME pos' = [pos EXCEPT ![s] = [state |-> "open", shown |-> FALSE,
                                          mark |-> Entry[s], account |-> account]]
        PROVE  /\ pos' \in [Signals -> Positions]
               /\ \A t \in Signals : t # s => pos'[t] = pos[t]
               /\ pos'[s].state = "open" => pos'[s].mark \in Marks[s]
    BY <1>1, <2>2, MarksAreNat DEF IInv, TypeOK, Positions
  <2> QED BY <2>1, <2>2 DEF Send
<1>6. TypeOK'
  BY <1>2, <1>3, <1>4, <1>5 DEF IInv, TypeOK
<1>7. RunsTell'
  <2>1. ASSUME NEW d \in Callers, d # c
        PROVE  run[d].signal # s \/ run[d].step = "idle"
    <3>1. run[c].step \in Holding
      BY DEF Send, Holding
    <3> QED BY <2>1, <3>1, OthersElsewhere
  <2>2. ASSUME NEW d \in Callers, d # c, run[d].step # "idle"
        PROVE  /\ run'[d] = run[d] /\ run[d].signal \in Signals
               /\ record' = record /\ orders'[run[d].signal] = orders[run[d].signal]
    BY <1>2, <1>3, <1>4, <2>1, <2>2 DEF IInv, RunsTell
  <2> QED BY <1>1, <1>2, <1>3, <1>4, <2>2 DEF IInv, RunsTell
<1>8. OneHolds'
  BY <1>4 DEF Send, IInv, OneHolds, Holding
<1>9. OrderedOnce' /\ RecordsTellOrders'
  BY <1>1, <1>2, <1>3, <1>5 DEF IInv, OrderedOnce, RecordsTellOrders
<1>10. ReadingsReal'
  <2>1. sync.step \in Writing => s \notin sync.todo
    BY <1>1 DEF IInv, ReadingsReal
  <2>2. sync.todo \subseteq Signals
    BY DEF IInv, TypeOK
  <2> QED BY <1>1, <1>2, <1>5, <2>1, <2>2 DEF IInv, ReadingsReal
<1> QED BY <1>6, <1>7, <1>8, <1>9, <1>10 DEF IInv

LEMMA RecordSentKeeps ==
  ASSUME IInv, NEW c \in Callers, RecordSent(c)
  PROVE  IInv'
<1> DEFINE s == run[c].signal
<1>0. s \in Signals /\ run[c].ticket \in Tickets /\ run[c].step = "answered"
      /\ record[s].status = "pending" /\ orders[s] = 1
  BY DEF RecordSent, IInv, RunsTell, TypeOK, Runs
<1>1. CASE UNCHANGED record /\ Finish(c)
  <2>1. Save(s, "broker_rejected", "none") /\ "none" \in Tickets
    BY <1>1 DEF Save, Tickets
  <2> QED BY <1>0, <1>1, <2>1, Settled DEF RecordSent
<1>2. CASE ~(UNCHANGED record /\ Finish(c))
  <2>1. /\ record' = Updated(s, "sent", run[c].ticket)
        /\ run' = [run EXCEPT ![c].step = "verify", ![c].answer = "none"]
        /\ UNCHANGED <<account, pos, orders, sync, mirror, mishaps>>
    BY <1>2 DEF RecordSent, broker
  <2>2. /\ record' \in [Signals -> [status : Statuses, ticket : Tickets]]
        /\ \A t \in Signals : t # s => record'[t] = record[t]
        /\ record'[s].status = "sent"
    BY <1>0, <2>1 DEF Updated, IInv, TypeOK, Statuses
  <2>3. /\ run' \in [Callers -> Runs]
        /\ \A d \in Callers : d # c => run'[d] = run[d]
        /\ run'[c].step = "verify" /\ run'[c].signal = s
    <3> DEFINE q == [run[c] EXCEPT !.step = "verify", !.answer = "none"]
    <3>1. q \in Runs /\ q.step = "verify" /\ q.signal = s
      <4>1. run[c] \in Runs
        BY DEF IInv, TypeOK
      <4> QED BY <4>1 DEF Runs
    <3>2. run' = [run EXCEPT ![c] = q]
      BY <2>1 DEF IInv, TypeOK
    <3> QED BY <3>1, <3>2 DEF IInv, TypeOK
  <2>4. TypeOK'
    BY <2>1, <2>2, <2>3 DEF IInv, TypeOK
  <2>5. RunsTell'
    <3>1. ASSUME NEW d \in Callers, d # c
          PROVE  run[d].signal # s \/ run[d].step = "idle"
      <4>1. run[c].step \in Holding
        BY <1>0 DEF Holding
      <4> QED BY <3>1, <4>1, OthersElsewhere
    <3>2. ASSUME NEW d \in Callers, d # c, run[d].step # "idle"
          PROVE  /\ run'[d] = run[d] /\ run[d].signal \in Signals /\ orders' = orders
                 /\ record'[run[d].signal] = record[run[d].signal]
      BY <2>1, <2>2, <2>3, <3>1, <3>2 DEF IInv, RunsTell
    <3>3. orders'[s] = 1 /\ record'[s].status = "sent"
      BY <1>0, <2>1, <2>2
    <3>4. ASSUME NEW d \in Callers, d # c, run[d].step # "idle"
          PROVE  LET t == run'[d].signal IN
                 /\ t \in Signals
                 /\ run'[d].step = "reserved" => record'[t].status = "pending" /\ orders'[t] = 0
                 /\ run'[d].step = "answered" => record'[t].status = "pending" /\ orders'[t] = 1
                 /\ run'[d].step = "verify" =>
                      /\ record'[t].status \in {"sent", "sent_unverified", "verified"}
                      /\ orders'[t] = 1
      BY <3>2, <3>4 DEF IInv, RunsTell
    <3>5. ASSUME NEW d \in Callers, d # c, run[d].step = "idle"
          PROVE  run'[d].step = "idle"
      BY <2>3, <3>5
    <3> QED BY <1>0, <2>3, <3>3, <3>4, <3>5 DEF RunsTell
  <2>6. OneHolds'
    BY <2>3 DEF IInv, OneHolds, Holding
  <2>7. RecordsTellOrders'
    BY <1>0, <2>1, <2>2 DEF IInv, RecordsTellOrders
  <2> QED BY <2>1, <2>4, <2>5, <2>6, <2>7, Frame DEF IInv
<1> QED BY <1>1, <1>2

LEMMA ProceedKeeps ==
  ASSUME IInv, NEW c \in Callers, Proceed(c)
  PROVE  IInv'
<1>0. run[c].ticket \in Tickets /\ "none" \in Tickets
  BY DEF IInv, TypeOK, Runs, Tickets
<1>1. CASE CheckFails(c)
  BY <1>0, <1>1, Settled DEF CheckFails
<1>2. CASE Send(c)
  BY <1>2, SendKeeps
<1>3. CASE RecordFailure(c)
  <2>1. CASE run[c].answer = "lost"
    BY <1>0, <1>3, <2>1, Settled DEF RecordFailure
  <2>2. CASE run[c].answer # "lost"
    BY <1>0, <1>3, <2>2, Settled DEF RecordFailure
  <2> QED BY <2>1, <2>2
<1>4. CASE RecordSent(c)
  BY <1>4, RecordSentKeeps
<1>5. CASE Verified(c)
  <2>1. run[c].signal \in Signals
    BY <1>5 DEF Verified, IInv, RunsTell
  <2>2. PICK t \in Matches(run[c].signal, run[c].ticket) : Save(run[c].signal, "verified", t)
    BY <1>5 DEF Verified
  <2>3. t \in Tickets
    BY <2>1, MatchesAreSignals DEF Tickets
  <2> QED BY <1>5, <2>2, <2>3, Settled DEF Verified
<1>6. CASE LookAgain(c)
  <2> DEFINE q == [run[c] EXCEPT !.tries = run[c].tries + 1]
  <2>1. q \in Runs /\ q.step = "verify" /\ q.signal = run[c].signal
    <3>1. run[c] \in Runs /\ run[c].step = "verify"
      BY <1>6 DEF LookAgain, IInv, TypeOK
    <3> QED BY <3>1 DEF Runs
  <2>2. run' = [run EXCEPT ![c] = q]
    BY <1>6 DEF LookAgain, IInv, TypeOK
  <2>3. UNCHANGED <<account, pos, orders, record, mirror, sync, mishaps>>
    BY <1>6 DEF LookAgain, broker, tables
  <2>4. run' \in [Callers -> Runs] /\ \A d \in Callers : run'[d] = IF d = c THEN q ELSE run[d]
    BY <2>1, <2>2 DEF IInv, TypeOK
  <2>5. TypeOK'
    BY <2>3, <2>4 DEF IInv, TypeOK
  <2>6. RunsTell' /\ OneHolds'
    BY <1>6, <2>1, <2>3, <2>4 DEF LookAgain, IInv, RunsTell, OneHolds, Holding
  <2> QED BY <2>3, <2>5, <2>6, Frame DEF IInv
<1>7. CASE Unverified(c)
  BY <1>0, <1>7, Settled DEF Unverified
<1> QED BY <1>1, <1>2, <1>3, <1>4, <1>5, <1>6, <1>7 DEF Proceed

LEMMA SynchronizeKeeps ==
  ASSUME IInv, Synchronize \/ SyncFails
  PROVE  IInv'
<1>0. sync \in SyncStates
  BY DEF IInv, TypeOK, SyncStates
<1>1. CASE SyncRead
  <2>0. UNCHANGED <<account, pos, orders, record, mirror, run, mishaps>>
    BY <1>1 DEF SyncRead, broker, tables
  <2> DEFINE marks == [s \in Signals |-> IF s \in Listed THEN pos[s].mark ELSE 0]
  <2>1. marks \in [Signals -> Nat] /\ \A s \in Listed : marks[s] = pos[s].mark
    <3>1. \A s \in Signals : pos[s].mark \in Nat
      BY DEF IInv, TypeOK, Positions
    <3> QED BY <3>1, ListedAreSignals
  <2>2. sync' = [sync EXCEPT !.step = "write", !.todo = Listed, !.marks = marks]
    BY <1>1 DEF SyncRead
  <2> HIDE DEF marks
  <2>3. /\ sync' \in SyncStates /\ sync'.step = "write" /\ sync'.todo = Listed
        /\ sync'.marks = marks /\ sync'.switched = sync.switched
    BY <1>0, <2>1, <2>2, ListedAreSignals DEF SyncStates
  <2>4. account = "demo" \/ sync.switched
    BY <1>1 DEF SyncRead, IInv, ReadingsReal
  <2>5. \A s \in Listed : /\ pos[s].state # "none" /\ marks[s] \in Marks[s]
                          /\ (pos[s].account = "demo" \/ sync.switched)
    BY <2>1, <2>4 DEF Listed, IInv, OrderedOnce
  <2>6. ReadingsReal'
    <3>1. \A s \in sync'.todo : /\ pos'[s].state # "none" /\ sync'.marks[s] \in Marks[s]
                                /\ (pos'[s].account = "demo" \/ sync'.switched)
      BY <2>0, <2>3, <2>5
    <3>2. sync'.step \notin {"list", "market", "manage"}
      BY <2>3
    <3> QED BY <3>1, <3>2 DEF ReadingsReal
  <2>7. TypeOK'
    BY <2>0, <2>3 DEF IInv, TypeOK, SyncStates
  <2> QED BY <2>0, <2>6, <2>7, Frame DEF IInv
<1>2. ASSUME sync' = IdleSync, UNCHANGED <<broker, tables, run>>, mishaps' \in 0..MaxMishaps
      PROVE  IInv'
  <2>0. UNCHANGED <<account, pos, orders, record, mirror, run>>
    BY <1>2 DEF broker, tables
  <2>1. TypeOK'
    BY <1>2, <2>0, IdleSyncType DEF IInv, TypeOK, SyncStates
  <2>2. ReadingsReal'
    BY <1>2, IdleSyncType DEF ReadingsReal, Writing
  <2> QED BY <2>0, <2>1, <2>2, Frame DEF IInv
<1>3. ASSUME NEW s \in Signals, NEW row \in Rows,
             mirror' = [mirror EXCEPT ![s] = row],
             sync' \in SyncStates, sync'.marks = sync.marks, sync'.switched = sync.switched,
             sync'.todo \subseteq sync.todo, sync.step \in Writing, sync'.step \in Writing,
             sync'.step \in {"market", "manage"} => sync'.row \in sync'.todo,
             sync'.step = "manage" => sync'.row = s /\ row.mark \in Marks[s],
             UNCHANGED <<broker, record, run, mishaps>>
      PROVE  IInv'
  <2>0. UNCHANGED <<account, pos, orders, record, run, mishaps>>
    BY <1>3 DEF broker
  <2>1. TypeOK'
    BY <1>3, <2>0 DEF IInv, TypeOK, SyncStates, Rows
  <2>2. mirror'[s] = row
    BY <1>3 DEF IInv, TypeOK
  <2>3. ReadingsReal'
    BY <1>3, <2>0, <2>2 DEF IInv, ReadingsReal, Writing
  <2> QED BY <2>0, <2>1, <2>3, Frame DEF IInv
<1>4. CASE SyncBlocked \/ SyncAccount
  BY <1>2, <1>4 DEF SyncBlocked, SyncAccount, IInv, TypeOK
<1>5. CASE SyncFails
  <2>1. mishaps' \in 0..MaxMishaps
    BY <1>5 DEF SyncFails, IInv, TypeOK
  <2> QED BY <1>2, <1>5, <2>1 DEF SyncFails
<1>6. CASE SyncCheck
  <2>0. UNCHANGED <<account, pos, orders, record, mirror, run, mishaps>> /\ account = "demo"
    BY <1>6 DEF SyncCheck, broker, tables
  <2>1. sync' \in SyncStates /\ sync'.step = "list"
    BY <1>0, <1>6 DEF SyncCheck, SyncStates
  <2>2. TypeOK' /\ ReadingsReal'
    BY <2>0, <2>1 DEF IInv, TypeOK, SyncStates, ReadingsReal, Writing
  <2> QED BY <2>0, <2>2, Frame DEF IInv
<1>7. ASSUME NEW s \in Signals, SyncCreate(s)
      PROVE  IInv'
  <2>1. Entry[s] \in Nat
    BY MarksAreNat
  <2>2. sync' = [sync EXCEPT !.step = "market", !.row = s] /\ s \in sync.todo
    BY <1>7 DEF SyncCreate
  <2>3. /\ sync' \in SyncStates /\ sync'.marks = sync.marks /\ sync'.switched = sync.switched
        /\ sync'.todo = sync.todo /\ sync'.step = "market" /\ sync'.row = s
    BY <1>0, <2>2 DEF SyncStates, Tickets
  <2> DEFINE row == [status |-> "created", mark |-> Entry[s]]
  <2>4. row \in Rows
    BY <2>1 DEF Rows
  <2>5. mirror' = [mirror EXCEPT ![s] = row] /\ sync.step \in Writing
        /\ UNCHANGED <<broker, record, run, mishaps>>
    BY <1>7 DEF SyncCreate, Writing
  <2> HIDE DEF row
  <2> QED BY <1>3, <2>2, <2>3, <2>4, <2>5 DEF Writing
<1>8. ASSUME NEW s \in Signals, SyncMarket(s)
      PROVE  IInv'
  <2>1. s \in sync.todo /\ sync.step \in Writing /\ sync.marks[s] \in Marks[s]
    BY <1>8 DEF SyncMarket, InHand, IInv, ReadingsReal, Writing
  <2>2. sync' = [sync EXCEPT !.step = "manage", !.row = s]
    BY <1>8 DEF SyncMarket
  <2>3. /\ sync' \in SyncStates /\ sync'.marks = sync.marks /\ sync'.switched = sync.switched
        /\ sync'.todo = sync.todo /\ sync'.step = "manage" /\ sync'.row = s
    BY <1>0, <2>2 DEF SyncStates, Tickets
  <2> DEFINE row == [mirror[s] EXCEPT !.mark = sync.marks[s]]
  <2>4. row \in Rows /\ row.mark = sync.marks[s]
    <3>1. mirror[s] \in Rows /\ sync.marks[s] \in Nat
      BY <1>0 DEF IInv, TypeOK, Rows, SyncStates
    <3> QED BY <3>1 DEF Rows
  <2>5. mirror' = [mirror EXCEPT ![s] = row] /\ UNCHANGED <<broker, record, run, mishaps>>
    BY <1>8 DEF SyncMarket
  <2> HIDE DEF row
  <2> QED BY <1>3, <2>1, <2>3, <2>4, <2>5 DEF Writing
<1>9. CASE SyncManage
  <2> DEFINE s == sync.row
  <2>1. s \in sync.todo /\ sync.step = "manage" /\ s \in Signals
    BY <1>0, <1>9 DEF SyncManage, IInv, ReadingsReal, SyncStates
  <2>2. sync' = [sync EXCEPT !.step = "write", !.row = "none", !.todo = sync.todo \ {s}]
    BY <1>9 DEF SyncManage
  <2>3. /\ sync' \in SyncStates /\ sync'.marks = sync.marks /\ sync'.switched = sync.switched
        /\ sync'.todo \subseteq sync.todo /\ sync'.step = "write"
    BY <1>0, <2>2 DEF SyncStates, Tickets
  <2> DEFINE row == [mirror[s] EXCEPT !.status = "synchronized"]
  <2>4. row \in Rows
    <3>1. mirror[s] \in Rows
      BY <2>1 DEF IInv, TypeOK, Rows
    <3> QED BY <3>1 DEF Rows
  <2>5. mirror' = [mirror EXCEPT ![s] = row] /\ UNCHANGED <<broker, record, run, mishaps>>
    BY <1>9 DEF SyncManage
  <2> HIDE DEF row, s
  <2> QED BY <1>3, <2>1, <2>3, <2>4, <2>5 DEF Writing
<1> QED BY <1>1, <1>4, <1>5, <1>6, <1>7, <1>8, <1>9 DEF Synchronize

LEMMA CrashKeeps ==
  ASSUME IInv, Crash
  PROVE  IInv'
<1>0. UNCHANGED <<account, pos, orders, record, mirror>>
  BY DEF Crash, broker, tables
<1>1. run' \in [Callers -> Runs] /\ \A c \in Callers : run'[c].step = "idle"
  BY IdleIsRun DEF Crash
<1>2. mishaps' \in 0..MaxMishaps
  BY DEF Crash, IInv, TypeOK
<1>3. TypeOK'
  BY <1>0, <1>1, <1>2, IdleSyncType DEF Crash, IInv, TypeOK, SyncStates
<1>4. RunsTell' /\ OneHolds'
  BY <1>1 DEF RunsTell, OneHolds, Holding
<1>5. ReadingsReal'
  BY IdleSyncType DEF Crash, ReadingsReal, Writing
<1> QED BY <1>0, <1>3, <1>4, <1>5, Frame DEF IInv

LEMMA NextKeeps == IInv /\ [Next]_vars => IInv'
<1> SUFFICES ASSUME IInv, [Next]_vars PROVE IInv'
  OBVIOUS
<1>1. CASE UNCHANGED vars
  BY <1>1, Frame DEF vars, IInv, TypeOK
<1>2. CASE Broker
  BY <1>2, BrokerKeeps
<1>3. CASE Synchronize \/ SyncFails
  BY <1>3, SynchronizeKeeps
<1>4. CASE Crash
  BY <1>4, CrashKeeps
<1>5. ASSUME NEW c \in Callers, Evaluate(c) \/ Proceed(c)
      PROVE  IInv'
  BY <1>5, EvaluateKeeps, ProceedKeeps
<1> QED BY <1>1, <1>2, <1>3, <1>4, <1>5 DEF Next

LEMMA InvariantHolds == Spec => []IInv
BY InitIInv, NextKeeps, PTL DEF Spec

-----------------------------------------------------------------------------

\* An execution record never lies about the order behind it, whatever dies,
\* fails or goes unanswered (evaluate_and_execute).
THEOREM RecordsAreTrue == Spec => []RecordsTellOrders
<1>1. IInv => RecordsTellOrders
  BY DEF IInv
<1> QED BY <1>1, InvariantHolds, PTL

\* The step that writes a row writes what was read of the broker.
LEMMA RowsAreRead ==
  ASSUME IInv, [Next]_vars, NEW s \in Signals, mirror'[s] # mirror[s]
  PROVE  /\ pos[s].state # "none" /\ mirror'[s].mark \in Marks[s]
         /\ pos[s].account = "demo" \/ sync.switched
<1> USE DEF IInv, ReadingsReal, Writing
<1>1. PICK t \in Signals : SyncCreate(t) \/ SyncMarket(t) \/ (SyncManage /\ t = sync.row)
  <2>1. \/ SyncManage \/ \E t \in Signals : SyncCreate(t) \/ SyncMarket(t)
        \/ UNCHANGED mirror
    BY DEF Next, vars, Broker, SwitchAccount, Show, Reprice, BrokerCloses, tables,
           Synchronize, SyncCheck, SyncBlocked, SyncRead, SyncAccount, SyncFails, Crash,
           Evaluate, EvaluateToNothing, Reserve, BlockDuplicate,
           Proceed, CheckFails, Send, RecordFailure, RecordSent, Verified, LookAgain, Unverified
  <2>2. SyncManage => sync.row \in Signals
    BY DEF SyncManage, TypeOK
  <2> QED BY <2>1, <2>2
<1>2. t = s /\ t \in sync.todo /\ sync.step \in Writing
  BY <1>1 DEF SyncCreate, SyncMarket, SyncManage, InHand, TypeOK
<1>3. mirror'[s].mark \in Marks[s]
  <2>0. mirror \in [Signals -> Rows]
    BY DEF TypeOK, Rows
  <2>1. CASE SyncCreate(s)
    BY <2>0, <2>1 DEF SyncCreate
  <2>2. CASE SyncMarket(s)
    <3>1. mirror'[s] = [mirror[s] EXCEPT !.mark = sync.marks[s]]
      BY <2>0, <2>2 DEF SyncMarket
    <3>2. mirror'[s].mark = sync.marks[s]
      BY <2>0, <3>1 DEF Rows
    <3> QED BY <1>2, <3>2
  <2>3. CASE SyncManage
    <3>1. mirror'[s] = [mirror[s] EXCEPT !.status = "synchronized"] /\ sync.row = s
      BY <1>1, <1>2, <2>0, <2>3 DEF SyncManage
    <3>2. mirror'[s].mark = mirror[s].mark
      BY <2>0, <3>1 DEF Rows
    <3> QED BY <2>3, <3>1, <3>2 DEF SyncManage
  <2> QED BY <1>1, <1>2, <2>1, <2>2, <2>3
<1> QED BY <1>2, <1>3

\* A row is only written for a position the broker made, at a price it had, and
\* for one of the real account only where the terminal was switched between the
\* check of the account and the listing (synchronize_demo_positions).
THEOREM CanonicalRowsAreReal == Spec => MirrorIsReal
<1>1. IInv /\ [Next]_vars =>
        [\A s \in Signals : mirror'[s] # mirror[s] =>
           /\ pos[s].state # "none" /\ mirror'[s].mark \in Marks[s]
           /\ pos[s].account = "demo" \/ sync.switched]_vars
  BY RowsAreRead
<1> QED BY <1>1, InvariantHolds, PTL DEF Spec, MirrorIsReal

\* Records, runs, positions and canonical rows keep their types.
THEOREM DemoTypeCorrect == Spec => []TypeOK
<1>1. IInv => TypeOK
  BY DEF IInv
<1> QED BY <1>1, InvariantHolds, PTL

-----------------------------------------------------------------------------
(* The refinement of SignalLedger                                          *)

LEMMA ClaimsChange ==
  ASSUME NEW s \in Signals, NEW v, Claims'[s] = v,
         \A t \in Signals : t # s => Claims'[t] = Claims[t]
  PROVE  Claims' = [Claims EXCEPT ![s] = v]
<1>1. DOMAIN Claims = Signals /\ DOMAIN Claims' = Signals
  BY DEF Claims
<1>2. Claims' = [t \in Signals |-> Claims'[t]]
  BY DEF Claims
<1> QED BY <1>1, <1>2

\* The claim on a signal only depends on whether it is recorded, ordered and
\* owned.
LEMMA SameClaim ==
  ASSUME NEW s \in Signals,
         record'[s].status = "none" <=> record[s].status = "none",
         orders'[s] = orders[s],
         Owned(s)' <=> Owned(s)
  PROVE  Claims'[s] = Claims[s]
BY DEF Claims

LEMMA Stutter ==
  ASSUME UNCHANGED orders,
         \A s \in Signals : /\ record'[s].status = "none" <=> record[s].status = "none"
                            /\ Owned(s)' <=> Owned(s)
  PROVE  UNCHANGED <<Claims, orders>>
<1>1. \A s \in Signals : Claims'[s] = Claims[s]
  BY SameClaim
<1> QED BY <1>1 DEF Claims

\* Steps that neither record, nor order, nor begin or end a reservation.
LEMMA QuietStep ==
  ASSUME IInv, UNCHANGED orders,
         \A s \in Signals : record'[s].status = "none" <=> record[s].status = "none",
         \A c \in Callers : \/ run'[c] = run[c]
                            \/ run[c].step # "reserved" /\ run'[c].step # "reserved"
  PROVE  UNCHANGED <<Claims, orders>>
<1>1. \A s \in Signals : Owned(s)' <=> Owned(s)
  BY DEF Owned
<1> QED BY <1>1, Stutter

LEMMA ClaimOf ==
  ASSUME NEW s \in Signals
  PROVE  Claims[s] = IF record[s].status = "none" THEN "free"
                     ELSE IF orders[s] > 0 THEN "ordered"
                     ELSE IF Owned(s) THEN "claimed" ELSE "abandoned"
BY DEF Claims

LEMMA NextClaimOf ==
  ASSUME NEW s \in Signals
  PROVE  Claims'[s] = IF record'[s].status = "none" THEN "free"
                      ELSE IF orders'[s] > 0 THEN "ordered"
                      ELSE IF Owned(s)' THEN "claimed" ELSE "abandoned"
BY DEF Claims

LEMMA ReserveClaims ==
  ASSUME IInv, NEW c \in Callers, NEW s \in Signals, Reserve(c, s)
  PROVE  Ledger!Claim(s)
<1>1. /\ UNCHANGED orders /\ orders[s] = 0 /\ run[c].step = "idle"
      /\ record[s].status = "none" /\ record'[s].status = "pending"
      /\ \A t \in Signals : t # s => record'[t] = record[t]
      /\ \A d \in Callers : d # c => run'[d] = run[d]
      /\ run'[c].step = "reserved" /\ run'[c].signal = s
  BY DEF Reserve, MayStart, broker, IInv, TypeOK, RecordsTellOrders, Idle
<1>2. Owned(s)'
  BY <1>1 DEF Owned
<1>3. Claims[s] = "free"
  BY <1>1, ClaimOf
<1>4. Claims'[s] = "claimed"
  BY <1>1, <1>2, NextClaimOf
<1>5. ASSUME NEW t \in Signals, t # s
      PROVE  Claims'[t] = Claims[t]
  <2>1. Owned(t)' <=> Owned(t)
    BY <1>1, <1>5 DEF Owned
  <2> QED BY <1>1, <1>5, <2>1, SameClaim
<1> QED BY <1>1, <1>3, <1>4, <1>5, ClaimsChange DEF Ledger!Claim

\* Of the reservations there are, at most one, one ends.
LEMMA GivenUp ==
  ASSUME IInv, NEW c \in Callers, run[c].step = "reserved", UNCHANGED orders,
         \A t \in Signals : record'[t].status = "none" <=> record[t].status = "none",
         \A d \in Callers : run'[d].step # "reserved"
  PROVE  Ledger!Abandon(run[c].signal)
<1> DEFINE s == run[c].signal
<1>1. s \in Signals /\ record[s].status = "pending" /\ orders[s] = 0
  BY DEF IInv, RunsTell
<1>2. Owned(s) /\ \A t \in Signals : ~Owned(t)'
  BY DEF Owned
<1>3. Claims[s] = "claimed"
  BY <1>1, <1>2, ClaimOf
<1>4. Claims'[s] = "abandoned"
  BY <1>1, <1>2, NextClaimOf
<1>5. ASSUME NEW t \in Signals, t # s
      PROVE  Claims'[t] = Claims[t]
  <2>1. ~Owned(t) /\ ~Owned(t)'
    BY <1>5 DEF Owned, IInv, OneHolds, Holding
  <2> QED BY <1>5, <2>1, SameClaim
<1> QED BY <1>1, <1>3, <1>4, <1>5, ClaimsChange DEF Ledger!Abandon

LEMMA SendOrders ==
  ASSUME IInv, NEW c \in Callers, Send(c)
  PROVE  Ledger!Order(run[c].signal)
<1> DEFINE s == run[c].signal
<1>1. s \in Signals /\ record[s].status = "pending" /\ orders[s] = 0 /\ run[c].step = "reserved"
  BY DEF Send, IInv, RunsTell
<1>2. /\ UNCHANGED record
      /\ orders' = [orders EXCEPT ![s] = orders[s] + 1]
      /\ \A d \in Callers : d # c => run'[d] = run[d]
      /\ run'[c].step = "answered"
  BY SendAnswers DEF Send, tables
<1>3. orders'[s] = 1 /\ \A t \in Signals : t # s => orders'[t] = orders[t]
  BY <1>1, <1>2 DEF IInv, TypeOK
<1>4. Claims[s] = "claimed"
  BY <1>1, ClaimOf DEF Owned
<1>5. Claims'[s] = "ordered"
  BY <1>1, <1>2, <1>3, NextClaimOf
<1>6. ASSUME NEW t \in Signals, t # s
      PROVE  Claims'[t] = Claims[t]
  <2>1. Owned(t)' <=> Owned(t)
    BY <1>2, <1>6 DEF Owned
  <2> QED BY <1>2, <1>3, <1>6, <2>1, SameClaim
<1>7. Claims' = [Claims EXCEPT ![s] = "ordered"]
  BY <1>1, <1>5, <1>6, ClaimsChange
<1> QED BY <1>2, <1>4, <1>7 DEF Ledger!Order

LEMMA SaveClaimsNothing ==
  ASSUME TypeOK, NEW s \in Signals, record[s].status # "none",
         NEW status, status # "none", NEW ticket, Save(s, status, ticket)
  PROVE  \A t \in Signals : record'[t].status = "none" <=> record[t].status = "none"
<1> DEFINE new == [status |-> status,
                   ticket |-> IF ticket = "none" THEN record[s].ticket ELSE ticket]
<1>1. record' = [record EXCEPT ![s] = new] \/ record' = record
  BY DEF Save, Updated, TypeOK
<1>2. new.status # "none"
  OBVIOUS
<1>3. DOMAIN record = Signals
  BY DEF TypeOK
<1> HIDE DEF new
<1> QED BY <1>1, <1>2, <1>3

LEMMA ProceedRefines ==
  ASSUME IInv, NEW c \in Callers, Proceed(c)
  PROVE  Ledger!Next \/ UNCHANGED <<Claims, orders>>
<1> DEFINE s == run[c].signal
<1>0. run[c] \in Runs /\ \A d \in Callers : Finish(c) => run'[d] = IF d = c THEN Idle ELSE run[d]
  BY Finished DEF IInv, TypeOK
<1>1. ASSUME NEW status \in Statuses \ {"none"}, NEW ticket, s \in Signals,
             record[s].status # "none", Save(s, status, ticket)
      PROVE  \A t \in Signals : record'[t].status = "none" <=> record[t].status = "none"
  BY <1>1, SaveClaimsNothing DEF IInv
<1>2. CASE CheckFails(c)
  <2>1. s \in Signals /\ record[s].status = "pending" /\ run[c].step = "reserved"
        /\ UNCHANGED orders /\ Finish(c)
    BY <1>2 DEF CheckFails, broker, IInv, RunsTell
  <2>2. \A t \in Signals : record'[t].status = "none" <=> record[t].status = "none"
    BY <1>1, <1>2, <2>1 DEF CheckFails, Statuses
  <2>3. \A d \in Callers : run'[d].step # "reserved"
    BY <1>0, <2>1, IdleIsRun DEF IInv, OneHolds, Holding
  <2> QED BY <2>1, <2>2, <2>3, GivenUp DEF Ledger!Next
<1>3. CASE Send(c)
  <2>1. s \in Signals
    BY <1>3 DEF Send, IInv, RunsTell
  <2> QED BY <1>3, <2>1, SendOrders DEF Ledger!Next
<1>4. CASE RecordFailure(c)
  <2>1. s \in Signals /\ record[s].status = "pending" /\ run[c].step = "answered"
        /\ UNCHANGED orders /\ Finish(c)
    BY <1>4 DEF RecordFailure, broker, IInv, RunsTell
  <2>2. \A t \in Signals : record'[t].status = "none" <=> record[t].status = "none"
    BY <1>1, <1>4, <2>1 DEF RecordFailure, Statuses
  <2> QED BY <1>0, <2>1, <2>2, IdleIsRun, QuietStep
<1>5. CASE RecordSent(c)
  <2>1. s \in Signals /\ record[s].status = "pending" /\ run[c].step = "answered"
        /\ UNCHANGED orders
    BY <1>5 DEF RecordSent, broker, IInv, RunsTell
  <2>2. \A t \in Signals : record'[t].status = "none" <=> record[t].status = "none"
    BY <1>1, <1>5, <2>1 DEF RecordSent, Save, Statuses
  <2>3. \A d \in Callers : \/ run'[d] = run[d]
                           \/ run[d].step # "reserved" /\ run'[d].step # "reserved"
    <3>1. CASE Finish(c)
      BY <1>0, <2>1, <3>1, IdleIsRun
    <3>2. CASE run' = [run EXCEPT ![c].step = "verify", ![c].answer = "none"]
      BY <2>1, <3>2 DEF IInv, TypeOK, Runs
    <3> QED BY <1>5, <3>1, <3>2 DEF RecordSent
  <2> QED BY <2>1, <2>2, <2>3, QuietStep
<1>6. CASE Verified(c) \/ Unverified(c)
  <2>1. s \in Signals /\ record[s].status # "none" /\ run[c].step = "verify"
        /\ UNCHANGED orders /\ Finish(c)
    BY <1>6 DEF Verified, Unverified, broker, IInv, RunsTell
  <2>2. \A t \in Signals : record'[t].status = "none" <=> record[t].status = "none"
    BY <1>1, <1>6, <2>1 DEF Verified, Unverified, Statuses
  <2> QED BY <1>0, <2>1, <2>2, IdleIsRun, QuietStep
<1>7. CASE LookAgain(c)
  <2>1. UNCHANGED <<orders, record>> /\ run[c].step = "verify"
    BY <1>7 DEF LookAgain, broker, tables
  <2>2. run'[c].step = "verify" /\ \A d \in Callers : d # c => run'[d] = run[d]
    BY <1>0, <1>7 DEF LookAgain, IInv, TypeOK, Runs
  <2> QED BY <2>1, <2>2, QuietStep
<1> QED BY <1>2, <1>3, <1>4, <1>5, <1>6, <1>7 DEF Proceed

LEMMA StepRefines ==
  ASSUME IInv, [Next]_vars
  PROVE  [Ledger!Next]_<<Claims, orders>>
<1>1. CASE UNCHANGED vars
  BY <1>1, QuietStep DEF vars
<1>2. CASE Broker
  BY <1>2, QuietStep DEF Broker, SwitchAccount, Show, Reprice, BrokerCloses, tables
<1>3. CASE Synchronize \/ SyncFails
  BY <1>3, QuietStep DEF Synchronize, SyncCheck, SyncRead, SyncBlocked, SyncAccount, SyncFails,
                         SyncCreate, SyncMarket, SyncManage, broker, tables
<1>4. CASE Crash
  <2>0. UNCHANGED <<orders, record>> /\ \A d \in Callers : run'[d].step = "idle"
    BY <1>4, IdleIsRun DEF Crash, broker, tables
  <2>1. CASE \E c \in Callers : run[c].step = "reserved"
    <3>1. PICK c \in Callers : run[c].step = "reserved"
      BY <2>1
    <3>2. Ledger!Abandon(run[c].signal)
      BY <2>0, <3>1, GivenUp
    <3>3. run[c].signal \in Signals
      BY <3>1 DEF IInv, RunsTell
    <3> QED BY <3>2, <3>3 DEF Ledger!Next
  <2>2. CASE ~\E c \in Callers : run[c].step = "reserved"
    BY <2>0, <2>2, QuietStep
  <2> QED BY <2>1, <2>2
<1>5. ASSUME NEW c \in Callers, EvaluateToNothing(c) \/ \E s \in Signals : BlockDuplicate(c, s)
      PROVE  UNCHANGED <<Claims, orders>>
  <2>1. UNCHANGED <<orders, record>> /\ run[c].step = "idle" /\ Finish(c)
    BY <1>5 DEF EvaluateToNothing, BlockDuplicate, MayStart, broker, tables
  <2> QED BY <2>1, Finished, IdleIsRun, QuietStep
<1>6. ASSUME NEW c \in Callers, NEW s \in Signals, Reserve(c, s)
      PROVE  Ledger!Next
  BY <1>6, ReserveClaims DEF Ledger!Next
<1>7. ASSUME NEW c \in Callers, Proceed(c)
      PROVE  Ledger!Next \/ UNCHANGED <<Claims, orders>>
  BY <1>7, ProceedRefines
<1> QED BY <1>1, <1>2, <1>3, <1>4, <1>5, <1>6, <1>7 DEF Next, Evaluate

\* The two callers of evaluate_and_execute are, together and whatever fails,
\* the idempotent ledger: one order at most for a signal, and a reservation
\* that was given up is never ordered for.
THEOREM ExecutorIsLedger == Spec => ImplementsSignalLedger
<1>1. Init => Ledger!Init
  BY IdleIsRun DEF Init, Ledger!Init, Claims
<1>2. IInv /\ [Next]_vars => [Ledger!Next]_<<Claims, orders>>
  BY StepRefines
<1> QED BY <1>1, <1>2, InvariantHolds, PTL DEF Spec, ImplementsSignalLedger, Ledger!Spec

=============================================================================
