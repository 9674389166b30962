-------------------------- MODULE DemoRequirements --------------------------
(***************************************************************************)
(* What DemoExecution must guarantee.                                      *)
(***************************************************************************)
EXTENDS DemoExecution

Statuses == {"none", "pending", "order_check_rejected",
             "order_send_failed", "broker_rejected", "sent", "sent_unverified",
             "verified"}

Tickets == Signals \cup {"none"}

Runs == [step : {"idle", "reserved", "answered", "verify"},
         signal : Tickets, answer : {"none", "done", "lost", "rejected"},
         ticket : Tickets, tries : Nat]

Positions == [state : {"none", "open", "closed"}, shown : BOOLEAN, mark : Nat,
              account : {"demo", "real"}]

\* Type invariant of the records, the runs and the canonical rows.
TypeOK ==
  /\ account \in {"demo", "real"}
  /\ pos \in [Signals -> Positions]
  /\ orders \in [Signals -> Nat]
  /\ record \in [Signals -> [status : Statuses, ticket : Tickets]]
  /\ run \in [Callers -> Runs]
  /\ sync \in [step : {"idle", "read", "list", "write", "market", "manage"},
               todo : SUBSET Signals, row : Tickets, switched : BOOLEAN,
               marks : [Signals -> Nat]]
  /\ mirror \in [Signals -> [status : {"none", "created", "synchronized"}, mark : Nat]]
  /\ mishaps \in 0 .. MaxMishaps

-----------------------------------------------------------------------------
(* One order per signal                                                    *)

\* Somebody is between the commit of the record and the answer for s.
Owned(s) == \E c \in Callers : run[c].step = "reserved" /\ run[c].signal = s

\* The ledger a reader of the execution records and of the calls into the
\* broker sees.
Claims ==
  [s \in Signals |-> IF record[s].status = "none" THEN "free"
                    ELSE IF orders[s] > 0 THEN "ordered"
                    ELSE IF Owned(s) THEN "claimed" ELSE "abandoned"]

Ledger == INSTANCE SignalLedger WITH claim <- Claims, sent <- orders

\* "Duplicate execution is blocked persistently": whatever the two callers
\* do, and whatever dies or fails in between, the executor is the idempotent
\* ledger of SignalLedger.  In particular a record left pending by a crash
\* is never used for an order again.
ImplementsSignalLedger == Ledger!Spec

\* A record that says the order was refused before it was sent has no
\* order behind it, and every order has a record.
RecordsTellOrders ==
  \A s \in Signals :
    /\ record[s].status = "none" => orders[s] = 0
    /\ record[s].status = "order_check_rejected" => orders[s] = 0
    /\ record[s].status \in {"sent", "sent_unverified", "verified", "broker_rejected",
                             "order_send_failed"} => orders[s] = 1

-----------------------------------------------------------------------------
(* Progress                                                                *)

\* Every evaluation comes to an end: the loop is never held for ever, and
\* verification gives up.
EveryRunEnds == \A c \in Callers : []<>(run[c].step = "idle")

Standing(s, m) ==
  /\ account = "demo" /\ pos[s].account = "demo"
  /\ pos[s].state = "open" /\ pos[s].shown /\ pos[s].mark = m

\* "An existing MT5 position can still have changed floating P/L" (run_once):
\* a position that stays open at a price is in the canonical table at that
\* price in the end, although nobody evaluates its signal any more and the
\* process died between two commits of its row.
MirrorCatchesUp ==
  \A s \in Signals : \A m \in Marks[s] :
    <>[]Standing(s, m) => <>[](mirror[s] = [status |-> "synchronized", mark |-> m])

\* A row of the canonical table is only created or marked for a position the
\* broker made, at a price that position had; and for a position of the real
\* account only by a cycle in which the terminal was switched between the check
\* of the account and the listing of the positions, which are two calls
\* (synchronize_demo_positions, demo_canonical_sync.py:330-354).  Once a cycle
\* sees the other account it writes nothing.
MirrorIsReal ==
  [][\A s \in Signals : mirror'[s] # mirror[s] =>
       /\ pos[s].state # "none" /\ mirror'[s].mark \in Marks[s]
       /\ pos[s].account = "demo" \/ sync.switched]_vars
=============================================================================
