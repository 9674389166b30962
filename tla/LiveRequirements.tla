-------------------------- MODULE LiveRequirements --------------------------
(***************************************************************************)
(* What LiveExecution must guarantee, and what the source says it does.    *)
(***************************************************************************)
EXTENDS LiveExecution

Positions == [status : {"none", "refused", "open", "closed"}, side : Sides,
              entry : Nat, volume : Nat, stop : Nat]

Records == [client : {Client[o] : o \in Orders}, ticket : Orders,
            volume : Nat \ {0}, stop : Nat \ {0}]

SeenAt == [got : {"no", "yes", "error"}, at : [Orders -> Positions]]

CallSteps == ReadingCall \cup Over \cup {"idle", "heartbeat", "quote", "check", "send"}

Calls == [step : CallSteps, book : Seq(Records), seen : SeenAt]

Cycles == [step : ReadingTask \cup {"idle", "walk", "modify"}, book : Seq(Records),
           seen : SeenAt, todo : SUBSET Orders, ticket : SUBSET Orders,
           stop : Nat, modified : BOOLEAN]

Messages == [kind : {"order", "stop"}, order : Orders, by : Tasks \cup {"gateway"},
             stop : Nat]

\* Type invariant of the broker, the registry, the gates and the actors.
TypeOK ==
  /\ pos \in [Orders -> Positions]
  /\ wire \subseteq Messages
  /\ registry \in Seq(Records)
  /\ <<reconciled, armed, authorized, beating, halted>> \in
       BOOLEAN \X BOOLEAN \X BOOLEAN \X BOOLEAN \X BOOLEAN
  /\ call \in [Orders -> Calls]
  /\ task \in [Tasks -> Cycles]
  /\ crashes \in 0 .. MaxCrashes

\* Request o leaves for the broker in this step.
Sends(o) == OrderMessage(o) \in wire' /\ OrderMessage(o) \notin wire

Unregistered == {t \in Orders : IsOpen(pos[t]) /\ t \notin Tickets(registry)}

-----------------------------------------------------------------------------
(* Positions nobody knows                                                  *)

\* An order is sent past a position Raymond does not know only if that
\* position opened after the order's own last look at the broker: one left
\* by a dead process, by a lost or unverified fill, or without a stop, keeps
\* blocking every later order for as long as it is open
\* (_require_fresh_position_monitor before order_send).
NoSendPastOrphan ==
  [][\A o \in Orders : Sends(o) =>
       \A t \in Unregistered : ~ IsOpen(call[o].seen.at[t])]_vars

\* A verified order's own position is on record while it is open, although
\* verification may have registered another order's ticket under its id
\* (_verify_position takes any position of the side).
VerifiedIsOnRecord ==
  \A o \in Orders :
    call[o].step = "verified" /\ IsOpen(pos[o]) => o \in Tickets(registry)

\* No registered position is without a stop at the broker, whoever filled
\* it, verified it or moved its stop ("Further live orders must remain
\* blocked").
RegisteredIsProtected ==
  \A t \in Tickets(registry) : pos[t].status \in {"open", "closed"} /\ pos[t].stop > 0

\* Every request is answered, whatever the broker and the other calls do
\* (execute has a return or a raise behind every await).
EveryCallEnds ==
  \A o \in Orders : call[o].step # "idle" ~> call[o].step \in Over

-----------------------------------------------------------------------------
(* Stops                                                                   *)

\* The stop of an open position is never moved away from the price
\* (live_position_protection: "Never widen an existing stop-loss").
StopNeverWidened ==
  [][\A o \in Orders : IsOpen(pos[o]) /\ IsOpen(pos'[o]) =>
       IF pos[o].side = "buy" THEN pos'[o].stop >= pos[o].stop
                              ELSE pos'[o].stop <= pos[o].stop]_vars

-----------------------------------------------------------------------------
(* Stopping the gateway                                                    *)

\* The emergency stop is "preventing any new executions" (README).
HaltStopsOrders == [][\A o \in Orders : Sends(o) => ~ halted]_vars
=============================================================================
