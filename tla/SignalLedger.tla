---------------------------- MODULE SignalLedger ----------------------------
(***************************************************************************)
(* What an idempotent executor promises about trading signals: a signal is *)
(* claimed before anything is sent for it, a claim is used for one order   *)
(* at most, and a claim whose owner gave up is never taken up again.       *)
(***************************************************************************)
EXTENDS Naturals

CONSTANT Signals

VARIABLES
  claim,   \* claim[s]: "free", "claimed", "ordered" or "abandoned"
  sent     \* sent[s]: how many orders went to the broker for s

Claim(s) ==
  /\ claim[s] = "free"
  /\ claim' = [claim EXCEPT ![s] = "claimed"]
  /\ UNCHANGED sent

Order(s) ==
  /\ claim[s] = "claimed"
  /\ claim' = [claim EXCEPT ![s] = "ordered"]
  /\ sent' = [sent EXCEPT ![s] = sent[s] + 1]

Abandon(s) ==
  /\ claim[s] = "claimed"
  /\ claim' = [claim EXCEPT ![s] = "abandoned"]
  /\ UNCHANGED sent

Init ==
  /\ claim = [s \in Signals |-> "free"]
  /\ sent = [s \in Signals |-> 0]

Next == \E s \in Signals : Claim(s) \/ Order(s) \/ Abandon(s)

Spec == Init /\ [][Next]_<<claim, sent>>
=============================================================================
