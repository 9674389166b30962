------------------------------- MODULE MCLive -------------------------------
(***************************************************************************)
(* Small instances of LiveExecution.                                       *)
(***************************************************************************)
EXTENDS LiveRequirements, TLC

CONSTANTS A, B

Buy(volume) == [side |-> "buy", entry |-> 100, volume |-> volume, stop |-> 90]

Sell == [side |-> "sell", entry |-> 100, volume |-> 1, stop |-> 110]

\* Two requests verification can take for one another, of different volume.
TwoBuys == (A :> Buy(1)) @@ (B :> Buy(2))
OneBuy == A :> Buy(1)
OneSell == A :> Sell

OwnIds == [o \in Orders |-> o]

\* Against the position, at one risk of profit, further.
UpBids == {95, 110, 120}
DownBids == {105, 90, 80}
=============================================================================
