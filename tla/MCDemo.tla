------------------------------- MODULE MCDemo -------------------------------
(***************************************************************************)
(* A small instance of DemoExecution: two signals of one side, which the   *)
(* verification can take for each other.                                   *)
(***************************************************************************)
EXTENDS DemoRequirements

Sides == [s \in Signals |-> "buy"]

Opened == [s \in Signals |-> 1]

\* Only one of the positions moves in price.
FirstMoves == [s \in Signals |-> IF s = "buy1" THEN {1, 2} ELSE {1}]
=============================================================================
