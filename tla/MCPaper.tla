------------------------------ MODULE MCPaper ------------------------------
(***************************************************************************)
(* Small instances of PaperPositions.  One unit of price is 0.25, so the   *)
(* default distances of the code (5.0 trailing, 1.0 step, 5.0 extension)   *)
(* are 20, 4 and 20, and one unit of quantity is 0.005 lot.                *)
(***************************************************************************)
EXTENDS PaperRequirements

\* R is 20 both ways; the target is at 3R.
Buy == [direction |-> "buy", entry |-> 400, stop |-> 380, target |-> 460,
        quantity |-> 2]
Sell == [direction |-> "sell", entry |-> 400, stop |-> 420, target |-> 340,
         quantity |-> 2]

BothSides == {Buy, Sell}
BuyOnly == {Buy}

\* A quote at 2R and one short of 1R of either side; 360 is through the stop
\* of the BUY, 440 through that of the SELL.
SpreadPrices == {360, 388, 412, 440}

\* Through the stop, short of 1R, at 2R.
FewPrices == {376, 412, 440}
=============================================================================
