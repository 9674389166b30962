---------------------------- MODULE PaperTrades ----------------------------
(***************************************************************************)
(* What a paper trade is made of: the terms it was opened with, the sets   *)
(* they are drawn from, and the profit of an exit.  Shared by the abstract *)
(* TradeLifecycle and the detailed PaperPositions.                         *)
(***************************************************************************)
EXTENDS TradeDecisions

CONSTANTS
  Positions,      \* the trade ids, numbered in the order they are issued
  Prices,         \* the prices the feeds may quote
  Proposals,      \* the terms the entry pipeline may accept
  ContractSize    \* units of the instrument per lot

\* What PositionRepository.create and the risk engine require of a trade.
IsProposal(t) ==
  /\ t \in [direction : Directions, entry : Int, stop : Int, target : Int,
            quantity : Int]
  /\ t.entry > 0 /\ t.stop > 0 /\ t.target > 0 /\ t.quantity > 0
  /\ Ahead(t.direction, t.entry, t.stop)
  /\ Ahead(t.direction, t.target, t.entry)

ASSUME TradeAssumption ==
  /\ Positions \subseteq Nat
  /\ Prices \subseteq Nat \ {0}
  /\ \A t \in Proposals : IsProposal(t)
  /\ ContractSize \in Nat \ {0}

NoTerms == [direction |-> "buy", entry |-> 0, stop |-> 0, target |-> 0,
            quantity |-> 0]

\* PositionRepository._calculate_pnl
Pnl(t, price, quantity) ==
  Move(t.direction, t.entry, price) * quantity * ContractSize
=============================================================================
