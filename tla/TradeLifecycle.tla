--------------------------- MODULE TradeLifecycle ---------------------------
(***************************************************************************)
(* What the persistent paper positions promise, without the workers that   *)
(* share them: a trade is opened once with its full quantity, may be       *)
(* reduced once while it is open, and is closed once; the profit booked    *)
(* for it is the sum over its exits of move * quantity, every unit of the  *)
(* original quantity leaves exactly once, and nothing changes afterwards.  *)
(* PaperPositions is shown to implement this module.                       *)
(***************************************************************************)
EXTENDS PaperTrades

VARIABLES
  terms,          \* terms[p]: what p was opened with
  trade           \* trade[p]: its state, open quantity and booked profit

NoTrade == [state |-> "none", left |-> 0, booked |-> 0]

Init ==
  /\ terms = [p \in Positions |-> NoTerms]
  /\ trade = [p \in Positions |-> NoTrade]

Open(p) ==
  /\ trade[p].state = "none"
  /\ \E t \in Proposals :
       /\ terms' = [terms EXCEPT ![p] = t]
       /\ trade' = [trade EXCEPT ![p] =
                      [state |-> "open", left |-> t.quantity, booked |-> 0]]

Reduce(p) ==
  /\ trade[p].state = "open"
  /\ trade[p].left = terms[p].quantity
  /\ \E x \in Prices, q \in 1 .. trade[p].left - 1 :
       trade' = [trade EXCEPT ![p] =
                   [state |-> "open", left |-> trade[p].left - q,
                    booked |-> trade[p].booked + Pnl(terms[p], x, q)]]
  /\ UNCHANGED terms

Close(p) ==
  /\ trade[p].state = "open"
  /\ \E x \in Prices :
       trade' = [trade EXCEPT ![p] =
                   [state |-> "closed", left |-> 0,
                    booked |-> trade[p].booked
                               + Pnl(terms[p], x, trade[p].left)]]
  /\ UNCHANGED terms

Next == \E p \in Positions : Open(p) \/ Reduce(p) \/ Close(p)

Spec == Init /\ [][Next]_<<terms, trade>>
=============================================================================
