----------------------------- MODULE BrokerBook -----------------------------
(***************************************************************************)
(* The broker's positions, Raymond's registry of the positions it opened,  *)
(* the two comparisons of one with the other (live_reconciliation and      *)
(* live_position_monitor) and the stop live_position_protection would set. *)
(* All of it is free of state: LiveExecution says when it is evaluated,    *)
(* and on how old a reading.                                               *)
(*                                                                         *)
(* Every position is of the one symbol and magic the gateway trades.       *)
(* Stop-loss and take-profit are set together and the take-profit is never *)
(* changed, so one number, stop, stands for both; 0 means the broker shows *)
(* a position without valid protection.                                    *)
(***************************************************************************)
EXTENDS Integers, Sequences

CONSTANTS
  BreakEvenEnabled,   \* RAYMOND_BREAK_EVEN_ENABLED
  BreakEvenR,         \* RAYMOND_BREAK_EVEN_R
  BreakEvenOffset,    \* RAYMOND_BREAK_EVEN_OFFSET
  TrailingDistance,   \* RAYMOND_TRAILING_DISTANCE, 0: trailing is off
  Spread,             \* ask - bid
  StopsLevel          \* the broker's least distance of a stop from price

ASSUME EngineAssumption ==
  /\ BreakEvenEnabled \in BOOLEAN
  /\ BreakEvenR \in Nat /\ BreakEvenOffset \in Nat
  /\ TrailingDistance \in Nat /\ Spread \in Nat /\ StopsLevel \in Nat

Sides == {"buy", "sell"}

\* A position as mt5.positions_get reports it; "none" before the broker has
\* acted on the order, "refused" when it turned the order down.
Position(status, side, entry, volume, stop) ==
  [status |-> status, side |-> side, entry |-> entry, volume |-> volume,
   stop |-> stop]

IsOpen(p) == p.status = "open"

-----------------------------------------------------------------------------
(* The registry: a dict keyed by client_order_id, in insertion order.      *)

\* The record of a position: order id, ticket, volume and stop.
Record(client, ticket, volume, stop) ==
  [client |-> client, ticket |-> ticket, volume |-> volume, stop |-> stop]

Tickets(book) == {book[i].ticket : i \in DOMAIN book}

Clients(book) == {book[i].client : i \in DOMAIN book}

\* register_live_position: a known key is overwritten where it stands.
Register(book, r) ==
  IF r.client \in Clients(book)
    THEN [i \in DOMAIN book |-> IF book[i].client = r.client THEN r ELSE book[i]]
    ELSE Append(book, r)

\* _validate_match and _position_matches_registration.
Agrees(r, p) == r.volume = p.volume /\ r.stop = p.stop

\* reconcile_live_positions: every record finds its ticket and agrees with
\* it, and every position of the broker is somebody's ticket.
ReconcileSafe(book, seen) ==
  /\ \A i \in DOMAIN book :
       IsOpen(seen[book[i].ticket]) /\ Agrees(book[i], seen[book[i].ticket])
  /\ \A t \in DOMAIN seen : IsOpen(seen[t]) => t \in Tickets(book)

\* registered_by_ticket[ticket] = item: of two records the later one stays.
Latest(book, i) == \A j \in DOMAIN book : book[j].ticket = book[i].ticket => j <= i

\* Mutant of MonitorSafe: only Raymond's own records are looked up.
MonitorRecordsOnly(book, seen) ==
  \A i \in DOMAIN book : Latest(book, i) =>
    LET p == seen[book[i].ticket] IN
    IsOpen(p) /\ p.stop > 0 /\ Agrees(book[i], p)

\* inspect_live_positions: as above, by ticket, and every registered
\* position must show a stop-loss and a take-profit.
MonitorSafe(book, seen) ==
  /\ \A i \in DOMAIN book : Latest(book, i) =>
       LET p == seen[book[i].ticket] IN
       IsOpen(p) /\ p.stop > 0 /\ Agrees(book[i], p)
  /\ \A t \in DOMAIN seen : IsOpen(seen[t]) => t \in Tickets(book)

-----------------------------------------------------------------------------
(* Verification of a fill (_verify_position)                               *)

Distance(a, b) == IF a < b THEN b - a ELSE a - b

\* The positions of the order's side, closest volume first; which of several
\* equally close ones comes first is the broker's order of listing.
Candidates(seen, side, volume) ==
  LET matching == {t \in DOMAIN seen : IsOpen(seen[t]) /\ seen[t].side = side}
  IN  {t \in matching : \A u \in matching :
         Distance(seen[t].volume, volume) <= Distance(seen[u].volume, volume)}

\* Mutant of ProtectionValid: an absent stop is not noticed.
ProtectionAssumed(p) ==
  \/ p.stop = 0
  \/ p.side = "buy" /\ p.stop < p.entry
  \/ p.side = "sell" /\ p.stop > p.entry

\* The position has both prices, on the proper sides of its entry.
ProtectionValid(p) ==
  /\ p.stop > 0
  /\ \/ p.side = "buy" /\ p.stop < p.entry
     \/ p.side = "sell" /\ p.stop > p.entry

-----------------------------------------------------------------------------
(* The stop the protection engine proposes (_protect_one_position)         *)

Ask(bid) == bid + Spread

\* Mutant of IsBetterStop: any other stop will do.
IsOtherStop(side, current, candidate) == candidate > 0 /\ candidate # current

\* _is_better_stop.
IsBetterStop(side, current, candidate) ==
  /\ candidate > 0
  /\ \/ current <= 0
     \/ side = "buy" /\ candidate > current
     \/ side = "sell" /\ candidate < current

\* _candidate_is_broker_valid.
BrokerValid(side, candidate, bid) ==
  \/ side = "buy" /\ candidate < bid /\ bid - candidate >= StopsLevel
  \/ side = "sell" /\ candidate > Ask(bid) /\ candidate - Ask(bid) >= StopsLevel

\* Risk is measured to the stop the position has NOW, and the profit of a
\* buy at the ask, of a sell at the bid.
BreakEvenReached(p, bid) ==
  LET risk == IF p.side = "buy" THEN p.entry - p.stop ELSE p.stop - p.entry
      profit == IF p.side = "buy" THEN Ask(bid) - p.entry ELSE p.entry - bid
  IN  risk > 0 /\ profit >= risk * BreakEvenR

BreakEvenStop(p) ==
  IF p.side = "buy" THEN p.entry + BreakEvenOffset ELSE p.entry - BreakEvenOffset

TrailingStop(p, bid) ==
  IF p.side = "buy" THEN bid - TrailingDistance ELSE Ask(bid) + TrailingDistance

\* The proposals that better the stop read; the better of them is taken.
Proposed(p, bid) ==
  {s \in {BreakEvenStop(p), TrailingStop(p, bid)} :
     /\ IsBetterStop(p.side, p.stop, s)
     /\ \/ s = BreakEvenStop(p) /\ BreakEvenEnabled /\ BreakEvenReached(p, bid)
        \/ s = TrailingStop(p, bid) /\ TrailingDistance > 0}

\* The stops the engine sends to the broker: one, or none at all.
NewStops(p, bid) ==
  IF p.stop <= 0 THEN {}
  ELSE {s \in Proposed(p, bid) :
          /\ \A u \in Proposed(p, bid) : ~ IsBetterStop(p.side, s, u)
          /\ BrokerValid(p.side, s, bid)}
=============================================================================
