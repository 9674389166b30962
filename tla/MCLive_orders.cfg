SPECIFICATION Spec
CONSTANTS
  A = A
  B = B
  Orders = {A, B}
  Terms <- TwoBuys
  Client <- OwnIds
  Tasks = {}
  Bids <- UpBids
  ProtectionEnabled = TRUE
  Faults = TRUE
  MaxCrashes = 1
  BreakEvenEnabled = TRUE
  BreakEvenR = 1
  BreakEvenOffset = 0
  TrailingDistance = 8
  Spread = 1
  StopsLevel = 2
INVARIANTS VerifiedIsOnRecord RegisteredIsProtected
PROPERTIES NoSendPastOrphan
