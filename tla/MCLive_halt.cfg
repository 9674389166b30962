SPECIFICATION Spec
CONSTANTS
  A = A
  B = B
  Orders = {A}
  Terms <- OneBuy
  Client <- OwnIds
  Tasks = {}
  Bids <- UpBids
  ProtectionEnabled = TRUE
  Faults = FALSE
  MaxCrashes = 0
  BreakEvenEnabled = TRUE
  BreakEvenR = 1
  BreakEvenOffset = 0
  TrailingDistance = 8
  Spread = 1
  StopsLevel = 2
PROPERTIES HaltStopsOrders
