SPECIFICATION FairSpec
CONSTANTS
  A = A
  B = B
  Orders = {A}
  Terms <- OneSell
  Client <- OwnIds
  Tasks = {"worker"}
  Bids <- DownBids
  ProtectionEnabled = TRUE
  Faults = TRUE
  MaxCrashes = 1
  BreakEvenEnabled = TRUE
  BreakEvenR = 1
  BreakEvenOffset = 0
  TrailingDistance = 8
  Spread = 1
  StopsLevel = 2
PROPERTIES StopNeverWidened EveryCallEnds
