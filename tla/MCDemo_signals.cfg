SPECIFICATION FairSpec
CONSTANTS
  Signals = {"buy1", "buy2"}
  Side <- Sides
  Entry <- Opened
  Marks <- FirstMoves
  MaxOpenPositions = 2
  Attempts = 2
  MaxMishaps = 1
INVARIANTS RecordsTellOrders
PROPERTIES MirrorIsReal ImplementsSignalLedger EveryRunEnds MirrorCatchesUp
