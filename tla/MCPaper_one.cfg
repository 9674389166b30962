SPECIFICATION LoopFairSpec
CONSTANTS
  BreakEvenTriggerR = 1
  BreakEvenOffset = 0
  TrailingDistance = 20
  TrailingStep = 4
  PartialClosePercent = 50
  PartialCloseTriggerR = 2
  ProtectionR = 1
  LockPercent = 25
  AutoTrailingDistance = 20
  AutoTrailingStep = 4
  ExtendAfterR = 2
  ExtensionDistance = 20
  ContractSize = 1
  Positions = {1}
  Prices <- SpreadPrices
  Proposals <- BothSides
  MaxOpenPositions = 1
  MaxReach = 60
  MaxCrashes = 1
INVARIANT StopsHonoured
PROPERTIES ClosedIsFinal MarketLoopNeverWidens NoPositionOutlivesItsStop
