SPECIFICATION WorkersSpec
CONSTANTS
  BreakEvenTriggerR = 1
  BreakEvenOffset = 0
  TrailingDistance = 20
  TrailingStep = 4
  PartialClosePercent = 50
  PartialCloseTriggerR = 2
  ProtectionR = 1
  LockPercent = 25
  AutoTrailingDistance = 20
  AutoTrailingStep = 4
  ExtendAfterR = 2
  ExtensionDistance = 20
  ContractSize = 1
  Positions = {1, 2}
  Prices <- FewPrices
  Proposals <- BuyOnly
  MaxOpenPositions = 1
  MaxReach = 60
  MaxCrashes = 0
INVARIANT AuditFindsNothing
PROPERTIES AbortOnlyAtEntry ImplementsTradeLifecycle
