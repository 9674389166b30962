SPECIFICATION Spec
INVARIANTS BalanceTellsBooked OpenTradesAreJournaled
PROPERTIES WorkerRiskIsBounded AssessmentIsSymmetric
CONSTANTS
  Unit = 360
  FastPeriod = 3
  SlowPeriod = 5
  RsiPeriod = 2
  AtrPeriod = 5
  MacdPeriods <- ShortMacd
  MinimumCandles = 5
  Lookback = 3
  BuyScore = 65
  SellScore = 35
  MinimumConfidence = 6000
  MaxConfidence = 9500
  MinimumRewardRatio = 15
  MaximumRewardRatio = 30
  ConfluenceLevels <- Confluences
  ConfidenceLevels <- Confidences
  RoundingErrors <- Hair
  RiskPercent = 2
  DailyLossPercent = 1
  ExposurePercent = 3
  MaxOpen = 2
  VolumeMin = 1
  VolumeMax = 100
  VolumeLimit = 0
  TradeMode = "full"
  Positions = {1, 2}
  Moves <- Walk
  StartPrice = 100
  StartBalance = 1000
  DemoTrades = {"t"}
  DemoPnls <- Losses
  MaxDemoTrades = 1
  MaxDemoLoss = 300
  MaxCandles = 4
  MaxDay = 1
CHECK_DEADLOCK FALSE
