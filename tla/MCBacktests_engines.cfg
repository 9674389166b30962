SPECIFICATION Spec
CHECK_DEADLOCK FALSE
CONSTANTS
  Engines <- AllEngines
  V5Runs <- FamilyRuns
  Warmup <- Zigzag
  Moves <- FewMoves
  StartPrice = 1000
  StartBalance = 3000
  Cost = 4
  Bars = 11
  PeriodBars = 5
  EmaFast = 3
  EmaSlow = 7
  MacdSpans <- ShortMacd
  RsiPeriod = 2
  AtrPeriod = 2
  MedianPeriod = 3
  SwingLookback = 2
  LiquidityLookback = 2
  Scale = 1048576
  RsiScale = 512
  GroupBars = 2
  MinAtrPercent = 60
  MaxAtrPercent = 250
  MinSignalScore = 45
  RiskPercent = 10
  WeeklyTarget = 25
  WeeklyLossLimit <- NoLoss
  MaxTradesPerWeek = 2
  RiskReward2 = 5
  AtrStop10 = 6
  MinVolume = 1
  MaxVolume = 3
  LowerFast = 3
  LowerSlow = 7
  FirstBar = 5
  LongAtrPeriod = 4
  MinimumScore = 50
  BreakEven10 = 10
  BreakEvenLock10 = 5
  TrailingStart10 = 15
  TrailingDistance10 = 15
  TpExtension = TRUE
  WarmupCandles = 5
  ProductionBars = 9
  Proposals <- NearAndFar
  DailyLossPercent = 12
  ExposurePercent = 100
  Leverage = 4
  MinRewardRatio = 10
  ProtectTrigger20 = 15
  ProtectLock20 = 2
  LowerRequired = TRUE
INVARIANTS
  BalanceIsWhatWasTraded WeeksAddUp DrawdownIsCovered WeeklyLimitsHold
  TradesAreAttainable SignalsAreSymmetric
PROPERTIES
  StopsNeverLoosen
