SPECIFICATION FairSpec
CONSTANTS
  Log1p <- MCLog1p
  LogRatio <- MCLogRatio
  Studies <- AllStudies
  Configs <- LongGrid
  Results <- SearchResults
  MaxCandidates = 2
  TopN = 2
  WindowChoices <- AskedFor
  DataEnds <- Ends
  TrainResults <- Training
  ValidationResults <- Validating
  TestResults <- Testing
  Defects <- DefectSets
INVARIANTS SelectedIsBest VerdictIsConservative
PROPERTIES EveryWindowIsReported
CHECK_DEADLOCK FALSE
