SPECIFICATION RefreshSpec
CONSTANTS
  Shapes <- LadderShapes
  Histories <- LadderHistories
  Prices <- LadderPrices
  FirstPrice = 1130
  MinTouches = 2
  FillClearance = 9
  FillSpacing = 17
  FillMinTouches = 2
  ReclaimMargin = 1
  Lookback = 150
  MaxBars = 12
  Band <- LadderBands
  Scores <- NoScores
  EdgeGap = 13
  MidGap = 20
  LadderEdge = 9
  LadderMid = 17
  ActivateConfirms = 2
  RetireMisses = 3
  ReplaceConfirms = 2
  Memory = 4
  None = None
  MinHistory = 11
INVARIANTS
  FillsDisplaceNothing
  StepsSurvive
  ReportsSnapshots
PROPERTIES
  PersistentFloorsStay
CHECK_DEADLOCK FALSE
