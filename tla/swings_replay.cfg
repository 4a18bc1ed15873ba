CONSTANTS
  Candle <- ThreeShapes
  MaxBars = 10
  ExternalOrder = 1
  InternalOrder = 2
  AtrPeriod = 2
  BreakAtrPct = 20
  MinSwingAtr = 1
  MinSwingPct = 10
  DayBars = 2
  None = None
SPECIFICATION Spec
INVARIANTS IncrementalAgrees
PROPERTIES ReclaimsAreFrozen OriginsPersist
CHECK_DEADLOCK FALSE
