SPECIFICATION Spec
CONSTANTS
  Band <- MixedBands
  Scores <- TwoScores
  EdgeGap = 13
  MidGap = 20
  LadderEdge = 9
  LadderMid = 17
  ActivateConfirms = 2
  RetireMisses = 3
  ReplaceConfirms = 2
  Memory = 4
  None = None
INVARIANTS
  TypeOK
PROPERTIES
  AppearsTwice
  MovesToPrintedLevel
  LeavesAfterAbsence
