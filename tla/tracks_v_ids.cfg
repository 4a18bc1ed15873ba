SPECIFICATION Spec
CONSTANTS
  Band <- DriftBands
  Scores <- OneScore
  EdgeGap = 13
  MidGap = 20
  LadderEdge = 13
  LadderMid = 20
  ActivateConfirms = 2
  RetireMisses = 3
  ReplaceConfirms = 2
  Memory = 4
  None = None
INVARIANTS
  UniqueFingerprints
