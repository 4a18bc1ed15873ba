SPECIFICATION Spec
CONSTANTS
  Cycle = {c1, c2}
  HoursPerBar = 2
  FetchLimit = 4
  MaxLag = 2
  MaxHour = 6
SYMMETRY CycleSymmetry
INVARIANTS
  SetOfWatermark
  TracksSkipNoBar
  DecidesOnStoredSet
  NoLookAhead
PROPERTIES
  OneSetPerBar
