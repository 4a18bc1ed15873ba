SPECIFICATION Spec
CONSTANTS
  Replay = {r1, r2}
  Config = {a, b}
  Window <- Windows
  Missing <- Holes
  MaxBar = 3
  MaxRelease = 2
  MaxEdits = 1
  None = None
SYMMETRY ReplaySymmetry
INVARIANTS
  TypeOK
  ZonesAreOwn
  ZonesOfOwnCode
