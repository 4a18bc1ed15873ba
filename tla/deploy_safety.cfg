SPECIFICATION Spec
CONSTANTS
  Updater = {u1, u2}
  UnitTypes = {"oneshot", "exec"}
  MaxVersion = 2
  Requirements <- LastChanges
  NoOne = NoOne
SYMMETRY UpdaterSymmetry
INVARIANTS
  TimerAsWanted
  TimerOnlyOverWholeCheckout
  RelockedAfterFailure
PROPERTIES
  NoCycleStartsMidUpdate
