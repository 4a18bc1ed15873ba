SPECIFICATION Spec
CONSTANTS
  live1 = live1
  live2 = live2
  dry = dry
  NoDecision = NoDecision
  Cycle = {c1, c2, c3}
  Decision <- AllDecisions
  Live <- LiveDecisions
  Slot <- Slots
  HoursPerDay = 2
  MaxHour = 2
SYMMETRY CycleSymmetry
INVARIANTS
  AtMostOneUnresolved
  TerminalTellsTheTruth
  BroadcastOnce
  OneAttemptPerAdmissionDay
PROPERTIES
  ImplementsLedger
  NoAdmissionOverOpenSwap
CHECK_DEADLOCK FALSE
