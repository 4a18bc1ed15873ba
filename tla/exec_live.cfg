SPECIFICATION FairSpec
CONSTANTS
  live1 = live1
  live2 = live2
  dry = dry
  NoDecision = NoDecision
  Cycle = {c1, c2}
  Decision <- DryThenLive
  Live <- OneLive
  Slot <- DryLiveSlots
  HoursPerDay = 2
  MaxHour = 1
PROPERTIES
  CycleEnds
  RerunReconciles
CHECK_DEADLOCK FALSE
