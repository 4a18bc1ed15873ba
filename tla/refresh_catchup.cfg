SPECIFICATION TimerSpec
CONSTANTS
  Cycle = {c1}
  HoursPerBar = 2
  FetchLimit = 4
  MaxLag = 0
  MaxHour = 8
PROPERTIES
  ZonesCatchUp
