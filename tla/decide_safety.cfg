SPECIFICATION Spec
CONSTANTS
  Lookback = 4
  BelowMinPct = 50
  InsideMaxPct = 100
  Runner = {r1}
  Mode = {"observe", "live"}
  Candle <- Falls
  Ladder <- NearAndFar
  HoursPerBar = 2
  Cooldown = 2
  MaxHour = 4
  None = None
INVARIANTS
  OneBuyPerSetup
  CooldownKept
  FirstFallOnly
PROPERTIES
  RerunAgrees
