SPECIFICATION Spec
CONSTANTS
  s1 = s1  s2 = s2
  Nothing = Nothing
  Slots <- MCSlots
  Levels <- MCLevels
  DefaultBrightness = 100
  NightPct = 1
  DimTarget = 20
  BrightTarget = 80
  MaxFailures = 0
  MaxRestores = 1
CHECK_DEADLOCK FALSE
INVARIANT SignalRestores
