SPECIFICATION Spec
CONSTANTS
  NoTime = NoTime
  NoFile = NoFile
  Garbled = Garbled
  MaxAttempts = 2
  BaseCooldown = 1
  CooldownCap = 3
  UndoGrace = 1
  TicksPerSecond = 2
  ClockSteps <- MCClockSteps
  MaxNow = 10
  MaxSteps = 1
INVARIANTS TypeOK FileHoldsState GuessingIsSlow
PROPERTY LeftByPinOrInGrace
