SPECIFICATION FairSpec
CONSTANTS
  t1 = t1  t2 = t2  k1 = k1  k2 = k2
  NoTimer = NoTimer
  NoTask = NoTask
  Ids <- MCIds
  Tasks <- MCTasks
  MinSeconds = 1
  MaxSeconds = 3
  TicksPerSecond = 2
  Durations <- MCDurations
  AddSeconds <- MCAddSeconds
  ClockSteps <- MCClockSteps
  MaxNow = 5
  MaxSteps = 1
INVARIANTS TypeOK ArmedIffRunning ValidatorAccepts RingsWhenFaceShowsZero
PROPERTY ImplementsKitchenTimer
