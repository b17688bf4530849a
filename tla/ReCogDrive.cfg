SPECIFICATION PartSpec
CONSTANTS
  MaxAge = 3
  Frames = 2
  Interval = 1
  MaxTime = 4
  Steps = {0, 2}
  Speed = 2
  MaxRuns = 2
  LastRunAt = 1
  MaxQuiet = 2
  ClockSlack = 1
  StallTimeout = 1
  Horizon = 2
  FullHistory = FALSE
  Fails = TRUE
  Source = 8
  NPrefix = 2
  NImg = 2
  TailCapacity = 6
  Tails = {1, 3, 4, 6, 7}
  MaxFrames = 4
INVARIANTS FrameOfOneRun HistoryTrue StraysSlipped RebasedToTheCar
           ContextOfThisFrame DrawnUnseeded
CHECK_DEADLOCK FALSE
