SPECIFICATION MDSpec
CONSTANTS
  MaxFrames = 3
  Pipelined = TRUE
  PrepFails = TRUE
  ForwardFails = TRUE
  NewRoutes = FALSE
  EagerJobs = FALSE
  MaxRoutes = 2
  Warmups = 2
  RefreshEvery = 2
INVARIANTS FrameOfOneRoute StraysSlipped CleanPid
PROPERTY FirstFramePath
CHECK_DEADLOCK FALSE
