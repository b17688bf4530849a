SPECIFICATION FairSpec
CONSTANTS
  MaxFrames = 3
  Pipelined = TRUE
  PrepFails = TRUE
  ForwardFails = TRUE
  NewRoutes = FALSE
  EagerJobs = TRUE
PROPERTY TimerReturns
CHECK_DEADLOCK FALSE
