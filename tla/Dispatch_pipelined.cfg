SPECIFICATION FairSpec
CONSTANTS
  MaxFrames = 4
  Pipelined = TRUE
  PrepFails = TRUE
  ForwardFails = TRUE
  NewRoutes = TRUE
  EagerJobs = FALSE
PROPERTY FramesSettle
