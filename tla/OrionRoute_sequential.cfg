SPECIFICATION RouteFairSpec
CONSTANTS
  MaxFrames = 3
  MaxRoutes = 2
  Pipelined = FALSE
  PrepFails = TRUE
  ForwardFails = TRUE
  NewRoutes = TRUE
  EagerJobs = TRUE
INVARIANTS NoRouteCrossing MemoryOneRoute OneStaleTick
PROPERTY ResetBeforeNext
