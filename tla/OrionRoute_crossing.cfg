SPECIFICATION RouteSpec
CONSTANTS
  MaxFrames = 4
  MaxRoutes = 1
  Pipelined = TRUE
  PrepFails = FALSE
  ForwardFails = FALSE
  NewRoutes = TRUE
  EagerJobs = FALSE
INVARIANT NoRouteCrossing
