SPECIFICATION Spec
CONSTANTS
  MaxFrames = 4
  Pipelined = TRUE
  PrepFails = TRUE
  ForwardFails = TRUE
  NewRoutes = TRUE
  EagerJobs = TRUE
INVARIANTS ModelOnce PreparedKept StopsOnEarlyEnd
PROPERTY ServesFrames
CHECK_DEADLOCK FALSE
