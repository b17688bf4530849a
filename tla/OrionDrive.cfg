SPECIFICATION Spec
CONSTANTS
  RouteLen = 6
  MinDist = 1
  MaxDist = 2
  MaxTime = 6
  MaxStep = 1
  MaxRoutes = 2
  MaxDeliveries = 3
  MemoryMaxDt = 2
  StallTimeout = 2
  Modes = {"sensor", "agent"}
  Fails = TRUE
INVARIANTS NodeThere GapReported WayAhead StallBraked
CHECK_DEADLOCK FALSE
