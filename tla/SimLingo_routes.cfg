SPECIFICATION DriverSpec
CONSTANTS
  MaxRoutes = 2
  MaxPlans = 1
  Waypoints = 4
  PredictionFails = TRUE
  MinDist = 1
  MaxDist = 2
  Routes <- SomeRoutes
  Places = {1, 2, 3, 4}
  MaxImages = 5
  Delay = 1
  StuckThreshold = 1
  CreepDuration = 2
INVARIANTS CleanController SteersFromFurthest OneStray CreepsWhenStuck SameTargets
PROPERTIES RouteAsked AnswersItsImage
CHECK_DEADLOCK FALSE
