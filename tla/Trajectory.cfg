SPECIFICATION Spec
CONSTANTS
  Timeout = 1
  TopicDepth = 2
  MaxTime = 3
  MaxStep = 1
  MaxRoutes = 2
  Workers = {w1, w2}
  MaxMessages = 2
INVARIANTS FrameOnce MemoryMovesOn Anchored SilentCarStops LocatedOnAMap
CHECK_DEADLOCK FALSE
