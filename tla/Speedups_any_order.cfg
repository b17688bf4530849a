SPECIFICATION PartSpec
CONSTANTS
  MaxSpeedups = 2
  MaxFrames = 1
  Variants <- CapturedTooEarly
  Prompts <- SomePrompts
  Tokens = {"a", "b", "."}
  EOS = "."
  Queries <- TwoQueries
  MaxNewTokens = 1
  MaxCacheLen = 8
  Margin = 2
INVARIANT SameModel
CHECK_DEADLOCK FALSE
