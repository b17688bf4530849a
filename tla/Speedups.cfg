SPECIFICATION PartSpec
CONSTANTS
  MaxSpeedups = 5
  MaxFrames = 3
  Variants <- ListsInOrder
  Prompts <- SomePrompts
  Tokens = {"a", "b", "."}
  EOS = "."
  Queries <- TwoQueries
  MaxNewTokens = 3
  MaxCacheLen = 8
  Margin = 2
INVARIANTS AppliedInEffect SameModel InCache
PROPERTIES ReadWhenThere Uncached
CHECK_DEADLOCK FALSE
