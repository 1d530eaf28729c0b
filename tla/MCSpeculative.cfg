SPECIFICATION Spec
CONSTANTS
  Words = {"a", "b"}
  End = "end"
  DraftLength = 3
  MaxTokens = 3
  Rooms = {0, 2, 4}
INVARIANT
  CacheFollowsOutput
PROPERTIES
  ImplementsGreedy
  Terminates
