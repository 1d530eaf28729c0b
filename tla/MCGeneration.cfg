SPECIFICATION Spec
CONSTANTS
  r1 = r1
  r2 = r2
  Rows <- Both
  Sampled <- MCSampled
  Results <- MCResults
  MaxTokens = 7
  Thinking = TRUE
  Budget = 4
  Primed = TRUE
INVARIANTS
  ParserFollowsEngine
  ReasoningWithinBudget
  ConsumersAgree
  EnsembleMatchesEngine
PROPERTY
  LoopTerminates
