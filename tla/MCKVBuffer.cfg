SPECIFICATION Spec
CONSTANTS
  Heads = 2
  Ratio = 3
  Window = 2
  SequenceLen = 8
  Samples = {1, 2}
  MaxTokens = 4
  Forms = {"clone", "stripped", "file", "strippedFile"}
  None = None
INVARIANTS
  BlocksExact
  WindowExact
