SPECIFICATION Spec
CONSTANTS
  Heads = 2
  Ratio = 2
  Window = 2
  SequenceLen = 6
  Samples = {1, 2}
  MaxTokens = 4
  Forms = {"clone"}
  None = None
INVARIANT
  TailReplicated
