SPECIFICATION Spec
CONSTANTS
  Lines <- MCLines
  MaxLines = 5
  BatchSize = 2
  SequenceLength = 4
  BufferSize = 2
  ReadSize = 2
  Limits = {0, 2}
  MaxSteps = 6
  Bos = Bos
  Zero = Zero
  Ignore = Ignore
INVARIANTS
  ConversationsWhole
  TargetsFollowInputs
PROPERTY
  EveryConversationTrained
