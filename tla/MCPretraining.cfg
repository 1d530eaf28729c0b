SPECIFICATION Spec
CONSTANTS
  Corpora <- MCCorpora
  ReadSize = 2
  BatchSize = 2
  SequenceLength = 4
  BufferSize = 3
  TotalBatch = 16
  Commands = {"base_train", "trainer"}
  RunLengths = {1, 2}
  MaxRuns = 3
  None = None
INVARIANTS
  RowsPacked
  DocumentsAccounted
  LoadedModelsWhole
PROPERTY
  RunsEnd
