SPECIFICATION Spec
INVARIANTS
  ColumnsReadBack
  CalculatorEvaluates
  ServedAsTrained
  OptimizerPartitions
  EstimatesTrackModel
  ExpertsSeeTheirTokens
  PartitionCovers
  EncodesAsTrained
  DraftsAsTrained
