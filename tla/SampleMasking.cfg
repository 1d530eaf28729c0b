SPECIFICATION TrunkSpec
CONSTANTS
  Length <- MCLength
  Configs <- MCConfigs
  Segmentations <- MCSegmentations
  Scorings <- MCScorings
CHECK_DEADLOCK FALSE
INVARIANTS
  SegmentsIsolated
