CONSTANTS
  Entry <- MCEntry
  FieldName <- MCFieldName
  Fields <- MCFields
  Batch <- MCBatch
  StageEntries = 2
  StageSamples = 3
  MaxHanded = 4
  MaxFailures = 1
SPECIFICATION FairSpec
INVARIANTS TypeOK InOrderOnce ClosedFileIsExact StagingBounded
PROPERTIES WritingEnds
CHECK_DEADLOCK FALSE
