CONSTANTS
  Average = {"a", "b", "u"}
  Restart = {"r"}
  Frequency <- MCFrequency
  Duration <- MCDuration
  StepTicks = 2
  End = 17
  Setups <- InOrderSetups
  Faults = {"raise", "boundary", "write"}
SPECIFICATION FairSpec
INVARIANTS TypeOK RowsInOrder NothingMissing RestartsExact
PROPERTIES FilesGrow RunCloses
CHECK_DEADLOCK FALSE
