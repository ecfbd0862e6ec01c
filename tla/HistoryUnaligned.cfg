CONSTANTS
  Average = {"a", "b", "u"}
  Restart = {}
  Frequency <- MCFrequency
  Duration <- MCDuration
  StepTicks = 2
  End = 17
  Setups <- UnalignedSetups
  Faults = {}
SPECIFICATION Spec
INVARIANTS RowsInOrder
CHECK_DEADLOCK FALSE
