CONSTANTS
  Entry <- MCEntry
  Component <- MCComponent
  Horizon <- MCHorizon
  Id <- MCId
  Window <- MCWindow
  End <- MCEnd
  InputFile <- MCInputFile
  OutputFile <- MCOutputFile
  Entries <- MCEntries
  InPath <- MCInPath
  OutPath <- MCOutPath
  Backends = {"cpu", "cuda"}
  Faults = {"crash", "raise"}
  Tracers <- MCTracers
  Components <- MCComponents
  Requests <- MCRequests
  Horizontal <- MCHorizontal
  Vertical <- MCVertical
  All = "all"
  Sentinel <- MCSentinel
  StepLength = 10
  TimeOperators <- MCTimeOperators
  Uninitialised = Uninitialised
SPECIFICATION Spec
INVARIANTS IInv RestartIsRemainder EmittedOnce NeverOutOfStep
PROPERTIES NothingLost ContinuationKeepsOutput
