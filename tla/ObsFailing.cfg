CONSTANTS
  Entry <- FewEntry
  Component <- MCComponent
  Horizon <- MCHorizon
  Id <- FewId
  Window <- FewWindow
  End <- FewEnd
  InputFile <- MCInputFile
  OutputFile <- MCOutputFile
  Entries <- FewEntries
  InPath <- MCInPath
  OutPath <- DailyPath
  Backends = {"cpu", "cuda"}
  Faults = {"interrupt", "altitude"}
  Tracers <- MCTracers
  Components <- MCComponents
  Requests <- FewRequests
  Horizontal <- FewHorizontal
  Vertical <- FewVertical
  All = "all"
  Sentinel <- MCSentinel
  StepLength = 10
  TimeOperators <- MCTimeOperators
  Uninitialised = Uninitialised
SPECIFICATION Spec
INVARIANTS CompleteOnly
PROPERTIES NothingLost
