CONSTANTS
  Entry <- MCEntry
  Component <- MCComponent
  Horizon <- MCHorizon
  Id <- MCId
  Window <- MCWindow
  End <- MCEnd
  InputFile <- MCInputFile
  OutputFile <- MCOutputFile
  Entries <- MCEntries
  InPath <- MCInPath
  OutPath <- MCOutPath
  Backends = {"cpu"}
  Faults = {"interrupt"}
  Tracers <- MCTracers
  Components <- MCComponents
  Requests <- MCRequests
  Horizontal <- MCHorizontal
  Vertical <- MCVertical
  All = "all"
  Sentinel <- MCSentinel
  StepLength = 10
  TimeOperators <- MCTimeOperators
  Uninitialised = Uninitialised
SPECIFICATION Spec
INVARIANTS RestartIsRemainder
