SPECIFICATION Spec
CONSTANTS
  NLev = 3
  NLat = 9
  NLon = 2
  NSteps = 2
  InternalSteps = 2
  BlockThreads = 16
  WarpSize = 3
  Jobs <- MCJobs
INVARIANTS
  TypeOK
  RaceFree
  OperandsCurrent
  StepDelivers
  InputPreserved
  HandoffsKept
