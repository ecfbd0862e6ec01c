CONSTANTS
  Runs <- CudaRuns
  Files <- MCFiles
  Fields <- MCFields
  Scales <- MCScales
  Month <- MCMonth
  Addresses = {1, 2, 3, 4}
SPECIFICATION Spec
INVARIANTS
  RestartMetIsCurrent
