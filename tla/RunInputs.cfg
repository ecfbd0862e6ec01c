CONSTANTS
  Runs <- MCRuns
  Files <- MCFiles
  Fields <- MCFields
  Scales <- MCScales
  Month <- MCMonth
  Addresses = {1, 2, 3, 4}
SPECIFICATION Spec
INVARIANTS
  TypeOK
  MetIsCurrent
  FluxIsCurrent
  EmissionsCentred
  OutputIsOfItsStep
  MirrorsUndisturbed
  MirrorsCurrent
  FailsForCause
  TakesEveryStep
  CachesBounded
