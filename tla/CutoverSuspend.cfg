SPECIFICATION Spec
CONSTANTS
  Handover = TRUE
  Compare = FALSE
  DropIfExists = FALSE
  CacheLags = FALSE
  JobsVanish = TRUE
  SamplesFail = TRUE
  EarlyExits = TRUE
  Suspends = TRUE
  MaxAttempts = 2
  MaxEdits = 3
  MaxAborts = 1
CHECK_DEADLOCK FALSE
INVARIANT NoWorkerAfterCutover
INVARIANT RefusedDecidedByContent
PROPERTY RefusalLatches
