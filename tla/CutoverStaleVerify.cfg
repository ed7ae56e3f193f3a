SPECIFICATION Spec
CONSTANTS
  Handover = FALSE
  Compare = FALSE
  DropIfExists = TRUE
  CacheLags = FALSE
  JobsVanish = FALSE
  SamplesFail = FALSE
  EarlyExits = FALSE
  Suspends = TRUE
  MaxAttempts = 2
  MaxEdits = 3
  MaxAborts = 0
CHECK_DEADLOCK FALSE
PROPERTY CutoverProvenWhenSet
