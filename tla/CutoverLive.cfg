SPECIFICATION FairSpec
CONSTANTS
  Handover = TRUE
  Compare = TRUE
  DropIfExists = TRUE
  CacheLags = FALSE
  JobsVanish = FALSE
  SamplesFail = FALSE
  EarlyExits = FALSE
  Suspends = TRUE
  MaxAttempts = 1
  MaxEdits = 3
  MaxAborts = 1
CHECK_DEADLOCK FALSE
INVARIANT CutoverMeasured
INVARIANT CopyConfirmed
PROPERTY FinishEnds
