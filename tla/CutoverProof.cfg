SPECIFICATION Spec
CONSTANTS
  Handover = TRUE
  Compare = FALSE
  DropIfExists = TRUE
  CacheLags = TRUE
  JobsVanish = FALSE
  SamplesFail = FALSE
  EarlyExits = TRUE
  Suspends = FALSE
  MaxAttempts = 3
  MaxEdits = 3
  MaxAborts = 1
CHECK_DEADLOCK FALSE
INVARIANT TypeOK
INVARIANT CutoverProven
INVARIANT SlotKeptUntilProven
PROPERTY KeepsContract
