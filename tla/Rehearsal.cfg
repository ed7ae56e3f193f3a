SPECIFICATION FairSpec
CONSTANTS
  Automatic = FALSE
  MaxRuns = 2
  MaxAttempts = 2
  MaxEdits = 2
  MaxAborts = 1
INVARIANTS TypeOK ScansAlone EndedRunIsStopped
PROPERTIES RehearsalSettles
CHECK_DEADLOCK FALSE
