SPECIFICATION FairSpec
CONSTANTS
  MaxAttempts = 2
  CrashAfterCreate = FALSE
  MaxEdits = 4
  MaxAborts = 2
  MaxCollected = 2
CHECK_DEADLOCK FALSE
INVARIANT TypeOK
INVARIANT SlotReleased
INVARIANT FinalizerFirst
PROPERTY DeletionEnds
