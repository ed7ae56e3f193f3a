SPECIFICATION Spec
CONSTANTS
  BackoffLimit = 1
  MaxExempt = 0
  MaxEdits = 0
  MaxAborts = 1
  MaxVanish = 1
  JobCacheLags = TRUE
  ProbesOutrun = FALSE
  LogsCanVanish = TRUE
INVARIANT OneWorker
CHECK_DEADLOCK FALSE
