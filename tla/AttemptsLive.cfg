SPECIFICATION FairSpec
CONSTANTS
  BackoffLimit = 1
  MaxExempt = 1
  MaxEdits = 1
  MaxAborts = 0
  MaxVanish = 0
  JobCacheLags = FALSE
  ProbesOutrun = FALSE
  LogsCanVanish = FALSE
PROPERTIES VerdictArrives SuspendStops
CHECK_DEADLOCK FALSE
