SPECIFICATION Spec
CONSTANTS
  BackoffLimit = 0
  MaxExempt = 0
  MaxEdits = 2
  MaxAborts = 0
  MaxVanish = 0
  JobCacheLags = FALSE
  ProbesOutrun = FALSE
  LogsCanVanish = FALSE
PROPERTIES TerminalAbsorbs
CHECK_DEADLOCK FALSE
