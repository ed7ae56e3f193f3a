SPECIFICATION Spec
CONSTANTS
  BackoffLimit = 1
  MaxExempt = 1
  MaxEdits = 1
  MaxAborts = 1
  MaxVanish = 0
  JobCacheLags = FALSE
  ProbesOutrun = TRUE
  LogsCanVanish = FALSE
INVARIANTS TypeOK BudgetRespected TerminalHasNoWorker
PROPERTIES VerdictStands StartsOnServerSpec KeepsContract
CHECK_DEADLOCK FALSE
