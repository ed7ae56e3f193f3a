SPECIFICATION Spec
CONSTANTS
  MaxJobs = 2
  MaxRuns = 2
  MaxSamples = 3
INVARIANTS TypeOK ForgetStaysFinal TargetSizeIsOfTheCopy NoStaleWaits
PROPERTIES NeverStepsBack BlockedNeedsTwo
CHECK_DEADLOCK FALSE
