SPECIFICATION FairSpec
CONSTANTS
  Specs <- MCSpecs
  MaxMissing = 1
  MaxBlips = 1
  AuditBlind = FALSE
  MaxAttempts = 2
  MaxEdits = 2
  MaxMishaps = 1
  Collected <- MCCollected
  CatalogGated = TRUE
  CatalogBlind = FALSE
  LoseFirst = FALSE
  DeepLag = FALSE
INVARIANTS TypeOK PassIsEarned WorkerIsAdmitted ComparesAlone
PROPERTIES KeepsContract EndsInVerdict SuspendGoesQuiet
CHECK_DEADLOCK FALSE
