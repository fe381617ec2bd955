SPECIFICATION FairSpec
CONSTANTS
  MaxAttempts = 2
  MaxEvents = 2
INVARIANTS TypeOK LastGoodIsRestored ReportsAgree
PROPERTIES FailureIsDiagnosed
CHECK_DEADLOCK FALSE
