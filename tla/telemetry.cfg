SPECIFICATION Spec
CONSTANTS
  Condition <- Conditions
  Fix = {"restart_container"}
  NoSample = NoSample
  SlopeRaises = FALSE
  Window = 3
  MinSamples = 3
  Long = 3
  Pinned = 2
  PerHour = 1
  Suppress = 3
INVARIANTS TypeOK
PROPERTIES ProblemIsRecorded RecurrenceRefutes
CHECK_DEADLOCK FALSE
