SPECIFICATION Spec
CONSTANTS
  Condition <- Conditions
  Fix = {"restart_container"}
  NoSample = NoSample
  SlopeRaises = TRUE
  Window = 3
  MinSamples = 3
  Long = 3
  Pinned = 2
  PerHour = 1
  Suppress = 3
PROPERTIES ProblemIsRecorded
CHECK_DEADLOCK FALSE
