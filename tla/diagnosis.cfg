SPECIFICATION FairSpec
CONSTANTS
  Line <- Lines
  Source <- From
  Level <- Stored
  Says <- SaysMap
  Deadly <- Fatal
  Deployments = 1
  Earlier = 2
  ActionsLogs <- TwoLogs
  Answers <- TwoAnswers
  MaxInvented = 1
  MaxRows = 1
  MaxAnalyses = 2
  MaxDays = 0
  MaxCritical = 1
  Lead = 1
  Rest = 1
  Batch = 2
  Trail = 0
  Limit = 3
  Kept = 2
INVARIANTS TypeOK DiagnosisIsInTheLogs RepeatsCallMentor
PROPERTIES  FailureIsExplained
CHECK_DEADLOCK FALSE
