SPECIFICATION FairSpec
CONSTANTS
  f1 = f1
  f2 = f2
  i1 = i1
  Fix = {f1, f2}
  NoFix = NoFix
  Incident = {i1}
  IncidentOf <- OneIncident
  Mode <- LiveMode
  Width <- LiveWidth
  Staged = {f1}
  Reversal <- LiveReversal
  Session = {alice}
  Verifier = Verifier
  PollLimit = 1
  Faults = {"port_race"}
PROPERTIES ApprovedFinishes SuccessIsJudged
CHECK_DEADLOCK FALSE
