SPECIFICATION Spec
CONSTANTS
  f1 = f1
  f2 = f2
  i1 = i1
  Fix = {f1}
  NoFix = NoFix
  Incident = {i1}
  IncidentOf <- OneIncident
  Mode <- RaceMode
  Width <- RaceWidth
  Staged = {f1}
  Reversal <- NoReversal
  Session = {alice, bob}
  Verifier = Verifier
  PollLimit = 2
  Faults = {"lost_poll", "lost_result", "agent_crash", "server_crash", "port_race"}
INVARIANTS TypeOK NothingRunsTwice SuccessIsBacked FailureMatchesCommands VerdictNeedsExecution DispatchedIsSigned
SYMMETRY AnyOperator
PROPERTIES ImplementsGate
CHECK_DEADLOCK FALSE
