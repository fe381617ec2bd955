SPECIFICATION Spec
CONSTANTS
  a = a
  b = b
  c1 = c1
  c2 = c2
  c3 = c3
  None = None
  Project = {a, b}
  Domain = {d}
  Owner <- OwnerMap
  Host <- OneHost
  Config = {c1, c2, c3}
  Unlinted = {c2}
  Bad = {c3}
  MaxDispatches = 3
  MaxEdits = 2
  MaxMishaps = 2
INVARIANTS TypeOK RecordMatchesDisk SitesStayValid OneAppliedConfig
CHECK_DEADLOCK FALSE
