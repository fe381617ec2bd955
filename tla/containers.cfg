SPECIFICATION Spec
CONSTANTS
  i1 = i1
  i2 = i2
  p1 = p1
  p2 = p2
  p3 = p3
  m1 = m1
  m2 = m2
  m3 = m3
  v1 = v1
  v2 = v2
  Backup = {prev}
  Image = {i1, i2}
  Port = {p1, p2, p3}
  SaneLimit = {m1, m2}
  Value = {v1, v2}
  Foreign = {p3}
  Shipped <- OneImage
  DryRun = FALSE
  Offered <- Everything
  MaxMishaps = 2
INVARIANTS TypeOK RecreateKeepsOne FailedRecreateIsUndone OneCopyRuns
