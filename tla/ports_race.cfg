SPECIFICATION Spec
CONSTANTS
  q1 = q1
  q2 = q2
  q3 = q3
  a = a
  b = b
  Port = {1, 2, 3}
  Request = {q1, q2, q3}
  Project = {a, b}
  NoProject = NoProject
  Owner <- TwoProjects
  Deploys = {q1}
  Attempts = 3
  MayRelease = TRUE
  Foreign = {2}
INVARIANTS TypeOK FreshGrantsAreExclusive GrantsAreOnRecord RefusalIsJustified
CHECK_DEADLOCK FALSE
