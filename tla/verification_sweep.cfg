SPECIFICATION Spec
CONSTANTS
  f1 = f1
  f2 = f2
  low = low
  Fix = {f1, f2}
  Value = {low}
  NoValue = NoValue
  Undo <- UndoBoth
  Sweeper = {sweep}
  Operator = {}
  MaxExtensions = 1
  MayCrash = TRUE
INVARIANTS WindowIsRespected FollowupsAreBounded
PROPERTIES FailureRevokes
CHECK_DEADLOCK FALSE
