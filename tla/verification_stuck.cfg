SPECIFICATION FairSpec
CONSTANTS
  f1 = f1
  f2 = f2
  low = low
  Fix = {f1}
  Value = {low}
  NoValue = NoValue
  Undo <- UndoFirst
  Sweeper = {sweep}
  Operator = {}
  MaxExtensions = 1
  MayCrash = FALSE
PROPERTIES EveryWatchEnds
CHECK_DEADLOCK FALSE
