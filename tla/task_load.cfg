SPECIFICATION FairSpec
CONSTANTS
  Keys = {k1}
  Tasks = {t1}
  BadTasks = {t1}
  Sessions = {s1, s2}
  Main = Main
  MaxEdits = 1
  MaxLoads = 3
  None = None
CHECK_DEADLOCK FALSE
INVARIANTS TypeOK LoadsShowEdits OnlyParsedStates
PROPERTY LoadsReturn
