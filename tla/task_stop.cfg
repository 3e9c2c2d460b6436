SPECIFICATION Spec
CONSTANTS
  Keys = {k1}
  Tasks = {t1}
  BadTasks = {t1}
  Sessions = {s1, s2}
  Main = Main
  MaxEdits = 1
  MaxLoads = 3
  None = None
SYMMETRY SessionSymmetry
CHECK_DEADLOCK FALSE
PROPERTY OldScheduleStops
