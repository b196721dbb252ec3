SPECIFICATION Spec
CONSTANTS
  p1 = p1
  p2 = p2
  p3 = p3
  p4 = p4
  init = init
  Procs = {p1, p2, p3}
  Root = p1
  Named = {}
  Spawns <- Small
  Linux = {p1, p2, p3}
  Detaching = {p3}
  Subreapers = {p1}
  Killable = {p1}
  KillMax = 2
  MaxTries = 1
PROPERTY KilledTaskDies
CHECK_DEADLOCK FALSE
