SPECIFICATION Spec
CONSTANTS
  p1 = p1
  p2 = p2
  p3 = p3
  p4 = p4
  init = init
  Procs = {p1, p2, p3, p4}
  Root = p1
  Named = {}
  Spawns <- Chain
  Linux = {p1, p2, p3, p4}
  Detaching = {}
  Subreapers = {p1}
  Killable = {}
  KillMax = 3
  MaxTries = 1
INVARIANT NoSleepOverAdopted
CHECK_DEADLOCK FALSE
