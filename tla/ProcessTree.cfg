SPECIFICATION Spec
CONSTANTS
  p1 = p1
  p2 = p2
  p3 = p3
  p4 = p4
  init = init
  Procs = {p1, p2, p3}
  Root = p1
  Named <- ByPid
  Spawns <- Small
  Linux = {p1, p2, p3}
  Detaching = {p3}
  Subreapers = {p1}
  Killable = {p2}
  KillMax = 1
  MaxTries = 1
INVARIANTS ParentPresent OwnedStatusKept NoSleepOverZombie SubtreeGoesDown
PROPERTY ZombieReaped
CHECK_DEADLOCK FALSE
