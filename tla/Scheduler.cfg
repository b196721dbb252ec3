SPECIFICATION Spec
CONSTANTS
  NCPU = 2
  Tasks = {t1, t2}
  Wakers = {w1, w2}
  Reapers = {r1}
  Masks <- FirstToZero
  Sleeps <- HalfAndHalf
  Idle = Idle
  None = None
SYMMETRY Perms
INVARIANTS OneCpuPerTask NeverLost ReapFindsNothingQueued FreedUnreachable TimedSleepHasOneEnder
PROPERTY DeadIsFinal
