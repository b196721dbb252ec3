SPECIFICATION Spec
CONSTANTS
  NCPU = 2
  Tasks = {t1}
  Wakers = {w1, w2}
  Reapers = {r1, r2}
  Masks <- OneCpuMasks
  Sleeps <- HalfAndHalf
  Idle = Idle
  None = None
SYMMETRY Perms
INVARIANTS IndInv NeverLost FreedUnreachable
