\* A signal's stale wake ends a timed sleep and leaves its claim behind.
SPECIFICATION Spec
CONSTANTS
  NCPU = 2
  Tasks = {t1}
  Wakers = {w1, w2}
  Reapers = {r1}
  Masks <- NoMasks
  Sleeps <- AllSleeps
  Idle = Idle
  None = None
PROPERTY DeadIsFinal
