\* A waker that holds a task across its exit and its reap.
SPECIFICATION Spec
CONSTANTS
  NCPU = 2
  Tasks = {t1}
  Wakers = {w1}
  Reapers = {r1}
  Masks <- NoMasks
  Sleeps <- WaitqOnly
  Idle = Idle
  None = None
INVARIANT EnqueueTargetAllocated
