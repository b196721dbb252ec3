SPECIFICATION Spec
CONSTANTS
  NCPU = 2
  TickCpus = {0}
  Sleepers = {s1}
  Futexes = {}
  CancelPreemptible = TRUE
  None = None
INVARIANT FrameOutlivesTimer
