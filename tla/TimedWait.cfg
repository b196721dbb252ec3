SPECIFICATION LiveSpec
CONSTANTS
  NCPU = 2
  TickCpus = {0, 1}
  Sleepers = {s1}
  Futexes = {f1}
  CancelPreemptible = FALSE
  None = None
INVARIANTS FrameOutlivesTimer OneCallback
PROPERTY SleepEnds
