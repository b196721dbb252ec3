SPECIFICATION LiveSpec
CONSTANTS
  NCPU = 2
  TickCpus = {0, 1}
  Sleepers = {}
  Futexes = {f1}
  CancelPreemptible = FALSE
  None = None
PROPERTY FutexTimesOut
