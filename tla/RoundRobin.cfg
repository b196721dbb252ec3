SPECIFICATION RingSpec
CONSTANTS
  t1 = t1
  t2 = t2
  Tasks = {t1, t2}
  Base = 2
  Weights = {1, 4}
  Weight0 <- LightAndHeavy
  Master <- Order
  Batch = 1
  MaxSleep = 1
  MaxDebt = 1
  MaxRenice = 1
  Idle = Idle
PROPERTIES NoIdleWithWork QueuedTaskRuns SleeperWoken
