SPECIFICATION LiveSpec
CONSTANTS
  MaxCpus = 2
  Items = {a, b}
  Submitters = {s1}
  Flushers = {f1}
  Killable = {2}
  None = None
  WQ_MAX_WORKERS = 8
  MaxInflight = 4
INVARIANTS OnePendingRun NoItemForgotten FlushWaitsOnOneCpu FlushReleased
PROPERTY EveryItemRuns
