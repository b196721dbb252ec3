SPECIFICATION WaitSpec
CONSTANTS
  t1 = t1
  t2 = t2
  t3 = t3
  q1 = q1
  q2 = q2
  Waiters = {t1}
  Killers = {k1}
  Queues = {q1}
  BlocksOn <- OnlyFirst
  Null = Null
INVARIANT KillReachesSleeper
