SPECIFICATION Suite
CONSTANTS
  Copy = {m1, m2}
  MaxRetries = 1
  c1 = c1
  c2 = c2
  s1 = s1
  s2 = s2
  my = my
  any = any
  d1 = d1
  u1 = u1
  u2 = u2
  i1 = i1
INVARIANTS
  JobsActOnce
PROPERTIES
  SettledIsFinal
  PurgedByPolicy
  QueuesSettle
  CronJobsGetDone
CHECK_DEADLOCK FALSE
