\* Two caching and an executing worker; tasks_ has room for one task.
CONSTANTS
  t1 = t1 t2 = t2 t3 = t3 c1 = c1 c2 = c2 e1 = e1
  Task = {t1, t2, t3}
  CacheWorker = {c1, c2}
  ExecWorker = {e1}
  Capacity = 1
  Impatient = {t1}
SPECIFICATION FairSpec
PROPERTIES AcceptedAnswered ImplementsLifecycle EveryTaskAnswered DestructorReturns
CHECK_DEADLOCK FALSE
