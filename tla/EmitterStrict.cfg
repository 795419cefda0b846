\* Strict sharding with only_failed: remote workers only get what is in all_tasks_.
CONSTANTS
  t1 = t1 t2 = t2 c1 = c1 l1 = l1 r1 = r1 r2 = r2
  Task = {t1, t2}
  CacheWorker = {c1}
  LocalWorker = {l1}
  RemoteWorker = {r1, r2}
  Home <- HomeByShard
  Hash <- HashOf
  TotalShards = 2
  Limit = 1
  OnlyFailed = TRUE
  Impatient = {t1}
  MaxFaults = 1
SPECIFICATION FairSpec
INVARIANTS SourceReady 
PROPERTIES ImplementsLifecycle FailedStaysLocal EveryTaskAnswered 
CHECK_DEADLOCK FALSE
