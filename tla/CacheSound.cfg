\* Both caches, files that can be hashed and do not change under a running job.
CONSTANTS
  j1 = j1 j2 = j2
  Job = {j1, j2}
  MaxVersion = 1
  Includes = {1}
  Dated = {}
  Where = {"local", "remote"}
  BusyEdits = FALSE
CHECK_DEADLOCK FALSE
SPECIFICATION CacheSpec
INVARIANT RestoredIsFresh
