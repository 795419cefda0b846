\* A configuration with fewer shards arrives.
CONSTANTS
  t1 = t1 c1 = c1 d1 = d1 d2 = d2
  Task = {t1}
  Cacher = {c1}
  Totals <- Shrinks
  Limit = 1
  Hash <- HashOf
  Coordinators <- InTurn
  Healthy = {d2}
  MaxTotalShards = 4
CHECK_DEADLOCK FALSE
SPECIFICATION FairSpec
INVARIANTS AlwaysServed QueuedTasksRedistributed 
PROPERTIES ConfigurationArrives
