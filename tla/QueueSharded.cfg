\* A remote worker of shard 0 with strict sharding, one that only has the hint of shard 1,
\* and Reload() that empties shard 2 without waiting; room for two tasks.
CONSTANTS
  p1 = p1 p2 = p2 c1 = c1 c2 = c2 c3 = c3
  Producers = {p1, p2}
  Consumers = {c1, c2, c3}
  NShards = 3
  PushShards = {0, 2}
  Kind <- MixedKind
  Home <- MixedHome
  Capacity = 2
  Limit = 1
  MaxPush = 2
SPECIFICATION FairSpec
INVARIANTS IndexMatchesQueue
PROPERTIES ImplementsShardLists EveryItemPopped CloseReleasesConsumers
CHECK_DEADLOCK FALSE
