\* Two workers, two callers; the queue has room for two tasks.
CONSTANTS
  p1 = p1 p2 = p2 c1 = c1 c2 = c2 r1 = r1
  Producers = {p1, p2}
  Consumers = {c1, c2}
  NShards = 1
  PushShards = {0}
  Kind <- AllDefault
  Home <- AllHome
  Capacity = 2
  Limit = 1
  MaxPush = 3
  Promises <- MCPromises
  Resolver = {r1}
SPECIFICATION PoolSpec
INVARIANTS ResolveTells CompleteAllTasksOnDestruction
PROPERTIES EveryFutureFulfilled ResolveReturns
CHECK_DEADLOCK FALSE
