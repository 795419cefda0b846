SPECIFICATION AggregatorFairSpec
CONSTANTS
  w1 = w1
  w2 = w2
  NQueues = 2
  Shared = {2}
  Poppers = {w1, w2}
  MaxPush = 1
CHECK_DEADLOCK FALSE
INVARIANTS OrdersMatchPoppers 
PROPERTIES EveryItemTaken CloseTerminates
