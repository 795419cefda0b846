\* From what an older program left: lookups and stores of two entries, one store that fails and one kill.
CONSTANTS
  u1 = u1 u2 = u2 a = a b = b
  User = {u1, u2}
  Hash = {a, b}
  Direct = {a}
  Old = {0, 1}
  Sizes <- OneSize
  MaxSize = 2
  Modulus = 16
  StoreIndex = TRUE
  MaxOps = 3
  MaxFailures = 1
  MaxCrashes = 1
CHECK_DEADLOCK FALSE
SPECIFICATION CleanerFairSpec
INVARIANTS    EntriesReadable
 
