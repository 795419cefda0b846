\* Kills and failing deletes, entries of different sizes.
CONSTANTS
  t1 = t1 t2 = t2 h = h u = u e1 = e1 e2 = e2
  Thread = {t1, t2}
  Path = {h, u}
  DirectPath = {u}
  Entry = {e1, e2}
  WithDeps = {e1}
  Headers = Headers
  None = None
  Broken = Broken
  ObjectSize <- ObjectSizes
  DepsSize <- DepsSizes
  WritesFail = TRUE
  DeletesFail = TRUE
  Crashes = TRUE
CHECK_DEADLOCK FALSE
SYMMETRY Symmetry
SPECIFICATION Spec
INVARIANTS Exclusive 
