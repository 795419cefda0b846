\* PipeSize 3 < Len(output): the child must be drained while it writes.
\* InputSize 4 > PipeSize: the input takes several writes.
SPECIFICATION ProcessSpec
CONSTANTS
  BlockSize = 2
  Char = {1, 2}
  InputSize = 4
  ErrSize = 1
  PipeSize = 3
  Outputs <- MCOutputs
  Patterns <- MCPatterns
INVARIANTS
  ResultIsComplete
  
  ChunksInvisible
PROPERTIES
  RunReturns
CHECK_DEADLOCK FALSE
