\* Two workers are enough for an event to be taken while the last is handled.
SPECIFICATION Spec
CONSTANTS
  Worker = {w1, w2}
  Handlers <- MCHandlers
  Commands = 2
INVARIANTS
  AnswerDelivered
PROPERTIES
  ClientReturns
  
CHECK_DEADLOCK FALSE
