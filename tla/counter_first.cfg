\* Two first increments of a counter that does not exist yet.
CONSTANTS
  Increments = {i1, i2}
  Decrements = {}
  Reads = {}
  MaxRetries = 1
  Seeded = FALSE
SPECIFICATION Spec
INVARIANT
  EveryAnswerCounted
CHECK_DEADLOCK FALSE
