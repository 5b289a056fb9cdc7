\* Colliding writers on a row that exists: enough of them that one can run out of
\* retries.
CONSTANTS
  Increments = {i1, i2, i3}
  Decrements = {d1}
  Reads = {g1}
  MaxRetries = 1
  Seeded = TRUE
SPECIFICATION FairSpec
INVARIANTS
  VersionIdentifiesValue
  FailureMeansContention
PROPERTIES
  IsAtomicCounter
  EveryRequestAnswered
CHECK_DEADLOCK FALSE
