\* Two competing processes: one stops or crashes, the broker restarts, a handler fails.
CONSTANTS
  p1 = p1
  i1 = i1
  Unreadable <- UnreadableValue
  Items = {i1, i2}
  Processes = {p1, p2}
  BufferSize = 1
  BatchSize = 2
  DegreeOfParallelism = 1
  MaxStops = 1
  MaxRestarts = 1
  MaxFailures = 1
SPECIFICATION FairSpec
PROPERTY
  EveryItemIsDone
CHECK_DEADLOCK FALSE
