\* Two processes with parallel batches of two, one of which stops or crashes: slices
\* of every size, full buffers, failing handlers.
CONSTANTS
  p1 = p1
  i1 = i1
  Unreadable <- UnreadableValue
  Items = {i1, i2, i3}
  Processes = {p1, p2}
  BufferSize = 2
  BatchSize = 2
  DegreeOfParallelism = 2
  MaxStops = 1
  MaxRestarts = 0
  MaxFailures = 1
SPECIFICATION Spec
SYMMETRY WorkSymmetry
INVARIANTS
  TypeOK
  BatchesPartition
  HandledByOne
PROPERTIES
  NeverForgets
  KeepsItems
CHECK_DEADLOCK FALSE
