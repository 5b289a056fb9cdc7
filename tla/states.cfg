\* Two contexts that meet in one store, in memory or in a file: overlapping
\* transactions, commits that interleave with disposals, crashes and shutdown.
CONSTANTS
  Contexts = {c1, c2}
  Keys = {k1, k2}
  Values = {v1}
  MaxChanges = 1
SPECIFICATION FairSpec
INVARIANTS
  LocksAreKept
PROPERTIES
  RepeatableReads
  SerializableIsAlone
  WaitersAreServed
  IsAtomicStore
CHECK_DEADLOCK FALSE
