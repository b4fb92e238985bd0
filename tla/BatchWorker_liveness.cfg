\* Two workers; i1 is pushed twice, i2 late, maybe when a worker has already ended.
SPECIFICATION BWFairSpec
CONSTANTS
  i1 = i1
  i2 = i2
  i3 = i3
  None = None
  Sessions = {s1, s2}
  Items <- MCItems
  Batches <- MCRequeued
CHECK_DEADLOCK FALSE
INVARIANTS
  CompletedIsReported
  EmptyIsTruthful
PROPERTIES
  WaitingItemCompleted
  WorkersExit
