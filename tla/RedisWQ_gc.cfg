SPECIFICATION FairSpec
CONSTANTS
  i1 = i1
  i2 = i2
  i3 = i3
  None = None
  Sessions = {s1, s2}
  Items <- MCItems
  Batches <- MCBatches
CHECK_DEADLOCK FALSE
PROPERTIES AbandonedReturned
