\* Three workers that may die, three files pushed in two batches.
SPECIFICATION BWSpec
CONSTANTS
  i1 = i1
  i2 = i2
  i3 = i3
  None = None
  Sessions = {s1, s2, s3}
  Items <- MCItems
  Batches <- MCTwoBatches
CHECK_DEADLOCK FALSE
SYMMETRY SessionSymmetry
INVARIANTS
  NothingLost
  OneHolder
  OwnCheckpointIntact
  CompletedIsSaved
  NoRepeatedWork
  ModelsAreLineages
PROPERTIES
  RefinesWorkQueue
