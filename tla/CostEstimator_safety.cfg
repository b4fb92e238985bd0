\* Any two of eleven folders, or one, in every order of loading.
SPECIFICATION Spec
CONSTANTS
  Folders <- SafetyFolders
  Conf <- SafetyConf
  CPUPrice = 2
  MemoryPrice = 3
  StoragePrice = 1
  Nil = Nil
INVARIANTS
  EstimateIsOfTheSet
  HPAOnItsTarget
  ColumnsOrdered
  SummaryTellsTheTruth
