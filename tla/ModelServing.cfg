CONSTANTS
  NumRequests <- MCNumRequests
  EmptyPrompts <- MCEmptyPrompts
  BatchSize = 4
  Devices = 2
  Workers = 5
  Callers = {"r1", "r2"}
  Models = {"m1", "m2"}
  Tokens = 3
SPECIFICATION ServingSpec
CHECK_DEADLOCK FALSE
INVARIANTS
  OwnImage
  FailuresHaveCauses
  TextsAreWhole
  NothingRunsForNobody
PROPERTIES
  AllAreAnswered
