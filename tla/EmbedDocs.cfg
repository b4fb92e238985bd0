CONSTANTS
  N = 2
  Settings <- MCSettings
  ObjectOf <- MCObjects
  Nested = {}
  Pieces = 2
  BackoffLimit = 1
  MaxRedeliveries = 1
SPECIFICATION FairSpec
CHECK_DEADLOCK FALSE
INVARIANTS
  ReportedIsSearchable
  NeverOlderThanEvent
  NoAttemptAfterSuccess
PROPERTIES
  ImplementsDocIndex
  UploadSettled
