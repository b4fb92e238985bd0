CONSTANTS
  N = 2
  Settings <- MCSettings
  ObjectOf <- MCObjects
  Nested = {"a/b"}
  Pieces = 2
  BackoffLimit = 1
  MaxRedeliveries = 0
  TopK = 2
  Window = 1
  MaxQuestions = 3
SPECIFICATION RagSpec
CHECK_DEADLOCK FALSE
INVARIANTS
  AnswerFollowsQuestion
  OnlyCutQuestionsAreLost
  MemoryIsFaithful
PROPERTIES
  EmbeddedIsFound
