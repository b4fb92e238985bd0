\* Three requests, three threads of HTTP or two of gRPC; every request may have
\* been answered in the end.
SPECIFICATION FairSpec
CONSTANTS
  Requests = {r1, r2, r3}
  Settings <- MCFrontends
  Workers = 2
  Nil = Nil
CHECK_DEADLOCK FALSE
INVARIANTS
  FieldsAreRecent
  ErrorsAreBackendFailures
PROPERTIES
  EveryRequestAnswered
